------------------------------ MODULE VoiceSeats ------------------------------
(***************************************************************************)
(* Who has audio up in which voice channel, as the hub sees it.  The same  *)
(* fact is kept in four places that no lock covers together: the channel a *)
(* session sits in, the media session it believes it holds, the voiceRoom  *)
(* of the channel with its members in arrival order and its epoch, and the *)
(* peers of the relay.  The first two belong to a session, the last two to *)
(* a user.                                                                 *)
(*                                                                         *)
(* Every read loop is a thread, and so is the relay's callback.  A thread  *)
(* takes one step per lock it acquires, and leaveVoice and resetVoiceRoom  *)
(* are subroutines that return to the step named in ret.  The registry of  *)
(* connected sessions is IdentitySlots, which SessionRegistry implements.  *)
(* A behaviour picks one of Plans: who connects, in which mode, and what   *)
(* else happens beside users minding their own audio.                      *)
(***************************************************************************)
EXTENDS Integers, Sequences, FiniteSets, Functions

CONSTANTS Users, Sessions, NoSession,
          Owner,            \* the identity each session authenticates as
          Channels,         \* voice channels
          None,             \* no channel
          Relay,            \* the thread of the relay's callback
          MaxParticipants,  \* cfg.Voice.MaxParticipants, 0 for no ceiling
          UserLimit,        \* Channel.UserLimit, 0 for no limit
          Plans             \* what a behaviour may be about

\* An identity connects while it is connected; moderators move other users;
\* channels are deleted; an administrator changes the voice settings; transports
\* fail; the address the relay advertises changes.
AllFeatures == {"displace", "moderate", "delete", "rework", "transport", "address"}

Threads == Sessions \cup {Relay}

ASSUME SeatAssumption ==
    /\ IsFiniteSet(Users) /\ IsFiniteSet(Sessions) /\ IsFiniteSet(Channels)
    /\ NoSession \notin Sessions /\ None \notin Channels /\ Relay \notin Sessions
    /\ Owner \in [Sessions -> Users]
    /\ MaxParticipants \in Nat /\ UserLimit \in Nat

\* A plan: the sessions that may come and the channels there are to begin with,
\* cfg.Voice.Mode, a bound on the requests, drops and transport failures, and what
\* else happens.
ASSUME PlansFit ==
    \A p \in Plans :
        /\ p.sessions \subseteq Sessions /\ p.channels \subseteq Channels
        /\ p.mode \in {"server_host", "client_host"}
        /\ p.requests \in Nat
        /\ p.features \subseteq AllFeatures

VARIABLES
    plan,       \* what this behaviour is about
    holder,     \* hub.byUser
    conn,       \* the connection: "off", "on", "closed", "gone"
    chan,       \* Session.channelID, the channel the session sits in
    seat,       \* Session.voice.channelID while voice.connected, else None
    rooms,      \* hub.voiceRooms: members in arrival order, <<>> for no room
    epochs,     \* hub.voiceEpochs
    peers,      \* the relay's peers, <<channel, user>>
    exists,     \* the channels in the hub's cache
    pc,         \* the step each thread takes next
    who,        \* the session leaveVoice is working on
    at,         \* the channel leaveVoice or resetVoiceRoom is working on
    to,         \* the channel handleVoiceConnect or handleUserMove is going to
    ret,        \* where leaveVoice or resetVoiceRoom returns to
    left,       \* the users a loop has still to deal with
    todo,       \* the channels or sessions an outer loop has still to deal with
    shut,       \* the channels resetAllVoice has reset and not closed yet
    told,       \* every <<channel, epoch, host>> a client was ever handed
    requests    \* how many requests have been started

hubVars    == <<holder, conn>>
seatVars   == <<chan, seat>>
roomVars   == <<rooms, epochs>>
localVars  == <<who, at, to, left, todo, shut>>
vars == <<hubVars, seatVars, roomVars, peers, exists, pc, ret, localVars, told, requests, plan>>

Members(c) == Range(rooms[c])
Seated(u) == {c \in Channels : u \in Members(c)}

Steps == {"idle", "cap", "join", "open", "attach",
          "clear", "unrelay", "detach", "drop", "bump", "each", "uneach",
          "sit", "leaveall", "remove", "gone",
          "close", "forget", "evict", "unseat", "list", "next", "closeall"}

TypeOK ==
    /\ holder \in [Users -> Sessions \cup {NoSession}]
    /\ conn \in [Sessions -> {"off", "on", "closed", "gone"}]
    /\ chan \in [Sessions -> Channels \cup {None}]
    /\ seat \in [Sessions -> Channels \cup {None}]
    /\ rooms \in [Channels -> Seq(Users)]
    /\ epochs \in [Channels -> Nat]
    /\ peers \subseteq Channels \X Users
    /\ exists \subseteq Channels
    /\ pc \in [Threads -> Steps]
    /\ who \in [Threads -> Sessions \cup {NoSession}]
    /\ at \in [Threads -> Channels \cup {None}]
    /\ to \in [Threads -> Channels \cup {None}]
    /\ ret \in [Threads -> Steps]
    /\ left \in [Threads -> Seq(Users)]
    /\ todo \in [Threads -> SUBSET (Channels \cup Sessions)]
    /\ shut \in [Threads -> SUBSET Channels]
    /\ told \subseteq Channels \X Nat \X Users
    /\ requests \in 0..plan.requests

Init ==
    /\ plan \in Plans
    /\ holder = [u \in Users |-> NoSession]
    /\ conn = [s \in Sessions |-> "off"]
    /\ chan = [s \in Sessions |-> None]
    /\ seat = [s \in Sessions |-> None]
    /\ rooms = [c \in Channels |-> <<>>]
    /\ epochs = [c \in Channels |-> 0]
    /\ peers = {}
    /\ exists = plan.channels
    /\ pc = [t \in Threads |-> "idle"]
    /\ who = [t \in Threads |-> NoSession]
    /\ at = [t \in Threads |-> None]
    /\ to = [t \in Threads |-> None]
    /\ ret = [t \in Threads |-> "idle"]
    /\ left = [t \in Threads |-> <<>>]
    /\ todo = [t \in Threads |-> {}]
    /\ shut = [t \in Threads |-> {}]
    /\ told = {}
    /\ requests = 0

Slots == INSTANCE IdentitySlots WITH MaxUsers <- Cardinality(Users) + 1

\* Thread t does step p next.
Goto(t, p) == pc' = [pc EXCEPT ![t] = p]

\* Thread t calls leaveVoice on session s and channel c and returns to step r.
CallLeave(t, s, c, r) ==
    /\ Goto(t, "clear")
    /\ who' = [who EXCEPT ![t] = s]
    /\ at' = [at EXCEPT ![t] = c]
    /\ ret' = [ret EXCEPT ![t] = r]

\* A read loop takes up a request; one already read may be handled after the
\* connection was closed.
Request(s) ==
    /\ pc[s] = "idle"
    /\ conn[s] \in {"on", "closed"}
    /\ requests < plan.requests
    /\ requests' = requests + 1

-----------------------------------------------------------------------------
(* Connections                                                             *)

\* A session takes its identity's slot; the one it displaces is closed.
Arrive(s) ==
    /\ s \in plan.sessions /\ conn[s] = "off"
    /\ "displace" \in plan.features \/ holder[Owner[s]] = NoSession
    /\ Slots!Take(s, Owner[s])
    /\ conn' = [x \in Sessions |-> IF x = s THEN "on"
                                   ELSE IF x = holder[Owner[s]] THEN "closed" ELSE conn[x]]
    /\ UNCHANGED <<seatVars, roomVars, peers, exists, pc, ret, localVars, told, requests>>

\* Session.Close, from whatever side.
Drop(s) ==
    /\ conn[s] = "on"
    /\ conn' = [conn EXCEPT ![s] = "closed"]
    /\ UNCHANGED <<holder, seatVars, roomVars, peers, exists, pc, ret, localVars, told, requests>>

HeldByAnyone(s) == holder[Owner[s]] # NoSession  \* wrong
HeldByOther(s) == holder[Owner[s]] \notin {s, NoSession}

\* Relay.Leave.
Unpeered(c, u) == peers \ {<<c, u>>}

\* The epoch of a channel moves on.
NextEpochAfresh(c) == 1                          \* wrong
NextEpoch(c) == epochs[c] + 1

\* finishSession, the first look: a displaced session only forgets its seat,
\* any other leaves the channel its media session is in.
Finish(s) ==
    /\ conn[s] = "closed" /\ pc[s] = "idle"
    /\ IF HeldByOther(s)
       THEN /\ seat' = [seat EXCEPT ![s] = None]
            /\ Goto(s, "remove")
            /\ UNCHANGED <<who, at, ret>>
       ELSE /\ IF seat[s] # None
               THEN CallLeave(s, s, seat[s], "leaveall")
               ELSE Goto(s, "leaveall") /\ UNCHANGED <<who, at, ret>>
            /\ UNCHANGED seat
    /\ UNCHANGED <<hubVars, chan, roomVars, peers, exists, to, left, todo, shut, told, requests>>

\* finishSession: Relay.LeaveAll closes every peer of the user.
FinishLeaveAll(s) ==
    /\ pc[s] = "leaveall"
    /\ peers' = {p \in peers : p[2] # Owner[s]}
    /\ Goto(s, "remove")
    /\ UNCHANGED <<hubVars, seatVars, roomVars, exists, ret, localVars, told, requests>>

\* finishSession: Hub.Remove.
FinishRemove(s) ==
    /\ pc[s] = "remove"
    /\ IF holder[Owner[s]] = s THEN Slots!Vacate(Owner[s]) ELSE UNCHANGED holder
    /\ conn' = [conn EXCEPT ![s] = "gone"]
    /\ Goto(s, "idle")
    /\ UNCHANGED <<seatVars, roomVars, peers, exists, ret, localVars, told, requests>>

-----------------------------------------------------------------------------
(* handleVoiceConnect                                                      *)

\* requireVoiceChannel: the caller sits in a channel that still exists.
SitsAnywhere(s) == TRUE                          \* wrong
SitsInChannel(s) == chan[s] \in exists

\* The media session held already is left first.
Connect(s) ==
    /\ Request(s)
    /\ SitsInChannel(s)
    /\ to' = [to EXCEPT ![s] = chan[s]]
    /\ IF seat[s] # None
       THEN CallLeave(s, s, seat[s], "cap")
       ELSE Goto(s, "cap") /\ UNCHANGED <<who, at, ret>>
    /\ UNCHANGED <<hubVars, seatVars, roomVars, peers, exists, left, todo, shut, told>>

\* The ceiling on participants, read under the room lock and released.
ConnectCap(s) ==
    /\ pc[s] = "cap"
    /\ IF MaxParticipants > 0 /\ Len(rooms[to[s]]) >= MaxParticipants
       THEN Goto(s, "idle")
       ELSE Goto(s, IF plan.mode = "server_host" THEN "join" ELSE "open")
    /\ UNCHANGED <<hubVars, seatVars, roomVars, peers, exists, ret, localVars, told, requests>>

\* Relay.Join succeeds, replacing the peer the user had, or fails.
ConnectJoin(s) ==
    /\ pc[s] = "join"
    /\ \/ peers' = peers \cup {<<to[s], Owner[s]>>} /\ Goto(s, "open")
       \/ UNCHANGED peers /\ Goto(s, "idle")
    /\ UNCHANGED <<hubVars, seatVars, roomVars, exists, ret, localVars, told, requests>>

\* openVoiceSession, undone at the relay when a session is open elsewhere.
ConnectOpen(s) ==
    /\ pc[s] = "open"
    /\ IF seat[s] \in {None, to[s]}
       THEN /\ seat' = [seat EXCEPT ![s] = to[s]]
            /\ Goto(s, "attach")
            /\ UNCHANGED peers
       ELSE /\ peers' = Unpeered(to[s], Owner[s])
            /\ Goto(s, "idle")
            /\ UNCHANGED seat
    /\ UNCHANGED <<hubVars, chan, roomVars, exists, ret, localVars, told, requests>>

\* A room with user u in it, and whether the arrival elects a host.
JoinedAlone(c, u) == <<u>>                       \* wrong
Joined(c, u) == IF u \in Members(c) THEN rooms[c] ELSE Append(rooms[c], u)
Elects(c) == rooms[c] = <<>>

\* voiceAttach: the first arrival moves the epoch; in client_host mode the
\* client, and everybody in sight of the channel, is told who hosts.
ConnectAttach(s) ==
    /\ pc[s] = "attach"
    /\ LET c == to[s]
           u == Owner[s]
           epoch == IF Elects(c) THEN NextEpoch(c) ELSE epochs[c] IN
       /\ rooms' = [rooms EXCEPT ![c] = Joined(c, u)]
       /\ epochs' = [epochs EXCEPT ![c] = epoch]
       /\ told' = IF plan.mode = "client_host"
                  THEN told \cup {<<c, epoch, Head(Joined(c, u))>>} ELSE told
    /\ Goto(s, "idle")
    /\ UNCHANGED <<hubVars, seatVars, peers, exists, ret, localVars, requests>>

-----------------------------------------------------------------------------
(* leaveVoice, for any thread                                              *)

\* clearVoiceSession; what follows depends on whether there was a session.
LeaveClear(t) ==
    /\ pc[t] = "clear"
    /\ LET s == who[t]
           had == seat[s] = at[t] IN
       /\ seat' = [seat EXCEPT ![s] = IF had THEN None ELSE @]
       /\ left' = [left EXCEPT ![t] = IF had THEN <<Owner[s]>> ELSE <<>>]
    /\ Goto(t, "unrelay")
    /\ UNCHANGED <<hubVars, chan, roomVars, peers, exists, ret, who, at, to, todo, shut, told, requests>>

\* Relay.Leave, whether or not there was a session.
LeaveRelay(t) ==
    /\ pc[t] = "unrelay"
    /\ peers' = Unpeered(at[t], Owner[who[t]])
    /\ Goto(t, IF left[t] = <<>> THEN ret[t] ELSE "detach")
    /\ UNCHANGED <<hubVars, seatVars, roomVars, exists, ret, localVars, told, requests>>

Hosts(c, u) == rooms[c] # <<>> /\ Head(rooms[c]) = u
Place(c, u) == CHOOSE i \in DOMAIN rooms[c] : rooms[c][i] = u
Without(c, u) ==
    IF u \notin Members(c) THEN rooms[c]
    ELSE [i \in 1..Len(rooms[c]) - 1 |-> rooms[c][IF i < Place(c, u) THEN i ELSE i + 1]]

\* voiceDetach: a host's departure moves the epoch and, in client_host mode,
\* starts the room over.
LeaveDetach(t) ==
    /\ pc[t] = "detach"
    /\ LET c == at[t]
           u == Owner[who[t]] IN
       /\ rooms' = [rooms EXCEPT ![c] = Without(c, u)]
       /\ epochs' = [epochs EXCEPT ![c] = IF Hosts(c, u) THEN NextEpoch(c) ELSE @]
       /\ Goto(t, IF plan.mode = "client_host" /\ Hosts(c, u) THEN "drop" ELSE ret[t])
    /\ UNCHANGED <<hubVars, seatVars, peers, exists, ret, localVars, told, requests>>

-----------------------------------------------------------------------------
(* resetVoiceRoom, for any thread                                          *)

\* The epoch of a channel once its room is dropped: it outlives the room.
EpochForgotten(c) == 0
EpochKept(c) == epochs[c]

\* voiceDropRoom; an empty room needs nothing more.
ResetDrop(t) ==
    /\ pc[t] = "drop"
    /\ left' = [left EXCEPT ![t] = rooms[at[t]]]
    /\ rooms' = [rooms EXCEPT ![at[t]] = <<>>]
    /\ epochs' = [epochs EXCEPT ![at[t]] = EpochKept(at[t])]
    /\ Goto(t, IF rooms[at[t]] = <<>> THEN ret[t] ELSE "bump")
    /\ UNCHANGED <<hubVars, seatVars, peers, exists, ret, who, at, to, todo, shut, told, requests>>

\* voiceMu was released in between: the epoch moves in a step of its own.
ResetBump(t) ==
    /\ pc[t] = "bump"
    /\ epochs' = [epochs EXCEPT ![at[t]] = NextEpoch(at[t])]
    /\ Goto(t, "each")
    /\ UNCHANGED <<hubVars, seatVars, rooms, peers, exists, ret, localVars, told, requests>>

\* Each member's session, found by user, is cleared; one that has gone is
\* skipped.
ResetClear(t) ==
    /\ pc[t] = "each"
    /\ LET u == Head(left[t]) IN
       IF left[t] = <<>>
       THEN Goto(t, ret[t]) /\ UNCHANGED <<seat, left>>
       ELSE IF holder[u] = NoSession
       THEN left' = [left EXCEPT ![t] = Tail(@)] /\ UNCHANGED <<seat, pc>>
       ELSE /\ seat' = [seat EXCEPT ![holder[u]] = IF @ = at[t] THEN None ELSE @]
            /\ Goto(t, "uneach")
            /\ UNCHANGED left
    /\ UNCHANGED <<hubVars, chan, roomVars, peers, exists, ret, who, at, to, todo, shut, told, requests>>

\* Relay.Leave for the member, who is then told to start again.
ResetRelay(t) ==
    /\ pc[t] = "uneach"
    /\ peers' = Unpeered(at[t], Head(left[t]))
    /\ left' = [left EXCEPT ![t] = Tail(@)]
    /\ Goto(t, "each")
    /\ UNCHANGED <<hubVars, seatVars, roomVars, exists, ret, who, at, to, todo, shut, told, requests>>

-----------------------------------------------------------------------------
(* voice.leave and user.move                                               *)

\* handleVoiceLeave.
Leave(s) ==
    /\ Request(s)
    /\ seat[s] # None
    /\ CallLeave(s, s, seat[s], "idle")
    /\ UNCHANGED <<hubVars, seatVars, roomVars, peers, exists, to, left, todo, shut, told>>

Population(c) == Cardinality({s \in Sessions : chan[s] = c /\ holder[Owner[s]] = s})

\* handleUserMove: the caller, or another user's session, goes to a channel or
\* to none.  Somebody who may move others is not held to the user limit.
Move(s, target, dest) ==
    /\ Request(s)
    /\ target = s \/ ("moderate" \in plan.features /\ Owner[target] # Owner[s]
                      /\ holder[Owner[target]] = target)
    /\ dest # chan[target]
    /\ dest # None =>
         /\ dest \in exists
         /\ UserLimit = 0 \/ target # s \/ Population(dest) < UserLimit
    /\ to' = [to EXCEPT ![s] = dest]
    /\ IF chan[target] # None
       THEN CallLeave(s, target, chan[target], "sit")
       ELSE Goto(s, "sit") /\ who' = [who EXCEPT ![s] = target] /\ UNCHANGED <<at, ret>>
    /\ UNCHANGED <<hubVars, seatVars, roomVars, peers, exists, left, todo, shut, told>>

\* setChannel, once the audio of the channel left behind is down.
MoveSit(s) ==
    /\ pc[s] = "sit"
    /\ chan' = [chan EXCEPT ![who[s]] = to[s]]
    /\ Goto(s, "idle")
    /\ UNCHANGED <<hubVars, seat, roomVars, peers, exists, ret, localVars, told, requests>>

-----------------------------------------------------------------------------
(* The relay giving up on a transport                                      *)

\* room.evict takes the peer out and calls back in a goroutine of its own.
TransportFails(c, u) ==
    /\ "transport" \in plan.features
    /\ pc[Relay] = "idle"
    /\ requests < plan.requests /\ requests' = requests + 1
    /\ <<c, u>> \in peers
    /\ peers' = peers \ {<<c, u>>}
    /\ at' = [at EXCEPT ![Relay] = c]
    /\ left' = [left EXCEPT ![Relay] = <<u>>]
    /\ Goto(Relay, "gone")
    /\ UNCHANGED <<hubVars, seatVars, roomVars, exists, ret, who, to, todo, shut, told>>

\* onRelayGone: leaveVoice on whichever session the user has now.
RelayGone ==
    /\ pc[Relay] = "gone"
    /\ LET u == Head(left[Relay]) IN
       IF holder[u] = NoSession
       THEN Goto(Relay, "idle") /\ UNCHANGED <<who, at, ret>>
       ELSE CallLeave(Relay, holder[u], at[Relay], "idle")
    /\ UNCHANGED <<hubVars, seatVars, roomVars, peers, exists, to, left, todo, shut, told, requests>>

-----------------------------------------------------------------------------
(* channel.delete and config.update                                        *)

\* handleChannelDelete: the row and the cache entry go first.
Delete(s, c) ==
    /\ "delete" \in plan.features
    /\ Request(s)
    /\ c \in exists
    /\ exists' = exists \ {c}
    /\ at' = [at EXCEPT ![s] = c]
    /\ ret' = [ret EXCEPT ![s] = "close"]
    /\ Goto(s, "drop")
    /\ UNCHANGED <<hubVars, seatVars, roomVars, peers, who, to, left, todo, shut, told>>

\* Relay.CloseChannel, after the room was reset.
DeleteClose(s) ==
    /\ pc[s] = "close"
    /\ peers' = {p \in peers : p[1] # at[s]}
    /\ Goto(s, "forget")
    /\ UNCHANGED <<hubVars, seatVars, roomVars, exists, ret, localVars, told, requests>>

\* forgetVoiceChannel, then the sessions that may have to be evicted are listed.
DeleteForget(s) ==
    /\ pc[s] = "forget"
    /\ rooms' = [rooms EXCEPT ![at[s]] = <<>>]
    /\ epochs' = [epochs EXCEPT ![at[s]] = 0]
    /\ todo' = [todo EXCEPT ![s] = {holder[u] : u \in Users} \ {NoSession}]
    /\ Goto(s, "evict")
    /\ UNCHANGED <<hubVars, seatVars, peers, exists, ret, who, at, to, left, shut, told, requests>>

\* evictFromChannels: every session still sitting there leaves and is unseated.
DeleteEvict(s) ==
    /\ pc[s] = "evict"
    /\ IF todo[s] = {}
       THEN Goto(s, "idle") /\ UNCHANGED <<who, at, ret, todo, shut>>
       ELSE \E x \in todo[s] :
            /\ todo' = [todo EXCEPT ![s] = @ \ {x}]
            /\ IF chan[x] = at[s] THEN CallLeave(s, x, at[s], "unseat")
               ELSE UNCHANGED <<pc, who, at, ret>>
    /\ UNCHANGED <<hubVars, seatVars, roomVars, peers, exists, to, left, shut, told, requests>>

DeleteUnseat(s) ==
    /\ pc[s] = "unseat"
    /\ chan' = [chan EXCEPT ![who[s]] = None]
    /\ Goto(s, "evict")
    /\ UNCHANGED <<hubVars, seat, roomVars, peers, exists, ret, localVars, told, requests>>

\* updateServerIdentity rebuilds the relay when the settings it runs changed,
\* which closes every peer without a word, and goes on to resetAllVoice.
ChangeConfig(s) ==
    /\ "rework" \in plan.features
    /\ Request(s)
    /\ peers' \in {peers, {}}
    /\ Goto(s, "list")
    /\ UNCHANGED <<hubVars, seatVars, roomVars, exists, ret, localVars, told>>

\* voiceChannels.
ChangeList(s) ==
    /\ pc[s] = "list"
    /\ todo' = [todo EXCEPT ![s] = {c \in Channels : rooms[c] # <<>>}]
    /\ shut' = [shut EXCEPT ![s] = {c \in Channels : rooms[c] # <<>>}]
    /\ ret' = [ret EXCEPT ![s] = "next"]
    /\ Goto(s, "next")
    /\ UNCHANGED <<hubVars, seatVars, roomVars, peers, exists, who, at, to, left, told, requests>>

\* resetAllVoice, the first loop: each room is reset.
ChangeNext(s) ==
    /\ pc[s] = "next"
    /\ IF todo[s] = {}
       THEN Goto(s, "closeall") /\ UNCHANGED <<at, todo>>
       ELSE \E c \in todo[s] :
            /\ todo' = [todo EXCEPT ![s] = @ \ {c}]
            /\ at' = [at EXCEPT ![s] = c]
            /\ Goto(s, "drop")
    /\ UNCHANGED <<hubVars, seatVars, roomVars, peers, exists, ret, who, to, left, shut, told, requests>>

\* resetAllVoice, the second loop: each channel is closed at the relay.
ChangeClose(s) ==
    /\ pc[s] = "closeall"
    /\ IF shut[s] = {}
       THEN Goto(s, "idle") /\ UNCHANGED <<peers, shut>>
       ELSE \E c \in shut[s] :
            /\ shut' = [shut EXCEPT ![s] = @ \ {c}]
            /\ peers' = {p \in peers : p[1] # c}
            /\ UNCHANGED pc
    /\ UNCHANGED <<hubVars, seatVars, roomVars, exists, ret, who, at, to, left, todo, told, requests>>

\* applyPublicIP rebuilds the relay for the new address.
ChangeAddress ==
    /\ "address" \in plan.features
    /\ requests < plan.requests /\ requests' = requests + 1
    /\ peers' = {}
    /\ UNCHANGED <<hubVars, seatVars, roomVars, exists, pc, ret, localVars, told>>

-----------------------------------------------------------------------------
Handler(s) ==
    \/ Connect(s) \/ Leave(s) \/ ChangeConfig(s)
    \/ \E x \in Sessions, c \in Channels \cup {None} : Move(s, x, c)
    \/ \E c \in Channels : Delete(s, c)

\* The steps that carry on what a thread has begun.
Continue(t) ==
    \/ ConnectCap(t) \/ ConnectJoin(t) \/ ConnectOpen(t) \/ ConnectAttach(t)
    \/ LeaveClear(t) \/ LeaveRelay(t) \/ LeaveDetach(t)
    \/ ResetDrop(t) \/ ResetBump(t) \/ ResetClear(t) \/ ResetRelay(t)
    \/ MoveSit(t) \/ FinishLeaveAll(t) \/ FinishRemove(t)
    \/ DeleteClose(t) \/ DeleteForget(t) \/ DeleteEvict(t) \/ DeleteUnseat(t)
    \/ ChangeList(t) \/ ChangeNext(t) \/ ChangeClose(t)

Next ==
    /\ UNCHANGED plan
    /\ \/ \E s \in Sessions : Arrive(s) \/ Drop(s) \/ Finish(s) \/ Handler(s)
       \/ \E t \in Threads : Continue(t)
       \/ \E c \in Channels, u \in Users : TransportFails(c, u)
       \/ RelayGone
       \/ ChangeAddress

Spec == Init /\ [][Next]_vars

-----------------------------------------------------------------------------
(* Safety                                                                  *)

\* No thread is in the middle of anything, and nobody waits to be torn down.
Quiet ==
    /\ \A t \in Threads : pc[t] = "idle"
    /\ \A s \in Sessions : conn[s] # "closed"

\* The session of a member of room c, if that member is connected, holds its
\* media session there, and sits there.
Accounted(u, c) ==
    /\ holder[u] # NoSession
    /\ seat[holder[u]] = c
    /\ chan[holder[u]] = c

\* Nobody is in the room and not in the channel, and nobody has audio up in a
\* room that does not list them: when nothing is in progress, every member of a
\* voiceRoom is connected, sits in the channel and holds its media session
\* there, and every media session has its place in the room.  (voiceRoom;
\* voiceAttach, voiceDetach)
RoomsHoldTheSeated ==
    Quiet =>
        /\ \A c \in Channels : \A u \in Members(c) : Accounted(u, c)
        /\ \A s \in Sessions :
               conn[s] = "on" /\ seat[s] # None => Owner[s] \in Members(seat[s])

\* No two rooms believe they hold the same person, whatever is in progress.
\* (openVoiceSession)
OneRoomEach == \A u \in Users : Cardinality(Seated(u)) <= 1

\* In server_host mode nobody is left in silence: when nothing is in progress,
\* a session that believes it has audio up has a peer at the relay.
MediaBehindSeats ==
    Quiet /\ plan.mode = "server_host" => \A s \in Sessions :
        conn[s] = "on" /\ seat[s] # None => <<seat[s], Owner[s]>> \in peers

\* Nobody who has gone is still heard: no peer at the relay outlives the last
\* connection of its user.  (finishSession, LeaveAll)
NoMediaAfterGone ==
    Quiet => \A p \in peers : holder[p[2]] # NoSession

\* Nobody is counted twice in a room, however often they connect: the count is
\* what MaxParticipants is compared with, and the order is the election.
NobodyTwice ==
    \A c \in Channels : Cardinality(Members(c)) = Len(rooms[c])

\* Nobody touches the audio of anybody else, in a server-hosted deployment.
OwnAudio == plan.features = {} /\ plan.mode = "server_host"

\* As long as nobody does: whoever is in a room is in its channel and the other way
\* round when nothing is in progress, no two rooms ever believe they hold the same
\* person, and nobody is left in silence.
CalmRecordsAgree == OwnAudio => RoomsHoldTheSeated /\ OneRoomEach /\ MediaBehindSeats

\* Whatever moderators, administrators and the network do, nobody is counted
\* twice in a room, and nobody is heard after their last connection has ended,
\* unless an identity connected while it was connected.
EverywhereNoGhosts ==
    NobodyTwice /\ ("displace" \notin plan.features => NoMediaAfterGone)

\* As long as a channel exists, one epoch of it names one host: a client can
\* tell signalling of an earlier occupancy from that of its own.  (voiceAttach,
\* resetVoiceRoom, forgetVoiceChannel)
EpochNamesOneHost ==
    \A x, y \in told :
        x[1] \in exists /\ x[1] = y[1] /\ x[2] = y[2] => x[3] = y[3]
==============================================================================
