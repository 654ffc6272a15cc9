------------------------------ MODULE RelayMedia ------------------------------
(***************************************************************************)
(* One room of the relay: who is sent whose media, and how each peer is    *)
(* told.  Everything structural happens with the mutex of the room held,   *)
(* but an edit ends in a renegotiation of the peer it touches, and the     *)
(* answers to those arrive on the read loops of the clients, which do not  *)
(* take that mutex.  The holder of the mutex is therefore a thread of its  *)
(* own, working through the edits it owes, and so is each read loop.       *)
(*                                                                         *)
(* A peer is its user here; RelayRooms is about the peers that come and go *)
(* under one user and about the rooms themselves.  The peer connection is  *)
(* modelled as far as its signalling state, which is the library's.        *)
(***************************************************************************)
EXTENDS Integers, FiniteSets

CONSTANTS Users,
          Purposes,         \* publishedPurposes: "mic", "screen" and perhaps "sound",
                            \* the sound of a screen
          MaxJoins,         \* bound: how often somebody joins
          MaxRequests       \* bound: what else clients and networks start

VARIABLES
    peers,       \* room.peers
    signalling,  \* of the peer connection: "none" but for the opening offer
                 \* while it has no answer, "stable", or "offering"
    arrived,     \* what a track has arrived for: publication.remote
    armed,       \* publication.armed
    sinks,       \* publication.sinks, the users media is written to
    slots,       \* peer.slots, the sections opened for a screen
    subs,        \* peer.subs, <<publisher, purpose>>
    watching,    \* peer.watching, the users whose screens were asked for
    streaming,   \* the peers with streaming set
    negotiating, \* the peers with an offer outstanding
    pending,     \* the peers that owe another offer
    timer,       \* the peers whose negotiation clock runs
    described,   \* what the client was last told its sections carry
    evicting,    \* the peers that a goroutine is about to evict
    work,        \* the edits the holder of room.mu has still to make
    offerer,     \* who is making the offer of a peer: "nobody", "room", "reader"
    reader,      \* what the client's read loop does next: "idle", "settle" an
                 \* answer it has applied, or "offer" again
    joins, requests

mediaVars  == <<arrived, armed, sinks, slots, subs, watching, streaming>>
signalVars == <<signalling, negotiating, pending, timer, described, offerer, reader>>
vars == <<peers, mediaVars, signalVars, evicting, work, joins, requests>>

ScreenPurposes == Purposes \ {"mic"}
Keys == Users \X Purposes

\* An edit links or unlinks a subscriber and one publication.
Edits == {"link", "unlink"} \X Users \X Keys

TypeOK ==
    /\ peers \subseteq Users
    /\ signalling \in [Users -> {"none", "stable", "offering"}]
    /\ arrived \in [Users -> SUBSET Purposes]
    /\ armed \in [Users -> SUBSET Purposes]
    /\ sinks \in [Keys -> SUBSET Users]
    /\ slots \in [Users -> SUBSET ScreenPurposes]
    /\ subs \in [Users -> SUBSET Keys]
    /\ watching \in [Users -> SUBSET Users]
    /\ streaming \subseteq Users
    /\ negotiating \subseteq Users /\ pending \subseteq Users /\ timer \subseteq Users
    /\ described \in [Users -> SUBSET Keys]
    /\ evicting \subseteq Users
    /\ work \subseteq Edits
    /\ offerer \in [Users -> {"nobody", "room", "reader"}]
    /\ reader \in [Users -> {"idle", "settle", "offer"}]
    /\ joins \in 0..MaxJoins /\ requests \in 0..MaxRequests

Init ==
    /\ peers = {}
    /\ signalling = [u \in Users |-> "none"]
    /\ arrived = [u \in Users |-> {}]
    /\ armed = [u \in Users |-> {}]
    /\ sinks = [k \in Keys |-> {}]
    /\ slots = [u \in Users |-> {}]
    /\ subs = [u \in Users |-> {}]
    /\ watching = [u \in Users |-> {}]
    /\ streaming = {} /\ negotiating = {} /\ pending = {} /\ timer = {}
    /\ described = [u \in Users |-> {}]
    /\ evicting = {} /\ work = {}
    /\ offerer = [u \in Users |-> "nobody"]
    /\ reader = [u \in Users |-> "idle"]
    /\ joins = 0 /\ requests = 0

\* room.mu is free.
Free == work = {} /\ \A u \in Users : offerer[u] # "room"

\* Something outside the relay asks for something.
Request == requests < MaxRequests /\ requests' = requests + 1 /\ UNCHANGED joins

\* What an offer to peer u describes: what it receives, and the sections its
\* own screen travels on.
Sections(u) == subs[u] \cup ({u} \X slots[u])

\* The users other than u who are sent publication <<u, p>> when it comes to
\* life: everybody for a microphone, whoever asked for a screen.
Audience(u, p) == {o \in peers \ {u} : p = "mic" \/ u \in watching[o]}

Links(u, ps) == {<<"link", o, <<u, p>>>> : o \in Users, p \in ps}
Owed(u, ps) == {e \in Links(u, ps) : e[2] \in Audience(u, e[3][2])}

-----------------------------------------------------------------------------
(* Negotiation                                                             *)

\* A renegotiation that finds one outstanding is remembered.
PendingDropped(u) == pending                                         \* wrong
PendingKept(u) == pending \cup {u}

\* The clock of an outstanding offer is started.
ClockStarted(u) == timer \cup {u}

\* peer.renegotiate up to the unlock: by the holder of room.mu or by the read
\* loop.
Renegotiate(u, by) ==
    IF u \in negotiating
    THEN /\ pending' = PendingKept(u)
         /\ UNCHANGED <<negotiating, timer, offerer>>
    ELSE /\ negotiating' = negotiating \cup {u}
         /\ timer' = ClockStarted(u)
         /\ offerer' = [offerer EXCEPT ![u] = by]
         /\ UNCHANGED pending

\* peer.renegotiate, the rest: the local description is set and sent.  A peer
\* connection that has not answered its opening offer refuses it.
Offer(u) ==
    /\ offerer[u] # "nobody"
    /\ offerer' = [offerer EXCEPT ![u] = "nobody"]
    /\ IF signalling[u] = "stable"
       THEN /\ signalling' = [signalling EXCEPT ![u] = "offering"]
            /\ described' = [described EXCEPT ![u] = Sections(u)]
            /\ UNCHANGED evicting
       ELSE /\ evicting' = evicting \cup {u}
            /\ UNCHANGED <<signalling, described>>
    /\ UNCHANGED <<peers, mediaVars, negotiating, pending, timer, reader, work, joins, requests>>

\* accept: the client's answer is applied to the peer connection, which takes
\* one only when it has offered.
Answer(u) ==
    /\ u \in peers /\ reader[u] = "idle"
    /\ signalling[u] = "offering"
    /\ signalling' = [signalling EXCEPT ![u] = "stable"]
    /\ reader' = [reader EXCEPT ![u] = "settle"]
    /\ UNCHANGED <<peers, mediaVars, negotiating, pending, timer, described, offerer,
                   evicting, work, joins, requests>>

\* accept, with peer.mu held: the offer is no longer outstanding.
Settle(u) ==
    /\ reader[u] = "settle"
    /\ negotiating' = negotiating \ {u}
    /\ pending' = pending \ {u}
    /\ timer' = timer \ {u}
    /\ reader' = [reader EXCEPT ![u] = IF u \in pending THEN "offer" ELSE "idle"]
    /\ UNCHANGED <<peers, mediaVars, signalling, described, offerer, evicting, work, joins, requests>>

\* accept, or openScreen once it has released room.mu: another offer.
OfferAgain(u) ==
    /\ reader[u] = "offer"
    /\ reader' = [reader EXCEPT ![u] = "idle"]
    /\ Renegotiate(u, "reader")
    /\ UNCHANGED <<peers, mediaVars, signalling, described, evicting, work, joins, requests>>

\* The clock of an offer that nobody answered: stopping it later does not stop
\* the goroutine it has started.
TimerFires(u) ==
    /\ u \in timer
    /\ timer' = timer \ {u}
    /\ evicting' = evicting \cup {u}
    /\ UNCHANGED <<peers, mediaVars, signalling, negotiating, pending, described, offerer,
                   reader, work, joins, requests>>

-----------------------------------------------------------------------------
(* Edits, by the holder of room.mu                                         *)

\* link and unlink, each of which renegotiates the subscriber if it changed
\* anything.
Edit(e) ==
    LET o == e[2]
        key == e[3] IN
    /\ e \in work
    /\ \A u \in Users : offerer[u] # "room"
    /\ work' = work \ {e}
    /\ IF (key \in subs[o]) = (e[1] = "link") \/ o \notin peers
       THEN UNCHANGED <<subs, sinks, signalVars>>
       ELSE /\ subs' = [subs EXCEPT ![o] = IF e[1] = "link" THEN @ \cup {key} ELSE @ \ {key}]
            /\ sinks' = [sinks EXCEPT ![key] = IF e[1] = "link" THEN @ \cup {o} ELSE @]
            /\ Renegotiate(o, "room")
            /\ UNCHANGED <<signalling, described, reader>>
    /\ UNCHANGED <<peers, arrived, armed, slots, watching, streaming, evicting, joins, requests>>

\* Relay.Join's admit: an arrival is subscribed to every live microphone before
\* it is answered, without a renegotiation.
Admit(u) ==
    /\ joins < MaxJoins /\ joins' = joins + 1
    /\ Free
    /\ u \notin peers
    /\ LET heard == {k \in Keys : k[2] = "mic" /\ k[1] \in peers /\ "mic" \in armed[k[1]]} IN
       /\ subs' = [subs EXCEPT ![u] = heard]
       /\ sinks' = [k \in Keys |-> IF k \in heard THEN sinks[k] \cup {u} ELSE sinks[k]]
    /\ peers' = peers \cup {u}
    /\ UNCHANGED <<arrived, armed, slots, watching, streaming, signalVars, evicting, work, requests>>

\* Relay.Join's answer, or its failure, which evicts.
JoinAnswer(u) ==
    /\ u \in peers /\ signalling[u] = "none"
    /\ \/ /\ signalling' = [signalling EXCEPT ![u] = "stable"]
          /\ described' = [described EXCEPT ![u] = Sections(u)]
          /\ UNCHANGED evicting
       \/ /\ evicting' = evicting \cup {u}
          /\ UNCHANGED <<signalling, described>>
    /\ UNCHANGED <<peers, mediaVars, negotiating, pending, timer, offerer, reader, work, joins, requests>>

\* publish: a track arrives, on the section its purpose is known by.
Publish(u, p) ==
    /\ Free
    /\ u \in peers /\ signalling[u] # "none"
    /\ p = "mic" \/ p \in slots[u]
    /\ p \notin arrived[u]
    /\ arrived' = [arrived EXCEPT ![u] = @ \cup {p}]
    /\ armed' = [armed EXCEPT ![u] = @ \cup {p}]
    /\ work' = Owed(u, {p})
    /\ UNCHANGED <<peers, sinks, slots, subs, watching, streaming, signalVars, evicting, joins, requests>>

\* OpenScreen: what stopped is put back into service, for whoever asked for it,
\* and missing sections are opened.
OpenScreen(u, wanted) ==
    /\ Request /\ Free
    /\ u \in peers /\ reader[u] = "idle"
    /\ streaming' = streaming \cup {u}
    /\ LET back == (arrived[u] \cap ScreenPurposes) \ armed[u] IN
       /\ armed' = [armed EXCEPT ![u] = @ \cup back]
       /\ work' = Owed(u, back)
    /\ slots' = [slots EXCEPT ![u] = @ \cup wanted]
    /\ reader' = [reader EXCEPT ![u] = IF wanted \subseteq slots[u] THEN "idle" ELSE "offer"]
    /\ UNCHANGED <<peers, arrived, sinks, subs, watching, signalling, negotiating, pending,
                   timer, described, offerer, evicting>>

\* Every subscription to the publications of u with a purpose in ps.
Unlinks(u, ps) ==
    UNION {{<<"unlink", o, <<u, p>>>> : o \in sinks[<<u, p>>]} : p \in ps}

\* CloseScreen: the share reaches nobody, and nobody is watching it any more.
NoLongerWatched(u) == [o \in Users |-> watching[o] \ {u}]

CloseScreen(u) ==
    /\ Request /\ Free
    /\ u \in streaming
    /\ streaming' = streaming \ {u}
    /\ armed' = [armed EXCEPT ![u] = @ \ ScreenPurposes]
    /\ sinks' = [k \in Keys |-> IF k[1] = u /\ k[2] # "mic" THEN {} ELSE sinks[k]]
    /\ work' = Unlinks(u, ScreenPurposes)
    /\ watching' = NoLongerWatched(u)
    /\ UNCHANGED <<peers, arrived, slots, subs, signalVars, evicting>>

\* Watch, which the gateway lets through when the share was running a moment
\* ago, and Unwatch.
Watch(v, u) ==
    /\ Request /\ Free
    /\ v \in peers /\ u \in peers /\ v # u
    /\ watching' = [watching EXCEPT ![v] = @ \cup {u}]
    /\ work' = {e \in Links(u, armed[u] \cap ScreenPurposes) : e[2] = v}
    /\ UNCHANGED <<peers, arrived, armed, sinks, slots, subs, streaming, signalVars, evicting>>

Unwatch(v, u) ==
    /\ Request /\ Free
    /\ v \in peers /\ u \in watching[v]
    /\ watching' = [watching EXCEPT ![v] = @ \ {u}]
    /\ sinks' = [k \in Keys |-> IF k[1] = u /\ k[2] # "mic" THEN sinks[k] \ {v} ELSE sinks[k]]
    /\ work' = {<<"unlink", v, <<u, p>>>> : p \in ScreenPurposes}
    /\ UNCHANGED <<peers, arrived, armed, slots, subs, streaming, signalVars, evicting>>

\* What is left of user u after its peer was closed: nothing.
Closed(u) ==
    /\ signalling' = [signalling EXCEPT ![u] = "none"]
    /\ negotiating' = negotiating \ {u} /\ pending' = pending \ {u} /\ timer' = timer \ {u}
    /\ described' = [described EXCEPT ![u] = {}]
    /\ offerer' = [offerer EXCEPT ![u] = "nobody"]
    /\ reader' = [reader EXCEPT ![u] = "idle"]
    /\ evicting' = evicting \ {u}
    /\ streaming' = streaming \ {u}
    /\ arrived' = [arrived EXCEPT ![u] = {}]
    /\ armed' = [armed EXCEPT ![u] = {}]
    /\ slots' = [slots EXCEPT ![u] = {}]

\* room.remove: out of the room, out of everybody's ears and off their screens.
Remove(u) ==
    /\ Free
    /\ peers' = peers \ {u}
    /\ work' = Unlinks(u, Purposes)
    /\ sinks' = [k \in Keys |-> IF k[1] = u THEN {} ELSE sinks[k] \ {u}]
    /\ subs' = [subs EXCEPT ![u] = {}]
    /\ watching' = [NoLongerWatched(u) EXCEPT ![u] = {}]
    /\ Closed(u)

Leave(u) == u \in peers /\ Request /\ Remove(u)

Evict(u) == u \in evicting /\ Remove(u) /\ UNCHANGED <<joins, requests>>

\* A transport fails under the peer.
TransportFails(u) ==
    /\ Request
    /\ u \in peers
    /\ evicting' = evicting \cup {u}
    /\ UNCHANGED <<peers, mediaVars, signalVars, work>>

-----------------------------------------------------------------------------
Next ==
    \/ \E e \in work : Edit(e)
    \/ \E u \in Users :
        \/ Offer(u) \/ Answer(u) \/ Settle(u) \/ OfferAgain(u) \/ TimerFires(u)
        \/ Admit(u) \/ JoinAnswer(u) \/ Leave(u) \/ Evict(u) \/ TransportFails(u)
        \/ CloseScreen(u)
        \/ \E p \in Purposes : Publish(u, p)
        \/ \E wanted \in SUBSET ScreenPurposes : "screen" \in wanted /\ OpenScreen(u, wanted)
        \/ \E v \in Users : Watch(v, u) \/ Unwatch(v, u)

Spec == Init /\ [][Next]_vars

-----------------------------------------------------------------------------
(* Properties                                                              *)

\* Whenever the room can be looked at, everybody is sent exactly what they are
\* entitled to: every live microphone but their own, and every live screen they
\* asked to watch; and both ends of each subscription know of it.
EntitledExactly ==
    Free => \A u \in Users, k \in Keys :
        LET entitled == /\ u \in peers /\ k[1] \in peers \ {u}
                        /\ k[2] \in armed[k[1]]
                        /\ k[2] = "mic" \/ k[1] \in watching[u] IN
        /\ k \in subs[u] <=> entitled
        /\ u \in sinks[k] <=> entitled

\* A client with nothing outstanding has been told of every section it has:
\* however edits and answers interleave, no change is lost between them.
NothingUntold ==
    Free => \A u \in peers \ evicting :
        (signalling[u] = "stable" /\ u \notin negotiating /\ reader[u] = "idle")
            => described[u] = Sections(u)

\* Nobody waits for ever for a client that does not answer: an offer that is
\* outstanding has a clock running, or its end is already under way.
OffersHaveClocks ==
    \A u \in negotiating : u \in timer \/ u \in evicting \/ reader[u] = "settle"
==============================================================================
