---------------------------- MODULE DiscordClient ----------------------------
(***************************************************************************)
(* One bot connection to Discord's gateway: Run dials, identifies or       *)
(* resumes, reads, and comes back after whatever ends the connection,      *)
(* unless coming back cannot help.  Discord numbers what it sends within a *)
(* session and keeps it for a resume; it may forget the session.  Network  *)
(* failures, and a socket that stays open while nobody answers, happen as  *)
(* often as the plan allows.  Delays are left out.                         *)
(***************************************************************************)
EXTENDS Naturals, Sequences, FiniteSets

CONSTANTS People,     \* who can be in the guild
          Plans,      \* what Discord grants and what may happen: a behaviour picks one
          MaxMissed   \* missedBeatsBeforeReset

VARIABLES
    plan,
    left,      \* what may still happen, by kind
    crowd,     \* Discord: who is in the guild
    kept,      \* Discord: the session it would resume, and what it sent in it
    wire,      \* frames sent to this client and not read
    mute,      \* the socket is open and the other end does not answer
    phase,     \* where session() is
    session,   \* Client.sessionID, 0 for none
    sequence,  \* Client.sequence
    intents,   \* Client.intents: "roster" or "relay"
    connected, \* Client.connected
    roster,    \* Client.rosters: the members known
    total,     \* guildRoster.total
    missed,    \* heartbeats nobody has acknowledged
    dirty,     \* rosterPublisher: the roster changed since it was last flushed
    timer,     \* rosterPublisher: a flush is due
    flush,     \* what a flush is doing, and the roster it has built
    shown,     \* the roster the members of this server were last sent
    told,      \* history: the messages the handlers were given
    sessions   \* history: how many sessions there were

discordVars == <<crowd, kept, wire, mute>>
clientVars == <<phase, session, sequence, intents, connected, roster, total, missed>>
publisherVars == <<dirty, timer, flush, shown>>
historyVars == <<told, sessions>>
vars == <<plan, left, discordVars, clientVars, publisherVars, historyVars>>

Phases == {"down", "dialled", "opening", "up", "stopped", "cancelled"}
NoFlush == [at |-> "idle", who |-> {}]
NoSession == [id |-> 0, log |-> <<>>]

TypeOK ==
    /\ crowd \subseteq People /\ roster \subseteq People /\ total \in Nat
    /\ kept.id \in 0..sessions /\ session \in 0..sessions /\ sequence \in Nat
    /\ phase \in Phases /\ intents \in {"roster", "relay"} /\ connected \in BOOLEAN
    /\ mute \in BOOLEAN /\ missed \in 0..MaxMissed
    /\ session = 0 => sequence = 0
    /\ {dirty, timer} \subseteq BOOLEAN /\ shown \cup flush.who \subseteq People
    /\ connected => phase = "up"

Init ==
    /\ plan \in Plans /\ left = plan.left
    /\ crowd \in {{}, People} /\ kept = NoSession /\ wire = <<>> /\ mute = FALSE
    /\ phase = "down" /\ session = 0 /\ sequence = 0 /\ intents = "roster"
    /\ connected = FALSE /\ roster = {} /\ total = 0 /\ missed = 0
    /\ dirty = FALSE /\ timer = FALSE /\ flush = NoFlush /\ shown = {}
    /\ told = <<>> /\ sessions = 0

Spend(kind) == left[kind] > 0 /\ left' = [left EXCEPT ![kind] = @ - 1]

Open == phase \in {"dialled", "opening", "up"}

---------------------------------------------------------------------------
(* Discord.                                                                 *)

\* Frames without a number are not kept for a resume.
Plain(op) == [op |-> op, n |-> 0]
Receives == Open /\ phase # "dialled" /\ ~mute

\* A dispatch is numbered, kept, and sent if somebody is there.
Dispatches(es) ==
    LET numbered == [i \in DOMAIN es |-> [es[i] EXCEPT !.n = Len(kept.log) + i]]
    IN  /\ kept' = [kept EXCEPT !.log = @ \o numbered]
        /\ wire' = IF Receives THEN wire \o numbered ELSE wire

Event(op, who, count) == [op |-> op, n |-> 0, who |-> who, count |-> count]
Move ==
    /\ kept.id # 0 /\ Spend("move")
    /\ \E u \in People :
        /\ crowd' = IF u \in crowd THEN crowd \ {u} ELSE crowd \cup {u}
        /\ IF intents = "relay" THEN UNCHANGED <<kept, wire>>
           ELSE Dispatches(<<Event(IF u \in crowd THEN "remove" ELSE "add", {u}, 0)>>)
    /\ UNCHANGED <<plan, mute, clientVars, publisherVars, historyVars>>

SomebodySpeaks ==
    /\ kept.id # 0 /\ Spend("say") /\ Dispatches(<<Event("message", {}, 0)>>)
    /\ UNCHANGED <<plan, crowd, mute, clientVars, publisherVars, historyVars>>

\* Discord forgets a session nobody is connected to.
ForgetSession ==
    /\ ~Open /\ kept.id # 0 /\ Spend("forget") /\ kept' = NoSession
    /\ UNCHANGED <<plan, crowd, wire, mute, clientVars, publisherVars, historyVars>>

\* A network that fails: nothing arrives any more, and nobody says so.  Before
\* HELLO that is only let happen where the plan says so.
GoMute ==
    /\ Open /\ ~mute /\ (phase = "dialled" => plan.silent) /\ Spend("mute") /\ mute' = TRUE /\ wire' = <<>>
    /\ UNCHANGED <<plan, crowd, kept, clientVars, publisherVars, historyVars>>

\* Discord asks to reconnect.
AskToReconnect ==
    /\ phase = "up" /\ ~mute /\ Spend("drop") /\ wire' = Append(wire, Plain("reconnect"))
    /\ UNCHANGED <<plan, crowd, kept, mute, clientVars, publisherVars, historyVars>>

---------------------------------------------------------------------------
(* Run and session.                                                         *)

Hangup(next) == phase' = next /\ wire' = <<>> /\ mute' = FALSE /\ connected' = FALSE /\ missed' = 0

Dial ==
    /\ phase = "down" /\ phase' = "dialled"
    /\ UNCHANGED <<plan, left, discordVars, session, sequence, intents, connected, roster, total,
                   missed, publisherVars, historyVars>>

\* The connection fails, while it is opened or later; what was not read is lost.
Fail ==
    /\ Open /\ Spend("drop") /\ Hangup("down")
    /\ UNCHANGED <<plan, crowd, kept, session, sequence, intents, roster, total, publisherVars, historyVars>>

\* A guild arrives with as many of its members as Discord cares to send, and the
\* rest of them is asked for.
GuildArrives ==
    IF intents = "relay" THEN {<<Event("guild", {}, 0)>>}
    ELSE {<<Event("guild", part, Cardinality(crowd))>> \o
            (IF part # crowd /\ part # {} THEN <<Event("chunk", crowd, 0)>> ELSE <<>>) :
                part \in {p \in SUBSET crowd : p = {} => crowd = {}}}

\* wrong: the session Discord refused is kept, and tried again
KeepsSession == UNCHANGED <<session, sequence>>
DropsSession == session' = 0 /\ sequence' = 0

\* After HELLO the client resumes the session it knows.
Resume ==
    /\ phase = "dialled" /\ session # 0 /\ ~mute
    /\ phase' = "opening"
    /\ wire' = IF kept.id = session
               THEN SubSeq(kept.log, sequence + 1, Len(kept.log)) \o <<Plain("resumed")>>
               ELSE <<Plain("invalid")>>
    /\ UNCHANGED <<plan, left, crowd, kept, mute, session, sequence, intents, connected, roster,
                   total, missed, publisherVars, historyVars>>

Granted == plan.grants = "roster" \/ (plan.grants = "relay" /\ intents = "relay")

Identify ==
    /\ phase = "dialled" /\ session = 0 /\ ~mute /\ plan.token /\ Granted
    /\ phase' = "opening" /\ sessions' = sessions + 1
    /\ \E es \in GuildArrives :
        LET log == [i \in 1..(Len(es) + 1) |->
                    IF i = 1 THEN [Event("ready", {}, 0) EXCEPT !.n = 1] ELSE [es[i-1] EXCEPT !.n = i]]
        IN  kept' = [id |-> sessions', log |-> log] /\ wire' = log
    /\ UNCHANGED <<plan, left, crowd, mute, session, sequence, intents, connected, roster, total,
                   missed, publisherVars, told>>

\* dropRosterIntents: the member list is given up once, and a new session asked for.
GivesUpRoster ==
    /\ intents' = "relay" /\ roster' = {} /\ total' = 0 /\ DropsSession /\ Hangup("down")

\* classifyClose: a token or an intent that is refused is refused again.
Rejected ==
    /\ phase = "dialled" /\ session = 0 /\ ~mute /\ ~(plan.token /\ Granted)
    /\ IF plan.token /\ intents = "roster" THEN GivesUpRoster
       ELSE Hangup("stopped") /\ UNCHANGED <<intents, roster, total, session, sequence>>
    /\ UNCHANGED <<plan, left, crowd, kept, publisherVars, historyVars>>

Frame == Head(wire)
\* wrong: the last frame counts as unread
NumberedBefore == sequence' = IF Frame.n = 0 THEN sequence ELSE Frame.n - 1
Numbered == sequence' = IF Frame.n = 0 THEN sequence ELSE Frame.n
Take(op) == Receives /\ wire # <<>> /\ Frame.op = op /\ wire' = Tail(wire)

Established ==
    /\ \/ Take("ready") /\ session' = kept.id /\ Numbered
       \/ Take("resumed") /\ UNCHANGED <<session, sequence>>
    /\ phase' = "up" /\ connected' = TRUE
    /\ UNCHANGED <<plan, left, crowd, kept, mute, intents, roster, total, missed, publisherVars, historyVars>>

ReadMessage ==
    /\ Take("message") /\ Numbered
    /\ told' = Append(told, [session |-> session, n |-> Frame.n])
    /\ UNCHANGED <<plan, left, crowd, kept, mute, phase, session, intents, connected, roster, total,
                   missed, publisherVars, sessions>>

\* wrong: the timer counts as pending until the flush has broadcast
TouchPending == dirty' = TRUE /\ timer' = (timer \/ flush = NoFlush)
\* touch: a flush is due some seconds later, unless one already is.
Touch == dirty' = TRUE /\ timer' = TRUE

\* cacheRoster merges: whoever is not mentioned stays, and the total only grows.
Cached(who, count) == roster' = roster \cup who /\ total' = IF count > total THEN count ELSE total
ReadRoster ==
    /\ \/ /\ Take("guild")
          /\ IF Frame.count > 0 THEN Cached(Frame.who, Frame.count) /\ Touch
             ELSE UNCHANGED <<roster, total, dirty, timer>>
       \/ Take("chunk") /\ Cached(Frame.who, 0) /\ Touch
       \/ Take("add") /\ Cached(Frame.who, total + 1) /\ Touch
       \/ /\ Take("remove") /\ roster' = roster \ Frame.who /\ Touch
          /\ total' = IF total > 0 THEN total - 1 ELSE 0
    /\ Numbered
    /\ UNCHANGED <<plan, left, crowd, kept, mute, phase, session, intents, connected, missed, flush,
                   shown, historyVars>>

ReadReconnect ==
    /\ Receives /\ wire # <<>> /\ Frame.op = "reconnect" /\ Hangup("down")
    /\ UNCHANGED <<plan, left, crowd, kept, session, sequence, intents, roster, total, publisherVars, historyVars>>

ReadInvalid ==
    /\ Receives /\ wire # <<>> /\ Frame.op = "invalid" /\ DropsSession /\ Hangup("down")
    /\ UNCHANGED <<plan, left, crowd, kept, intents, roster, total, publisherVars, historyVars>>

\* heartbeat, from HELLO on: each beat is acknowledged unless the other end is
\* gone, and when too many are missing the socket is closed.
Beat ==
    /\ phase \in {"opening", "up"} /\ mute
    /\ IF missed >= MaxMissed THEN Hangup("down")
       ELSE missed' = missed + 1 /\ UNCHANGED <<phase, wire, mute, connected>>
    /\ UNCHANGED <<plan, left, crowd, kept, session, sequence, intents, roster, total, publisherVars, historyVars>>

\* stop, when the bridge is switched off: the flush that is due is called off.
Cancel ==
    /\ phase \in Phases \ {"stopped", "cancelled"} /\ Spend("cancel") /\ Hangup("cancelled")
    /\ dirty' = FALSE /\ timer' = FALSE
    /\ UNCHANGED <<plan, crowd, kept, session, sequence, intents, roster, total, flush, shown,
                   historyVars>>

\* flush takes the slate under the lock, builds the roster of a client that has
\* not ended, and sends it; a flush ends well before the next is due.
Flush ==
    /\ timer /\ flush = NoFlush /\ timer' = FALSE /\ dirty' = FALSE
    /\ flush' = IF dirty THEN [at |-> "taken", who |-> {}] ELSE NoFlush
    /\ UNCHANGED <<plan, left, discordVars, clientVars, shown, historyVars>>

Build ==
    /\ flush.at = "taken"
    /\ flush' = IF phase \in {"stopped", "cancelled"} THEN NoFlush ELSE [at |-> "built", who |-> roster]
    /\ UNCHANGED <<plan, left, discordVars, clientVars, dirty, timer, shown, historyVars>>

Broadcast ==
    /\ flush.at = "built" /\ shown' = flush.who /\ flush' = NoFlush
    /\ UNCHANGED <<plan, left, discordVars, clientVars, dirty, timer, historyVars>>

Client ==
    \/ Dial \/ Resume \/ Identify \/ Rejected \/ Established \/ ReadMessage \/ ReadRoster
    \/ ReadReconnect \/ ReadInvalid \/ Beat

Next ==
    \/ Client \/ Flush \/ Build \/ Broadcast \/ Fail \/ Cancel
    \/ Move \/ SomebodySpeaks \/ ForgetSession \/ GoMute \/ AskToReconnect

---------------------------------------------------------------------------
(* Properties.                                                              *)

\* Within a session the handlers get every message once and in order, however
\* often the connection is lost and resumed.
EveryMessageOnce ==
    /\ \A i, j \in DOMAIN told : i < j /\ told[i].session = told[j].session => told[i].n < told[j].n
    /\ kept.id = session =>
        \A n \in 1..sequence :
            kept.log[n].op = "message" => \E i \in DOMAIN told : told[i] = [session |-> session, n |-> n]

\* A client with the roster intents that has read everything knows exactly who is
\* in the guild, as long as it never had to open a second session.
RosterFollows ==
    sessions = 1 /\ session = 1 /\ kept.id = 1 /\ intents = "roster"
        /\ sequence = Len(kept.log) =>
            roster = crowd /\ total = Cardinality(crowd)

\* No change of the roster is lost in coalescing: what members were last shown is
\* the roster, or another frame is on its way.
ShownFollows ==
    phase \notin {"stopped", "cancelled"} => 
        shown = roster \/ timer \/ flush.at = "taken" \/ (flush.at = "built" /\ flush.who = roster)

\* Run gives up only when Discord rejects the token or the one intent the bridge
\* cannot do without.
StopsForGood == phase = "stopped" => ~plan.token \/ plan.grants = "none"

\* However a connection fails, the client is up again or has stopped for good:
\* what a socket that stays open and silent is reset for.
Live == phase = "up" /\ ~mute
ComesBack == []<>(Live \/ phase \in {"stopped", "cancelled"})
=============================================================================
