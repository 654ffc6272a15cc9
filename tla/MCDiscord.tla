------------------------------ MODULE MCDiscord ------------------------------
(***************************************************************************)
(* Instances of DiscordBridge and DiscordClient for TLC, explored side by  *)
(* side: a behaviour is one of the bridge between the two servers, or one  *)
(* of the client that holds the connection to Discord, under a plan that   *)
(* says what may happen in it.                                             *)
(***************************************************************************)
EXTENDS DiscordBridge

CONSTANTS
    Scenes,       \* the plans to explore, by name
    ClientPlans, People, MaxMissed, Frozen

VARIABLES
    scene,        \* fixed for a behaviour: "bridge" or "client"
    crowd, kept, wire, mute, phase, session, sequence, intents, connected, roster, total, missed,
    dirty, timer, flush, shown, told, sessions

lineVars == <<crowd, kept, wire, mute, phase, session, sequence, intents, connected, roster, total, missed,
                dirty, timer, flush, shown, told, sessions>>
bridgeVars == <<enabled, file, rows, lastLink, senders, cached, pairs, queueOf, queues, client, cancel, running,
                lastClient, feeds, here, there, hand, removed>>

Line == INSTANCE DiscordClient WITH Plans <- ClientPlans

\* What the client is granted; the guild is finite.
ASSUME ClientFits ==
    /\ IsFiniteSet(People) /\ MaxMissed \in Nat
    /\ \A p \in ClientPlans : p.grants \in {"roster", "relay", "none"} /\ p.token \in BOOLEAN

\* What the bridge is set up with: its members, administrators and clients, the
\* channel of its link, webhooks, and at most one link in the file.
ASSUME BridgeFits ==
    \A p \in Plans :
        /\ {p.members, p.admins} \subseteq Nat /\ p.clients \in Nat \ {0} /\ p.depth \in Nat
        /\ p.chan \in {"text", "media"} /\ p.change \in {"narrow", "rehook", "repoint"}
        /\ p.hooks \subseteq DOMAIN PlaceOf /\ p.file \subseteq [chan : {"text", "media"}, hook : DOMAIN PlaceOf]
        /\ \A f, g \in p.file : f = g

---------------------------------------------------------------------------
(* What may happen on the bridge.                                           *)

None == [write |-> 0, edit |-> 0, delete |-> 0, say |-> 0, amend |-> 0, withdraw |-> 0,
         refuse |-> 0, late |-> 0, screen |-> 0, sweep |-> 0, change |-> 0, guild |-> 0,
         create |-> 0, unlink |-> 0, configure |-> 0, fatal |-> 0, reboot |-> 0, drop |-> 0]

Plan(name) ==
    [name |-> name, left |-> None, members |-> 1, admins |-> 0, clients |-> 1, chan |-> "text",
     hooks |-> {"p1"}, file |-> {}, change |-> "narrow", depth |-> 4, moderates |-> FALSE,
     single |-> TRUE, calm |-> FALSE]

\* One member and Discord talk, and nothing else happens.
Talk == [Plan("talk") EXCEPT !.calm = TRUE, !.depth = 8,
    !.left = [None EXCEPT !.write = 1, !.edit = 1, !.delete = 1, !.say = 1, !.amend = 1,
                          !.withdraw = 1]]

\* A media channel, and moderators on both sides.
Posts == [Plan("posts") EXCEPT !.chan = "media", !.moderates = TRUE, !.members = 2,
    !.left = [None EXCEPT !.write = 1, !.edit = 1, !.delete = 1, !.say = 1, !.withdraw = 1,
                          !.screen = 1]]

\* Links are narrowed, removed and made again while messages cross.
Links == [Plan("links") EXCEPT !.admins = 2, !.hooks = {"p1", "q1"},
    !.left = [None EXCEPT !.write = 1, !.change = 1, !.create = 1, !.unlink = 1]]

\* Other channels are linked, and the relay's own webhook is removed.
Repoints == [Plan("repoints") EXCEPT !.admins = 1, !.change = "repoint",
    !.left = [None EXCEPT !.write = 1, !.say = 2, !.change = 1]]
Dropped == [Plan("dropped") EXCEPT !.admins = 1,
    !.left = [None EXCEPT !.say = 3, !.drop = 1, !.screen = 1]]

Guilds == [Plan("guilds") EXCEPT !.admins = 1,
    !.left = [None EXCEPT !.write = 1, !.say = 1, !.guild = 1, !.unlink = 1, !.change = 1]]

\* The bridge is switched off and on, and Discord may refuse the token.
Restarts == [Plan("restarts") EXCEPT !.admins = 1, !.clients = 3,
    !.left = [None EXCEPT !.write = 1, !.say = 1, !.configure = 2, !.fatal = 1]]

\* The server is killed and comes back with a link of the file, and housekeeping runs.
Reboots == [Plan("reboots") EXCEPT !.clients = 2, !.file = {[chan |-> "text", hook |-> "p2"]},
    !.left = [None EXCEPT !.write = 1, !.delete = 1, !.say = 1, !.amend = 1, !.reboot = 1,
                          !.sweep = 1]]

\* A queue that holds little, and two members who write.
Full == [Plan("full") EXCEPT !.members = 2, !.depth = 1,
    !.left = [None EXCEPT !.write = 3, !.edit = 1]]

\* Discord refuses, and answers errors for what it has stored.
Errors == [Plan("errors") EXCEPT !.single = FALSE,
    !.left = [None EXCEPT !.write = 1, !.edit = 1, !.delete = 1, !.refuse = 2, !.late = 1]]

\* The webhook of a link is replaced.
Rehooked == [Plan("rehooked") EXCEPT !.admins = 1, !.change = "rehook",
    !.left = [None EXCEPT !.write = 1, !.change = 1]]

\* A link of the file is removed, and the server restarts.
Removed == [Plan("removed") EXCEPT !.admins = 1, !.clients = 2,
    !.file = {[chan |-> "text", hook |-> "p1"]},
    !.left = [None EXCEPT !.write = 1, !.say = 1, !.unlink = 1, !.reboot = 1]]

TheBridgePlans ==
    {p \in {Talk, Posts, Links, Repoints, Dropped, Guilds, Restarts, Reboots, Full, Errors, Rehooked, Removed} :
        p.name \in Scenes}

---------------------------------------------------------------------------
(* What may happen to the client.                                           *)

Serene == [move |-> 0, say |-> 0, forget |-> 0, mute |-> 0, drop |-> 0, cancel |-> 0]
Connection(name) == [name |-> name, grants |-> "roster", silent |-> FALSE, token |-> TRUE, left |-> Serene]

\* The connection is lost, falls silent, or Discord forgets the session.
Losses ==
    {[Connection("losses") EXCEPT !.left = [Serene EXCEPT !.move = 1, !.say = 1, !.forget = 1, !.drop = 1, !.mute = 1]],
     [Connection("losses") EXCEPT !.left = [Serene EXCEPT !.move = 2, !.say = 1, !.drop = 1]]}
\* Discord refuses the token or an intent, or the bridge is switched off.
Ends ==
    {[Connection("ends") EXCEPT !.grants = g, !.token = t,
        !.left = [Serene EXCEPT !.say = 1, !.drop = 1, !.cancel = 1, !.forget = 1]] :
        g \in {"roster", "relay", "none"}, t \in BOOLEAN}
\* The other end accepts the socket and never says HELLO; not part of a run that passes.
Silent == [Connection("silent") EXCEPT !.silent = TRUE, !.left = [Serene EXCEPT !.mute = 1, !.drop = 1]]

TheClientPlans == {p \in {Silent} \cup Losses \cup Ends : p.name \in Scenes}

---------------------------------------------------------------------------

SceneInit ==
    \/ /\ scene = "bridge" /\ Init
       /\ crowd = Frozen /\ kept = Frozen /\ wire = Frozen /\ mute = Frozen /\ phase = Frozen /\ session = Frozen
       /\ sequence = Frozen /\ intents = Frozen /\ connected = Frozen /\ roster = Frozen /\ total = Frozen
       /\ missed = Frozen /\ dirty = Frozen /\ timer = Frozen /\ flush = Frozen /\ shown = Frozen
       /\ told = Frozen /\ sessions = Frozen
    \/ /\ scene = "client" /\ Line!Init
       /\ enabled = Frozen /\ file = Frozen /\ rows = Frozen /\ lastLink = Frozen /\ senders = Frozen
       /\ cached = Frozen /\ pairs = Frozen /\ queueOf = Frozen /\ queues = Frozen /\ client = Frozen
       /\ cancel = Frozen /\ running = Frozen /\ lastClient = Frozen /\ feeds = Frozen /\ here = Frozen
       /\ there = Frozen /\ hand = Frozen /\ removed = Frozen

SceneNext ==
    \/ scene = "bridge" /\ Next /\ UNCHANGED <<scene, lineVars>>
    \/ scene = "client" /\ Line!Next /\ UNCHANGED <<scene, bridgeVars>>

\* The client's goroutines run on: what they can do, they do.
Spec ==
    /\ SceneInit /\ [][SceneNext]_<<scene, vars, lineVars>>
    /\ WF_<<scene, vars, lineVars>>(scene = "client" /\ Line!Client /\ UNCHANGED <<scene, bridgeVars>>)

---------------------------------------------------------------------------

\* In either scene each variable has its type.
EveryTypeOK ==
    /\ scene = "bridge" => TypeOK
    /\ scene = "client" => Line!TypeOK

\* No message is carried back to the side it came from.
EchoesEnd == scene = "bridge" => NothingComesBack

\* A message has one copy on the other side, and once all is delivered both read alike.
CopiesAgree == scene = "bridge" => OneCopyEach /\ SidesAgree

\* Within a session every message reaches the bridge once and in order.
MessagesOnce == scene = "client" => Line!EveryMessageOnce

\* The roster follows the guild, and what members are shown follows the roster.
RosterShown == scene = "client" => Line!RosterFollows /\ Line!ShownFollows

\* The client gives up for a refused token or a refused intent and for nothing else:
\* from whatever else ends a connection it comes back, again and again.
ComesBack ==
    /\ [](scene = "client" => Line!StopsForGood)
    /\ []<>(scene = "client" => Line!Live \/ phase \in {"stopped", "cancelled"})
================================================================================
