-------------------------------- MODULE MCRelay --------------------------------
(***************************************************************************)
(* Instances of RelayRooms and RelayMedia for TLC, explored side by side:  *)
(* a behaviour is one of the rooms or one of the media of a single room.   *)
(***************************************************************************)
EXTENDS RelayRooms, TLC

CONSTANTS Purposes, MaxJoins, MaxRequests,    \* of RelayMedia
          Scenes            \* the scenes to explore, of {"rooms", "media"}

ASSUME BoundsAssumption == MaxJoins \in Nat /\ MaxRequests \in Nat

VARIABLES
    scene,                  \* fixed for a behaviour
    members, signalling, arrived, armed, sinks, slots, subs, watching, streaming,
    negotiating, pending, timer, described, evicting, work, offerer, reader, joins, requests

mediaOfRoom == <<members, signalling, arrived, armed, sinks, slots, subs, watching, streaming,
    negotiating, pending, timer, described, evicting, work, offerer, reader, joins, requests>>

Media == INSTANCE RelayMedia WITH peers <- members

SceneInit ==
    \/ /\ scene = "rooms" /\ scene \in Scenes
       /\ Init
       /\ members = None /\ signalling = None /\ arrived = None /\ armed = None
       /\ sinks = None /\ slots = None /\ subs = None /\ watching = None
       /\ streaming = None /\ negotiating = None /\ pending = None /\ timer = None
       /\ described = None /\ evicting = None /\ work = None /\ offerer = None
       /\ reader = None /\ joins = None /\ requests = None
    \/ /\ scene = "media" /\ scene \in Scenes
       /\ Media!Init
       /\ rooms = None /\ peers = None /\ open = None /\ made = None /\ settings = None
       /\ closed = None /\ pc = None /\ op = None /\ goal = None /\ room = None
       /\ rest = None /\ uprooted = None /\ doubled = None /\ spoilt = None

SceneNext ==
    \/ scene = "rooms" /\ Next /\ UNCHANGED <<scene, mediaOfRoom>>
    \/ scene = "media" /\ Media!Next /\ UNCHANGED <<scene, vars>>

SceneSpec == SceneInit /\ [][SceneNext]_<<scene, vars, mediaOfRoom>>

Symmetry == Permutations(Users) \cup Permutations(Joins) \cup Permutations(Channels)

\* In either scene each variable has its type.
EveryTypeOK ==
    /\ scene = "rooms" => TypeOK
    /\ scene = "media" => Media!TypeOK

\* There are two ways for a peer to be orphaned in the map of rooms, and no third.
RoomsOrphansExplained == scene = "rooms" => OrphansExplained

\* Nobody is carried across a reconfiguration of the relay, and the map of rooms
\* does not grow with every channel ever used.
RoomsKeepNothingOld == scene = "rooms" => RoomsAreCurrent /\ NoEmptyRooms

\* Everybody in a room is sent exactly what they are entitled to, no change of it is
\* lost between edits and answers, and no peer waits for ever for a client that does
\* not answer.
MediaInStep == scene = "media" => Media!EntitledExactly /\ Media!NothingUntold /\ Media!OffersHaveClocks
================================================================================
