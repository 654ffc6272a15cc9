----------------------------- MODULE MCVoiceSeats -----------------------------
(***************************************************************************)
(* Plans of VoiceSeats for TLC.  One exploration covers several small      *)
(* deployments: they differ in who connects, in the mode and in what else  *)
(* happens.                                                                *)
(***************************************************************************)
EXTENDS VoiceSeats, TLC

CONSTANTS u1, u2, s1, s2, s3, a, b

\* Two people, of whom one may connect twice.
Connections == (s1 :> u1) @@ (s2 :> u2) @@ (s3 :> u1)

\* One channel of a client-hosted deployment: somebody connects again, and an
\* administrator changes the voice settings.
Reconnecting ==
    [sessions |-> {s1, s2, s3}, channels |-> {a}, mode |-> "client_host",
     requests |-> 4, features |-> {"displace", "rework"}]

\* Two people and two channels of a server-hosted deployment, where everybody
\* minds their own audio.
Calm ==
    [sessions |-> {s1, s2}, channels |-> {a, b}, mode |-> "server_host",
     requests |-> 5, features |-> {}]

\* One channel of a server-hosted deployment, where everything else happens.
Upheaval ==
    [sessions |-> {s1, s2}, channels |-> {a}, mode |-> "server_host",
     requests |-> 4, features |-> AllFeatures \ {"displace"}]

\* One person who connects twice.
Alone ==
    [sessions |-> {s1, s3}, channels |-> {a}, mode |-> "server_host",
     requests |-> 4, features |-> {"displace"}]

SmallDeployments == {Reconnecting, Calm, Upheaval}
OnePerson == {Alone}
==============================================================================
