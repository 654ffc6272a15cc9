---------------------------- MODULE MCContentFiles ----------------------------
(***************************************************************************)
(* Plans of ContentFiles for TLC.  One exploration covers several small    *)
(* deployments: they differ in the requests they see, in how many overlap, *)
(* and in what may fail.                                                   *)
(***************************************************************************)
EXTENDS ContentFiles, TLC

CONSTANTS s, t,     \* two threads
          a         \* a person

\* One request after the other, bodies longer than declared, and a crash.
Turns ==
    [keys |-> 3, messages |-> 1, file |-> 2, total |-> 5, overrun |-> 1, posts |-> FALSE,
     calls |-> {"attach", "picture", "icon", "delivery", "send", "delete", "channel", "sweep",
                "clear"},
     failures |-> {}, requests |-> 4, inFlight |-> 1, restarts |-> 1]

\* A text channel and the housekeeper; requests overlap, any of them may crash.
Lines ==
    [keys |-> 2, messages |-> 2, file |-> 1, total |-> 2, overrun |-> 0, posts |-> FALSE,
     calls |-> {"attach", "delivery", "send", "delete", "channel", "purge", "sweep"},
     failures |-> {"store"}, requests |-> 4, inFlight |-> 2, restarts |-> 1]

\* A channel of posts, the same way.
Posting ==
    [keys |-> 2, messages |-> 2, file |-> 1, total |-> 2, overrun |-> 0, posts |-> TRUE,
     calls |-> {"attach", "send", "post", "delete", "deletepost", "channel", "purge", "sweep"},
     failures |-> {"disk", "store"}, requests |-> 4, inFlight |-> 2, restarts |-> 1]

\* Pictures and the icon, the same way.
Portraits ==
    [keys |-> 3, messages |-> 0, file |-> 1, total |-> 3, overrun |-> 0, posts |-> FALSE,
     calls |-> {"picture", "icon", "clear", "purge"},
     failures |-> {"disk", "store"}, requests |-> 4, inFlight |-> 2, restarts |-> 1]

\* A disk that is nearly full, and no crash.
Full ==
    [keys |-> 3, messages |-> 2, file |-> 2, total |-> 3, overrun |-> 0, posts |-> FALSE,
     calls |-> {"attach", "send", "delete", "picture"},
     failures |-> {"disk"}, requests |-> 5, inFlight |-> 2, restarts |-> 0]

\* Everything, and everything may fail, also after it was done.
Faulty ==
    [keys |-> 2, messages |-> 2, file |-> 1, total |-> 2, overrun |-> 0, posts |-> FALSE,
     calls |-> AllCalls, failures |-> Faults, requests |-> 3, inFlight |-> 2, restarts |-> 1]

\* A send and the housekeeper.
Swept ==
    [keys |-> 1, messages |-> 1, file |-> 1, total |-> 1, overrun |-> 0, posts |-> FALSE,
     calls |-> {"attach", "send", "delete", "sweep"},
     failures |-> {}, requests |-> 3, inFlight |-> 2, restarts |-> 0]

Deployments == {Turns, Lines, Posting, Portraits, Full, Faulty}
OneSweep == {Swept}

\* Threads are alike, and so are two states that exchange them.
Alike == Permutations({s, t})
===============================================================================
