----------------------------- MODULE MCRoleCaches -----------------------------
(***************************************************************************)
(* Plans of RoleCaches for TLC.  One exploration covers several small      *)
(* servers: they differ in who is there, in the stack of roles and in how  *)
(* many requests are handled at once.                                      *)
(***************************************************************************)
EXTENDS RoleCaches, TLC

CONSTANTS o, m, n,          \* an owner, a moderator and one of lower rank
          manage, kick, admin

\* The stack of a small server: everyone, members, two roles of moderators and
\* the administrators.  The lower one may kick, which the upper one may not.
SmallStack ==
    (1 :> [position |-> 0, mask |-> {}]) @@
    (2 :> [position |-> 1, mask |-> {}]) @@
    (3 :> [position |-> 4, mask |-> {admin}]) @@
    (4 :> [position |-> 2, mask |-> {manage, kick}]) @@
    (5 :> [position |-> 3, mask |-> {manage}])

\* The same with one role of moderators.
ShortStack ==
    (1 :> [position |-> 0, mask |-> {}]) @@
    (2 :> [position |-> 1, mask |-> {}]) @@
    (3 :> [position |-> 3, mask |-> {admin}]) @@
    (4 :> [position |-> 2, mask |-> {manage, kick}])

\* An owner and a moderator, and an arrival, whose requests overlap.
Given ==
    [users |-> {o, m, n}, hub |-> {o, m}, table |-> ShortStack, grants |-> {<<m, 4>>},
     owner |-> o, token |-> FALSE, masks |-> {{kick}}, positions |-> {},
     ids |-> 5, requests |-> 3, inFlight |-> 2]

\* An owner, a moderator and an arrival, one request after the other.
Turns ==
    [users |-> {o, m, n}, hub |-> {o, m}, table |-> SmallStack, grants |-> {<<m, 5>>, <<n, 4>>},
     owner |-> o, token |-> TRUE, masks |-> {{}, {kick}}, positions |-> {2, 3},
     ids |-> 6, requests |-> 3, inFlight |-> 1]

\* Two moderators, one request after the other, and no owner.
Mods ==
    [users |-> {m, n}, hub |-> {m, n}, table |-> SmallStack, grants |-> {<<m, 5>>, <<n, 4>>},
     owner |-> NoUser, token |-> FALSE, masks |-> {{kick}, {admin}}, positions |-> {1, 2, 4},
     ids |-> 6, requests |-> 4, inFlight |-> 1]

\* An owner who takes a permission away and a moderator who does not hold it.
Renaming ==
    [users |-> {o, m}, hub |-> {o, m}, table |-> SmallStack, grants |-> {<<m, 5>>},
     owner |-> o, token |-> FALSE, masks |-> {{manage}}, positions |-> {},
     ids |-> 5, requests |-> 2, inFlight |-> 2]

SmallServers == {Given, Turns, Mods}
OneRenaming == {Renaming}
===============================================================================
