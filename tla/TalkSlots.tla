--------------------------------- MODULE TalkSlots ---------------------------------
(***************************************************************************)
(* One set of variables, in which each of several modules that share no    *)
(* state keeps its own under the names it gives them: MCTalk explores      *)
(* every module under its plans, Talk_proofs and MCTalk_proofs prove what  *)
(* they can of those here.                                                 *)
(***************************************************************************)

CONSTANTS
    ReadingPlans, PrivatePlans, PostPlans, HookPlans, PicturePlans, TreePlans, DoorPlans,
    Limit, \* a page of Reading, and the ceiling of Expressions
    Cap, MaxFiles, MaxParts, Burst, Idle, MaxTime, \* Webhooks
    MaxMarks, MaxTries, Keep, MaxDays \* Identities

VARIABLES plan, left, rows, last, req, shown, w1, w2, w3, w4, w5, w6, w7, w8

slots == <<plan, left, rows, last, req, shown, w1, w2, w3, w4, w5, w6, w7, w8>>

Pages == INSTANCE Reading WITH
    Plans <- ReadingPlans, window <- shown, late <- w1, marker <- w2, marks <- w3, walk <- w4
Private == INSTANCE PrivateTalk WITH
    Plans <- PrivatePlans, lines <- rows, people <- w1, threads <- w2, online <- w3
Board == INSTANCE Posts WITH
    Plans <- PostPlans, posts <- rows, rsvps <- w1, views <- w2, sees <- w3, wrote <- w4
Hooks == INSTANCE Webhooks WITH
    Plans <- HookPlans, hooks <- rows, places <- w1, msgs <- w2, disk <- w3, by <- w4, buckets <- w5,
    now <- w6, taken <- w7, sent <- w8
Pictures == INSTANCE Expressions WITH
    Plans <- PicturePlans, disk <- w1, cache <- w2, online <- w3
Tree == INSTANCE ChannelTree WITH
    Plans <- TreePlans, cache <- w1, roles <- w2, grants <- w3, held <- w4, online <- w5, sits <- w6
Door == INSTANCE Identities WITH
    Plans <- DoorPlans, MaxTime <- MaxDays, users <- rows, board <- shown,
    clock <- w1, tokens <- w2, marks <- w3, bans <- w4, matches <- w5, conn <- w6, kept <- w7, sweep <- w8
====================================================================================
