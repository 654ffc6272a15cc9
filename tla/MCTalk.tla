--------------------------------- MODULE MCTalk ---------------------------------
(***************************************************************************)
(* What members do with the server over its socket and its HTTP handlers,  *)
(* for TLC: one exploration of eight modules that share no state.  A       *)
(* behaviour is of one of them, under one of its plans.  Their variables   *)
(* are kept in one set of slots, which every module reads under the names  *)
(* it gives them; TalkSlots has the slots, and those of the modules that   *)
(* the proofs are about.                                                   *)
(***************************************************************************)
EXTENDS TalkSlots, Naturals, Sequences, FiniteSets

CONSTANTS
    Scenes,                    \* the plans to explore, by name
    ScreeningPlans,
    MaxRecent, RecentWindow,   \* Screening
    None

VARIABLE scene \* fixed for a behaviour: whose it is

Screen == INSTANCE Screening WITH
    Plans <- ScreeningPlans, stored <- rows, saving <- req, kept <- shown,
    rules <- w1, now <- w2, recent <- w3, log <- w4

Of(plans) == {p \in plans : p.name \in Scenes}

---------------------------------------------------------------------------
(* Screening: pace and repetition, texts, administrators.                   *)

NoRow == [row |-> "none"]
SomeRules == {"flood", "repetition", "mentions", "caps", "links", "words"}
Screens(name) ==
    [name |-> name, stored |-> {NoRow}, admins |-> {}, turns |-> TRUE, edits |-> {},
     left |-> [save |-> 0, restart |-> 0, send |-> 0, edit |-> 0, relayed |-> 0, tick |-> 0, reconnect |-> 0],
     roles |-> {"guest", "staff"}, channels |-> {1}, texts |-> {}, steady |-> TRUE,
     who |-> [admin |-> FALSE, roles |-> {"guest"}]]

\* What the settings send with every rule off but those named.
On(acts) ==
    [row |-> "rules", on |-> TRUE, exempt |-> {}, spared |-> {}, words |-> {}, whole |-> TRUE, domains |-> {},
     act |-> [r \in SomeRules |-> IF r \in DOMAIN acts THEN acts[r] ELSE "off"], lift |-> [r \in SomeRules |-> {}],
     messages |-> 5, seconds |-> 5, times |-> 3, limit |-> 5, percent |-> 70, length |-> 12]

Paced == [On([flood |-> "block", repetition |-> "block"]) EXCEPT !.messages = 2, !.seconds = 2, !.times = 2, !.spared = {2}]
ScreenPace ==
    {[Screens("pace") EXCEPT !.stored = {Paced}, !.texts = {<<"a">>, <<"A">>, <<"s">>},
        !.left["send"] = 4, !.left["tick"] = 1, !.left["reconnect"] = 1],
     [Screens("pace") EXCEPT !.stored = {[Paced EXCEPT !.lift = [@ EXCEPT !["repetition"] = {"guest"}]]},
        !.channels = {1, 2}, !.texts = {<<"a">>},
        !.left["send"] = 5, !.left["tick"] = 3, !.left["reconnect"] = 1]}

Alphabet == {"A", "a", "ae", " ", "evil.example", "gist.github.com", "@"}
Wordy(whole) ==
    {[On([links |-> l, words |-> w, mentions |-> "censor", caps |-> c]) EXCEPT
        !.words = {<<"a">>, <<"e", "A">>}, !.whole = whole, !.limit = 1, !.length = 2, !.domains = {"github.com"}] :
        l, w \in {"off", "censor", "block"}, c \in {"off", "block"}}
ScreenTexts ==
    {[Screens("texts") EXCEPT !.stored = Wordy(TRUE), !.who.admin = admin, !.left[how] = 1,
        !.texts = UNION {[1..n -> Alphabet] : n \in 0..3}] :
        admin \in BOOLEAN, how \in {"send", "edit", "relayed"}}
\* Two words that overlap; not part of a run that passes.
ScreenParts ==
    [Screens("parts") EXCEPT !.stored = Wordy(FALSE), !.texts = UNION {[1..n -> {"a", "ae"}] : n \in 0..2},
        !.left["send"] = 2]

ScreenAdmins ==
    [Screens("admins") EXCEPT !.stored = {NoRow, [row |-> "unreadable"]}, !.admins = {"x", "y"}, !.steady = FALSE,
        !.edits = {[On([words |-> "censor", flood |-> "censor"]) EXCEPT !.exempt = {"staff", "gone"}, !.messages = 99,
                        !.words = {<<"s">>}],
                   [On([links |-> "block"]) EXCEPT !.spared = {1, 7}, !.seconds = 0]},
        !.texts = {<<"s">>, <<"evil.example">>},
        !.left["save"] = 3, !.left["restart"] = 1, !.left["send"] = 1, !.left["edit"] = 1]

TheScreeningPlans == Of({ScreenParts, ScreenAdmins} \cup ScreenTexts \cup ScreenPace)

---------------------------------------------------------------------------
(* Reading: a channel, a thread, the posts of a channel, badges, a search.  *)

Line(t) == [thread |-> t, own |-> FALSE, body |-> FALSE, pinned |-> FALSE, hit |-> 0]
Reads(name) ==
    [name |-> name, kind |-> "lines", thread |-> "t", ways |-> {}, rows |-> <<>>, lines |-> {},
     left |-> [ask |-> 0, write |-> 0, remove |-> 0, mark |-> 0, search |-> 0],
     clients |-> {}, epoch |-> 0, sort |-> "none", visible |-> {"t"}]
Five == [i \in 1..5 |-> Line(IF i = 2 THEN "u" ELSE "t")]

ReadLines ==
    [Reads("lines") EXCEPT !.ways = {"open", "back", "forth", "jump"}, !.rows = Five, !.lines = {Line("t")},
        !.left["ask"] = 3, !.left["write"] = 1, !.left["remove"] = 1]
ReadThreads ==
    {[Reads("threads") EXCEPT !.kind = k, !.ways = {"open", "back"}, !.lines = {Line("t")},
        !.rows = [Five EXCEPT ![1].body = k = "comments", ![1].pinned = k = "posts", ![4].pinned = k = "posts"],
        !.left["ask"] = 3, !.left["write"] = 1, !.left["remove"] = 1] : k \in {"comments", "posts"}}
ReadBadges ==
    [Reads("badges") EXCEPT !.rows = Five, !.lines = {Line("t"), [Line("t") EXCEPT !.own = TRUE]},
        !.clients = {"x", "y"}, !.epoch = 1, !.left["mark"] = 3, !.left["write"] = 2, !.left["remove"] = 1]
Matching == [i \in 1..5 |-> [Line(IF i = 2 THEN "u" ELSE "t") EXCEPT !.hit = IF i < 4 THEN 1 ELSE 2]]
ReadSearch ==
    {[Reads("search") EXCEPT !.rows = Matching, !.lines = {[Line("t") EXCEPT !.hit = 1]}, !.sort = s,
        !.left["search"] = 1, !.left["write"] = 2, !.left["remove"] = r] :
        s \in {"oldest", "newest", "relevance"}, r \in 0..1}

TheReadingPlans == Of({ReadLines, ReadBadges} \cup ReadThreads \cup ReadSearch)

---------------------------------------------------------------------------
(* PrivateTalk: two who write, and three who may not all.                   *)

Anyone == [privacy |-> "everyone", registered |-> TRUE, may |-> TRUE]
Privately(name) ==
    [name |-> name, people |-> [p \in {"ann", "ben"} |-> Anyone],
     left |-> [connect |-> 0, disconnect |-> 0, privacy |-> 0, send |-> 0, edit |-> 0, delete |-> 0, mark |-> 0]]
PrivateTwo ==
    [Privately("private") EXCEPT !.left = [@ EXCEPT !["send"] = 2, !["edit"] = 1, !["delete"] = 1, !["mark"] = 1,
                                                    !["connect"] = 1, !["disconnect"] = 1]]
PrivateThree ==
    [Privately("consent") EXCEPT !.left = [@ EXCEPT !["send"] = 2, !["privacy"] = 1, !["edit"] = 1],
        !.people = [p \in {"ann", "ben", "guest"} |-> [Anyone EXCEPT !.registered = p # "guest", !.may = p # "ben"]]]

ThePrivatePlans == Of({PrivateTwo, PrivateThree})

---------------------------------------------------------------------------
(* Posts: a calendar, two channels, rules for titles.                       *)

Entry(by, event) ==
    [channel |-> "c", by |-> by, title |-> [by |-> by, no |-> 0, rude |-> FALSE], event |-> event,
     locked |-> FALSE, pinned |-> FALSE]
Posting(name) ==
    [name |-> name, left |-> [create |-> 0, update |-> 0, delete |-> 0, rsvp |-> 0, view |-> 0, hide |-> 0],
     sees |-> [p \in {"ann", "mod"} |-> {"c"}], moderators |-> {"mod"}, posters |-> {"ann"}, calendars |-> {"c"},
     rude |-> {FALSE}, rule |-> "off", events |-> {1}, fields |-> {"title", "event", "locked", "pinned"},
     posts |-> <<Entry("ann", 1)>>, files |-> FALSE, epoch |-> [p \in {"ann", "mod"} |-> 0]]
PostEvents ==
    [Posting("events") EXCEPT !.fields = {"title", "locked"},
        !.left = [@ EXCEPT !["update"] = 2, !["rsvp"] = 1, !["delete"] = 1, !["hide"] = 1]]
PostPlaces ==
    [Posting("places") EXCEPT !.sees = [ann |-> {"c", "d"}, mod |-> {"c"}], !.files = TRUE, !.events = {0, 1, 2},
        !.epoch = [ann |-> 0, mod |-> 1], !.posts = <<Entry("ann", 1), [Entry("ann", 0) EXCEPT !.channel = "d"]>>,
        !.left = [@ EXCEPT !["create"] = 1, !["view"] = 1, !["hide"] = 1, !["delete"] = 1]]
PostRules ==
    {[Posting("rules") EXCEPT !.rude = BOOLEAN, !.rule = r, !.left["create"] = 2, !.posters = {"ann", "mod"}] :
        r \in {"off", "block", "censor"}}
\* Titles that are changed; not part of a run that passes.
PostTitles ==
    {[Posting("titles") EXCEPT !.rude = BOOLEAN, !.rule = r, !.left["create"] = 1, !.left["update"] = 1] :
        r \in {"block", "censor"}}

ThePostPlans == Of({PostEvents, PostPlaces} \cup PostRules \cup PostTitles)

---------------------------------------------------------------------------
(* Webhooks: their pace, their managers, deliveries with files, edits.      *)

Words(text, embeds) == [kind |-> "words", text |-> text, embeds |-> embeds]
File == [kind |-> "file"]
Other == [kind |-> "other"]
Broken == [kind |-> "broken"]
Posted(hook, embeds) == [hook |-> hook, channel |-> "c", text |-> "w", embeds |-> embeds, files |-> {}]
Calls(name) ==
    [name |-> name, callers |-> {"ann", "bot"}, places |-> {"c", "d"}, rights |-> [ann |-> {"c", "d"}, bot |-> {}],
     left |-> [mint |-> 0, change |-> 0, revoke |-> 0, deliver |-> 0, sweep |-> 0, edit |-> 0, delete |-> 0, drop |-> 0],
     hooks |-> <<[channel |-> "c", name |-> "h"]>>, msgs |-> <<>>, bodies |-> {<<Words("w", "none")>>}, patches |-> {},
     clock |-> FALSE, faults |-> FALSE]
HookPace ==
    [Calls("hookpace") EXCEPT !.clock = TRUE, !.bodies = {<<Broken>>}, !.left["deliver"] = 4, !.left["sweep"] = 1]
HookManage ==
    [Calls("manage") EXCEPT !.left = [@ EXCEPT !["mint"] = 1, !["change"] = 2, !["revoke"] = 1, !["drop"] = 1, !["deliver"] = 1]]
HookFiles ==
    [Calls("files") EXCEPT !.faults = TRUE, !.left["deliver"] = 2, !.left["delete"] = 1, !.left["drop"] = 1,
        !.bodies = {<<Words("w", "none"), File>>, <<File, Other, Words("long", "none")>>, <<File, File, File>>,
                    <<Words("", "none")>>, <<File>>, <<Words("", "some"), File, Broken>>, <<File, Other, Other, Other>>}]
HookEdits ==
    [Calls("edits") EXCEPT !.left["edit"] = 2, !.left["delete"] = 1,
        !.hooks = <<[channel |-> "c", name |-> "h"], [channel |-> "c", name |-> "k"]>>,
        !.msgs = <<Posted(1, "some"), Posted(2, "none")>>,
        !.patches = {[text |-> t, embeds |-> e] : t \in {"keep", "", "v"}, e \in {"keep", "none"}}]
\* Two who mint at once; not part of a run that passes.
HookCap == [Calls("cap") EXCEPT !.left["mint"] = 2, !.rights = [ann |-> {"c"}, bot |-> {"c"}]]

TheHookPlans == Of({HookPace, HookManage, HookFiles, HookEdits, HookCap})

---------------------------------------------------------------------------
(* Expressions: emoji one at a time, files that fail, a sound board.        *)

Held(kind, name, key) == [kind |-> kind, name |-> name, volume |-> 100, key |-> key]
Drawn(name) ==
    [name |-> name, people |-> {"ann", "ben"}, managers |-> {"ann", "ben"}, turns |-> FALSE, faults |-> FALSE,
     left |-> [upload |-> 0, change |-> 0, delete |-> 0, enter |-> 0],
     kinds |-> {"emoji"}, names |-> {"x", "y"}, volumes |-> {100}, rows |-> <<Held("emoji", "x", 1)>>,
     online |-> [p \in {"ann", "ben"} |-> "on"]]
PictureTurns ==
    [Drawn("emoji") EXCEPT !.turns = TRUE, !.kinds = {"emoji", "sticker"}, !.online["ben"] = "off",
        !.left = [upload |-> 1, change |-> 1, delete |-> 1, enter |-> 1]]
PictureFiles ==
    [Drawn("pictures") EXCEPT !.faults = TRUE, !.kinds = {"emoji", "sound"}, !.names = {"x"},
        !.left["upload"] = 2, !.left["change"] = 1, !.left["delete"] = 1]
SoundBoard ==
    [Drawn("sounds") EXCEPT !.turns = TRUE, !.rows = <<Held("sound", "x", 1)>>, !.online["ben"] = "off",
        !.kinds = {"sound"}, !.names = {"x"}, !.volumes = {50, 100},
        !.left = [upload |-> 1, change |-> 1, delete |-> 1, enter |-> 1]]
\* Two who upload at once; not part of a run that passes.
PictureRace == [Drawn("race") EXCEPT !.left["upload"] = 2, !.rows = <<>>]

ThePicturePlans == Of({PictureTurns, PictureFiles, SoundBoard, PictureRace})

---------------------------------------------------------------------------
(* Identities: the owner is 1, moderators come next, the last is a member.  *)

Place(ip, device) == [ip |-> ip, device |-> device]
Row(account) == [account |-> account, seen |-> 0]
Enters(name) ==
    [name |-> name, owner |-> 1, rank |-> <<2, 1>>, turns |-> FALSE,
     left |-> [enter |-> 0, leave |-> 0, register |-> 0, logout |-> 0, ban |-> 0, kick |-> 0, lift |-> 0, list |-> 0],
     users |-> <<Row(TRUE), Row(TRUE), Row(TRUE)>>, marks |-> {},
     place |-> [mod |-> Place("home", "m"), pc |-> Place("home", "p"), phone |-> Place("street", "p")],
     in |-> [mod |-> 2, pc |-> 3, phone |-> 0], kept |-> [mod |-> 2, pc |-> 3, phone |-> 0],
     knows |-> [mod |-> {}, pc |-> {}, phone |-> {3}], kinds |-> {{"ip", "device"}}, days |-> {0}]
DoorBans == [Enters("bans") EXCEPT !.left["enter"] = 2, !.left["ban"] = 1, !.left["leave"] = 1]
DoorKicks ==
    [Enters("kicks") EXCEPT !.left = [@ EXCEPT !["enter"] = 2, !["kick"] = 1, !["logout"] = 1, !["register"] = 1]]
DoorDays ==
    [Enters("days") EXCEPT !.days = {0, 1}, !.kinds = {{}, {"ip"}},
        !.left["enter"] = 1, !.left["ban"] = 1, !.left["leave"] = 1,
        !.marks = {[user |-> 3, place |-> Place("home", "p"), seen |-> 0],
                   [user |-> 3, place |-> Place("cafe", "none"), seen |-> 0]}]
\* The owner is there, behind the address of the one who is banned.
DoorStaff ==
    [Enters("staff") EXCEPT !.left["ban"] = 2, !.left["lift"] = 1, !.left["enter"] = 1,
        !.place = [mod |-> Place("home", "m"), own |-> Place("home", "o"), pc |-> Place("home", "p"), phone |-> Place("street", "p")],
        !.in = [mod |-> 2, own |-> 1, pc |-> 3, phone |-> 0], !.kept = [mod |-> 2, own |-> 1, pc |-> 3, phone |-> 0],
        !.knows = [mod |-> {}, own |-> {}, pc |-> {}, phone |-> {}]]
DoorTurns ==
    [DoorStaff EXCEPT !.name = "turns", !.turns = TRUE,
        !.left = [@ EXCEPT !["enter"] = 0, !["list"] = 1, !["kick"] = 1]]

TheDoorPlans == Of({DoorBans, DoorKicks, DoorDays, DoorStaff, DoorTurns})

---------------------------------------------------------------------------
(* ChannelTree: an open channel, and a category with one that only staff    *)
(* see.                                                                     *)

Over(allow, deny) == [allow |-> allow, deny |-> deny]
Hidden == [everyone |-> Over({}, {"view"}), staff |-> Over({"view"}, {})]
Channel(parent, kind, over) == [parent |-> parent, kind |-> kind, name |-> "old", over |-> over]
Grows(name) ==
    [name |-> name, people |-> {"mod", "ann"}, turns |-> TRUE, kinds |-> {"voice"},
     masks |-> [everyone |-> {"view", "connect"}, staff |-> {"channels", "roles"}, quiet |-> {}],
     grants |-> [mod |-> {"staff"}, ann |-> {}], online |-> [mod |-> "on", ann |-> "on"],
     left |-> [create |-> 0, update |-> 0, delete |-> 0, grant |-> 0, drop |-> 0, enter |-> 0, sit |-> 0],
     rows |-> <<Channel(0, "category", Hidden), Channel(1, "voice", <<>>), Channel(0, "voice", <<>>)>>,
     changes |-> {[name |-> "new"], [parent |-> 0], [parent |-> 1], [over |-> <<>>], [over |-> Hidden]}]
TreeTurns ==
    {[Grows("tree") EXCEPT !.left = [@ EXCEPT !["create"] = 1, !["update"] = 2, !["delete"] = 1, !["sit"] = 1],
        !.kinds = {"category", "voice"}],
     [Grows("tree") EXCEPT !.left = [@ EXCEPT !["update"] = 1, !["grant"] = 2, !["drop"] = 1, !["enter"] = 1, !["sit"] = 1],
        !.online["ann"] = "off",
        !.changes = {[over |-> [everyone |-> Over({}, {"connect"}), quiet |-> Over({"connect"}, {})]]}]}
TreeCrowd ==
    {[Grows("crowd") EXCEPT !.turns = FALSE, !.grants["ann"] = {"staff"}, !.left["update"] = 3,
        !.rows = <<Channel(0, "category", Hidden), Channel(0, "voice", <<>>)>>,
        !.changes = {[name |-> "new"], [parent |-> 1], [over |-> Hidden]}],
     [Grows("crowd") EXCEPT !.turns = FALSE, !.grants["ann"] = {"staff"},
        !.left = [@ EXCEPT !["update"] = 1, !["create"] = 1, !["delete"] = 1], !.changes = {[parent |-> 1]},
        !.kinds = {"category", "voice"}]}

TheTreePlans == Of(TreeCrowd \cup TreeTurns)

\* What the proofs assume of the plans.
ASSUME TreePlansFit == Tree!PlansFit
ASSUME ReadingPlansFit == Pages!PlansFit
ASSUME PostPlansFit == Board!PlansFit
ASSUME PicturePlansFit == Pictures!PlansFit
ASSUME HookPlansFit == Hooks!PlansFit
ASSUME DoorPlansFit == Door!PlansFit

---------------------------------------------------------------------------

SceneInit ==
    \/ scene = "screening" /\ Screen!Init /\ last = None /\ w5 = None /\ w6 = None /\ w7 = None /\ w8 = None
    \/ scene = "reading" /\ Pages!Init /\ w5 = None /\ w6 = None /\ w7 = None /\ w8 = None
    \/ scene = "private" /\ Private!Init /\ w4 = None /\ w5 = None /\ w6 = None /\ w7 = None /\ w8 = None
    \/ scene = "posts" /\ Board!Init /\ w5 = None /\ w6 = None /\ w7 = None /\ w8 = None
    \/ scene = "webhooks" /\ Hooks!Init
    \/ scene = "expressions" /\ Pictures!Init /\ w4 = None /\ w5 = None /\ w6 = None /\ w7 = None /\ w8 = None
    \/ scene = "identities" /\ Door!Init
    \/ scene = "channels" /\ Tree!Init /\ w7 = None /\ w8 = None

SceneNext ==
    /\ UNCHANGED scene
    /\ \/ scene = "screening" /\ Screen!Next /\ UNCHANGED <<last, w5, w6, w7, w8>>
       \/ scene = "reading" /\ Pages!Next /\ UNCHANGED <<w5, w6, w7, w8>>
       \/ scene = "private" /\ Private!Next /\ UNCHANGED <<w4, w5, w6, w7, w8>>
       \/ scene = "posts" /\ Board!Next /\ UNCHANGED <<w5, w6, w7, w8>>
       \/ scene = "webhooks" /\ Hooks!Next
       \/ scene = "expressions" /\ Pictures!Next /\ UNCHANGED <<w4, w5, w6, w7, w8>>
       \/ scene = "identities" /\ Door!Next
       \/ scene = "channels" /\ Tree!Next /\ UNCHANGED <<w7, w8>>

Spec == SceneInit /\ [][SceneNext]_<<scene, slots>>

---------------------------------------------------------------------------

\* In every scene each variable has its type, and rows refer to rows that are there.
EveryTypeOK ==
    /\ scene = "screening" => Screen!TypeOK
    /\ scene = "reading" => Pages!TypeOK
    /\ scene = "private" => Private!TypeOK
    /\ scene = "posts" => Board!TypeOK
    /\ scene = "webhooks" => Hooks!TypeOK
    /\ scene = "expressions" => Pictures!TypeOK
    /\ scene = "identities" => Door!TypeOK
    /\ scene = "channels" => Tree!TypeOK

\* What is stored under the rules holds nothing they ban, nobody writes faster or
\* more of the same than they allow, and the rules in force are those on disk.
RulesHold == scene = "screening" => Screen!NothingBannedKept /\ Screen!PaceHeld /\ Screen!InForceIsStored

\* Whatever is written and deleted meanwhile, the pages a client has put together
\* leave nothing out, and neither does a search walked page by page.
PagesWhole == scene = "reading" => Pages!NoGaps /\ Pages!WalkMissesNothing

\* What a member has read stays read, whatever their clients report in what order.
ReadStaysRead == [][scene = "reading" => Pages!NothingReturns]_slots

\* A conversation is one per pair and of that pair; what a client shows of it is
\* what is stored, and nobody's own writing is unread to them.
ConversationsKept ==
    scene = "private" => Private!OnlyTheTwo /\ Private!ShownIsStored /\ Private!OwnIsRead

\* However stale the rows that handlers write back, the words of a post are its
\* author's, the answer a client shows as its own is its own, and what somebody has
\* looked at is in a channel they see.
PostsAreTheirs ==
    scene = "posts" => Board!OwnIsYours /\ Board!WordsAreTheAuthors /\ Board!LookedWhereSeen

\* No webhook gets more through than its bucket allows, through any number of
\* sweeps of the buckets; a delivery is shown with all its files or not at all, one
\* that fails leaves no file behind, and edits never leave a message empty.
HooksHold ==
    scene = "webhooks" =>
        Hooks!LimitHeld /\ Hooks!WholeOrUnseen /\ Hooks!NothingLeft /\ Hooks!NeverEmpty

\* Every file of an expression has its row, and every client shows what is held.
PicturesKnown == scene = "expressions" => Pictures!FilesAreRows /\ Pictures!NobodyMisses

\* Of everybody a ban catches only those stay in who were half way through the door;
\* no ban locks its moderator out; and moderators see the bans there are.
DoorHolds == scene = "identities" => Door!OnlyRacersSlip /\ Door!OwnDoorOpen /\ Door!BoardIsTable

\* No category is in another, whatever is moved and removed at once; requests that do
\* not overlap leave everybody with the tree they may see and nobody where they may
\* not be; and one that runs alone puts right what others left.
TreeHolds == scene = "channels" => Tree!TreeShape /\ Tree!TurnsCurrent /\ Tree!LoneResyncHeals
================================================================================
