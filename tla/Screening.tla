------------------------------- MODULE Screening -------------------------------
(***************************************************************************)
(* Automatic moderation: the rules an administrator saves, the cached copy *)
(* that is in force, and what one connection writes under them.  A text is *)
(* a sequence of characters; a link, a mention and a character that folds  *)
(* to two others are one character each.  Time is counted in seconds.      *)
(***************************************************************************)
EXTENDS Naturals, Sequences, FiniteSets, SequencesExt

CONSTANTS Plans,       \* who writes what under which rules: a behaviour picks one
          MaxRecent,   \* maxRecent: how much of a connection's history is kept
          RecentWindow \* recentWindow, in seconds

VARIABLES
    plan,
    left,   \* what may still happen, by kind
    stored, \* the rules in the database, or NoRow, or Unreadable
    rules,  \* Hub.automod
    saving, \* per administrator, the rules between the database and the cache
    now,
    recent, \* Session.recent: when, and what
    kept,   \* history: what was accepted, and how it was stored
    log     \* history: the rules that fired, as the audit log names them

vars == <<plan, left, stored, rules, saving, now, recent, kept, log>>

Pace == {"flood", "repetition"}
Content == {"mentions", "caps", "links", "words"}
Rules == Pace \cup Content
NoRow == [row |-> "none"]
Unreadable == [row |-> "unreadable"]
NoSave == [row |-> "idle"]

\* DefaultAutoMod moderates nothing.
Defaults ==
    [row |-> "rules", on |-> FALSE, exempt |-> {}, spared |-> {}, act |-> [r \in Rules |-> "off"],
     lift |-> [r \in Rules |-> {}], messages |-> 5, seconds |-> 5, times |-> 3, limit |-> 5,
     percent |-> 70, length |-> 12, words |-> {}, whole |-> TRUE, domains |-> {}]

---------------------------------------------------------------------------
(* Texts.                                                                   *)

Mark == "*"
Capitals == {"S", "A"}
Small == {"s", "a", "e", "ae"}
Letters == Capitals \cup Small

\* Fold: lower case, no accents; some letters become two.
FoldOf(c) == CASE c = "S" -> <<"s">> [] c = "A" -> <<"a">> [] c = "ae" -> <<"a", "e">> [] OTHER -> <<c>>
Fold(t) == FoldLeft(LAMBDA out, c : out \o FoldOf(c), <<>>, t)

\* The character of t that a place in the folded copy came from.
Origin(t, b) == Cardinality({i \in DOMAIN t : Len(Fold(SubSeq(t, 1, i))) < b}) + 1

WordBoundary(folded, start, end) ==
    /\ start = 1 \/ folded[start - 1] \notin Letters
    /\ end > Len(folded) \/ folded[end] \notin Letters

\* Where a listed word is in the folded copy: from, and the place behind it.
Matches(t, words, whole) ==
    LET folded == Fold(t)
    IN  {m \in (1..Len(folded)) \X (2..(Len(folded) + 1)) :
            /\ m[1] < m[2] /\ SubSeq(folded, m[1], m[2] - 1) \in {Fold(w) : w \in words}
            /\ whole => WordBoundary(folded, m[1], m[2])}

\* The characters a match masks.
Masked(t, m) == {i \in DOMAIN t : Origin(t, m[1]) <= i /\ i < Origin(t, m[2])}
CensorWords(t, words, whole) ==
    LET masked == UNION {Masked(t, m) : m \in Matches(t, words, whole)}
    IN  [i \in DOMAIN t |-> IF i \in masked /\ t[i] # " " THEN Mark ELSE t[i]]

\* screenLinks: the links to domains that are not allowed.
Links == {"evil.example", "github.com", "gist.github.com"}
Covers == [d \in Links |-> IF d = "github.com" THEN {"github.com", "gist.github.com"} ELSE {d}]
Banned(domains) == Links \ UNION {Covers[d] : d \in domains}
CensorLinks(t, domains) == [i \in DOMAIN t |-> IF t[i] \in Banned(domains) THEN Mark ELSE t[i]]

Mentions(t) == Cardinality({i \in DOMAIN t : t[i] = "@"})
Shouting(t, percent, length) ==
    LET cased == Cardinality({i \in DOMAIN t : t[i] \in Letters})
        upper == Cardinality({i \in DOMAIN t : t[i] \in Capitals})
    IN  cased > 0 /\ cased >= length /\ (upper * 100) \div cased >= percent

---------------------------------------------------------------------------
(* The history of a connection.                                             *)

Flooding(history, rule) ==
    Cardinality({i \in DOMAIN history : history[i].at + rule.seconds > now}) >= rule.messages

Repeating(history, times, folded) ==
    /\ folded # <<>> /\ Len(history) >= times
    /\ \A i \in (Len(history) - times + 1)..Len(history) : history[i].text = folded

\* rememberMessage forgets what is too old, and keeps the newest.
Remembered(history, folded) ==
    LET all == Append(SelectSeq(history, LAMBDA e : now - e.at <= RecentWindow), [at |-> now, text |-> folded])
    IN  SubSeq(all, IF Len(all) > MaxRecent THEN Len(all) - MaxRecent + 1 ELSE 1, Len(all))

---------------------------------------------------------------------------
(* One text through the rules.                                              *)

\* exemptFromAutoMod
Exempt(who, roles) == who.admin \/ who.roles \cap roles # {}
Fires(cfg, r, who) == cfg.act[r] # "off" /\ ~Exempt(who, cfg.lift[r])

Refused(rule) == [refused |-> rule, text |-> <<>>, censored |-> "none"]
Accepted(t) == [refused |-> "none", text |-> t, censored |-> "none"]

\* wrong: the words are looked for in what was written, and its links come back
WordsAgain(cfg, t, masked, by) ==
    IF ~Fires(cfg, "words", by) \/ Matches(t, cfg.words, cfg.whole) = {} THEN [Accepted(masked) EXCEPT
            !.censored = IF masked = t THEN "none" ELSE "links"]
    ELSE IF cfg.act["words"] = "block" THEN Refused("words")
    ELSE [Accepted(CensorWords(t, cfg.words, cfg.whole)) EXCEPT !.censored = "words"]
\* screenWords, on a text whose links are masked already.
Words(cfg, t, masked, by) ==
    IF ~Fires(cfg, "words", by) \/ Matches(masked, cfg.words, cfg.whole) = {} THEN [Accepted(masked) EXCEPT
            !.censored = IF masked = t THEN "none" ELSE "links"]
    ELSE IF cfg.act["words"] = "block" THEN Refused("words")
    ELSE [Accepted(CensorWords(masked, cfg.words, cfg.whole)) EXCEPT !.censored = "words"]

\* The rules about what a text says: those that refuse outright first.
ByContent(cfg, t, by) ==
    LET masked == IF Fires(cfg, "links", by) THEN CensorLinks(t, cfg.domains) ELSE t
    IN  IF Fires(cfg, "mentions", by) /\ Mentions(t) > cfg.limit THEN Refused("mentions")
        ELSE IF Fires(cfg, "caps", by) /\ Shouting(t, cfg.percent, cfg.length) THEN Refused("caps")
        ELSE IF masked # t /\ cfg.act["links"] = "block" THEN Refused("links")
        ELSE Words(cfg, t, masked, by)

\* screen: sending says whether the rules about pace apply.
Screened(cfg, t, by, channel, sending) ==
    IF ~cfg.on \/ Exempt(by, cfg.exempt) \/ channel \in cfg.spared THEN Accepted(t)
    ELSE IF sending /\ Fires(cfg, "flood", by) /\ Flooding(recent, cfg) THEN Refused("flood")
    ELSE IF sending /\ Fires(cfg, "repetition", by) /\ Repeating(recent, cfg.times, Fold(t))
         THEN Refused("repetition")
    ELSE ByContent(cfg, t, by)

\* screenRelayed: nobody here wrote it, so nobody is exempt, and there is no pace.
Stranger == [admin |-> FALSE, roles |-> {}]
ScreenedRelayed(cfg, t, channel) ==
    IF ~cfg.on \/ channel \in cfg.spared THEN Accepted(t) ELSE ByContent(cfg, t, Stranger)

---------------------------------------------------------------------------
(* What is saved.                                                           *)

Clamp(v, low, high, fallback) == IF v = 0 THEN fallback ELSE IF v < low THEN low ELSE IF v > high THEN high ELSE v

\* normaliseRule: a rule with nothing to mask blocks.
Action(r, action) == IF action = "censor" /\ r \notin {"words", "links"} THEN "block" ELSE action
Normalised(cfg) ==
    [cfg EXCEPT !.act = [r \in Rules |-> Action(r, @[r])],
                !.limit = Clamp(@, 1, 50, 5), !.percent = Clamp(@, 10, 100, 70),
                !.length = Clamp(@, 4, 500, 12), !.messages = Clamp(@, 2, 30, 5),
                !.seconds = Clamp(@, 1, 60, 5), !.times = Clamp(@, 2, 20, 3)]

\* knownRoles, knownChannels
Known(cfg) ==
    [cfg EXCEPT !.exempt = @ \cap plan.roles, !.spared = @ \cap plan.channels,
                !.lift = [r \in Rules |-> @[r] \cap plan.roles]]

InForce(row) == IF row.row = "rules" THEN Normalised(row) ELSE Defaults

Init ==
    /\ plan \in Plans /\ left = plan.left /\ stored \in plan.stored /\ rules = InForce(stored)
    /\ saving = [a \in plan.admins |-> NoSave] /\ now = 0 /\ recent = <<>> /\ kept = <<>> /\ log = <<>>

Spend(kind) == left[kind] > 0 /\ left' = [left EXCEPT ![kind] = @ - 1]

\* handleAutoModUpdate writes the rules, and then puts them in force.
Save(a) ==
    /\ saving[a] = NoSave /\ Spend("save")
    /\ plan.turns => \A b \in plan.admins : saving[b] = NoSave
    /\ \E cfg \in plan.edits :
        /\ stored' = Normalised(Known(cfg)) /\ saving' = [saving EXCEPT ![a] = stored']
    /\ UNCHANGED <<plan, rules, now, recent, kept, log>>

ApplyNow(a) == rules' = saving[a]
Apply(a) ==
    /\ saving[a] # NoSave /\ ApplyNow(a) /\ saving' = [saving EXCEPT ![a] = NoSave]
    /\ UNCHANGED <<plan, left, stored, now, recent, kept, log>>

\* ReloadAutoMod, at a start: everybody connects anew.
Restart ==
    /\ Spend("restart") /\ rules' = InForce(stored) /\ recent' = <<>>
    /\ saving' = [a \in plan.admins |-> NoSave]
    /\ UNCHANGED <<plan, stored, now, kept, log>>

\* A rule that fires is logged by name, and never with the text.
Noted(verdict, how) ==
    log' = IF verdict.refused # "none" THEN Append(log, <<verdict.refused, "block", how>>)
           ELSE IF verdict.censored # "none" THEN Append(log, <<verdict.censored, "censor", how>>)
           ELSE log

Entry(how, t, verdict, channel) ==
    [how |-> how, text |-> t, as |-> verdict.text, at |-> now, cfg |-> rules, channel |-> channel,
     connection |-> <<left["reconnect"], left["restart"]>>]

\* A message, an edit, a title, or something from the other side of the bridge.
Write(how) ==
    /\ Spend(how)
    /\ \E t \in plan.texts, channel \in plan.channels :
        LET sending == how = "send"
            verdict == IF how = "relayed" THEN ScreenedRelayed(rules, t, channel)
                       ELSE Screened(rules, t, plan.who, channel, sending)
            screened == rules.on /\ ~Exempt(plan.who, rules.exempt) /\ channel \notin rules.spared
        IN  /\ Noted(verdict, how)
            /\ kept' = IF verdict.refused # "none" THEN kept ELSE Append(kept, Entry(how, t, verdict, channel))
            /\ recent' = IF sending /\ screened /\ verdict.refused = "none"
                         THEN Remembered(recent, Fold(t)) ELSE recent
    /\ UNCHANGED <<plan, stored, rules, saving, now>>

Tick == Spend("tick") /\ now' = now + 1 /\ UNCHANGED <<plan, stored, rules, saving, recent, kept, log>>

\* A new connection has no history.
Reconnect == Spend("reconnect") /\ recent' = <<>> /\ UNCHANGED <<plan, stored, rules, saving, now, kept, log>>

Next ==
    \/ \E a \in plan.admins : Save(a) \/ Apply(a)
    \/ Restart \/ Tick \/ Reconnect
    \/ \E how \in {"send", "edit", "relayed"} : Write(how)

---------------------------------------------------------------------------
(* Properties.                                                              *)

TypeOK ==
    /\ rules.row = "rules" /\ \A r \in Pace : rules.act[r] # "censor"
    /\ rules.messages \in 2..30 /\ rules.seconds \in 1..60 /\ rules.times \in 2..20
    /\ Len(recent) <= MaxRecent /\ \A i \in DOMAIN recent : recent[i].at \in 0..now

Bound(e, r) ==
    /\ e.cfg.on /\ e.channel \notin e.cfg.spared /\ e.cfg.act[r] # "off"
    /\ e.how = "relayed" \/ (~Exempt(plan.who, e.cfg.exempt) /\ ~Exempt(plan.who, e.cfg.lift[r]))

\* A text that was stored under the rules holds no link and no word they ban,
\* whichever of the two rules masks which part of it, and whoever wrote it where.
NothingBannedKept ==
    \A i \in DOMAIN kept :
        LET e == kept[i]
        IN  /\ Bound(e, "links") => \A j \in DOMAIN e.as : e.as[j] \notin Banned(e.cfg.domains)
            /\ Bound(e, "words") => Matches(e.as, e.cfg.words, e.cfg.whole) = {}

\* "a censored one was never stored uncensored": a message the log says was
\* censored is not stored as it was written.
CensoredIsMasked ==
    Len(log) = Len(kept) => \A i \in DOMAIN kept : log[i][2] = "censor" => kept[i].as # kept[i].text

\* However sends, refusals, edits, exempt channels and the passing of time mix, a
\* connection never has more messages accepted in a window than the rule allows,
\* nor more than the rule allows in a row.
PaceHeld ==
    plan.steady => \A c \in {kept[i].connection : i \in DOMAIN kept} :
        LET sent == SelectSeq(kept, LAMBDA e : e.how = "send" /\ e.connection = c)
            mine == SelectSeq(sent, LAMBDA e : Bound(e, "flood"))
            same == SelectSeq(sent, LAMBDA e : Bound(e, "repetition"))
            cfg == rules
        IN
        /\ \A t \in 0..now :
            Cardinality({i \in DOMAIN mine : mine[i].at <= t /\ mine[i].at + cfg.seconds > t}) <= cfg.messages
        /\ \A i \in 1..(Len(same) - cfg.times) :
            same[i + cfg.times].at - same[i].at <= RecentWindow =>
                \E j \in i..(i + cfg.times) : Fold(same[j].text) # Fold(same[i].text)

\* The rules in force are the rules a restart would read, whenever no
\* administrator is half way through saving: answered for those who take turns.
InForceIsStored ==
    plan.turns /\ (\A a \in plan.admins : saving[a] = NoSave) => rules = InForce(stored)
=============================================================================
