--------------------------------- MODULE Posts ---------------------------------
(***************************************************************************)
(* The posts of announcement, forum, media and calendar channels: what     *)
(* their authors write about them, what moderators do to them, who         *)
(* answers an event and who has looked at what.  An update reads the whole *)
(* row, changes its copy and writes the whole row; every query is a step.  *)
(* The files of a post are ContentFiles' business.                         *)
(***************************************************************************)
EXTENDS Naturals, FiniteSets

CONSTANT Plans \* who is there, what is posted and what may happen

VARIABLES
    plan,
    left,   \* what may still happen, by kind
    posts,  \* the table, by id: only the rows that are there
    last,   \* the highest id ever given out
    rsvps,  \* post_rsvps: by post, the answers
    views,  \* post_views: by person, the posts
    sees,   \* by person, the channels their roles let them see
    req,    \* per session, the request it is answering
    shown,  \* per client, the posts it shows
    wrote   \* history: by person, the titles and times they sent for a post

vars == <<plan, left, posts, last, rsvps, views, sees, req, shown, wrote>>

People == DOMAIN plan.sees
Free == [at |-> "free", op |-> "none", id |-> 0, row |-> <<>>, ask |-> <<>>, view |-> <<>>]
Answers == {"going", "maybe", "declined"}

Spend(kind) == left[kind] > 0 /\ left' = [left EXCEPT ![kind] = @ - 1]
With(f, k, v) == [x \in DOMAIN f \cup {k} |-> IF x = k THEN v ELSE f[x]]
Without(f, k) == [x \in DOMAIN f \ {k} |-> f[x]]
At(p, at) == req[p].at = at
Ask(p, r) == At(p, "free") /\ req' = [req EXCEPT ![p] = r]
Move(p, at) == req' = [req EXCEPT ![p].at = at]
Done(p) == req' = [req EXCEPT ![p] = Free]

---------------------------------------------------------------------------
(* Guards and views.                                                        *)

Moderates(p) == p \in plan.moderators

\* validatePostEvent: a post of a calendar, and only that, happens at a time.
EventFits(channel, event) == (event # 0) <=> channel \in plan.calendars

\* requirePostChannel: one that cannot be seen does not exist.
Reaches(p, channel) == channel \in sees[p]

\* loadVisiblePost
Visible(p, id) == id \in DOMAIN posts /\ Reaches(p, posts[id].channel)

\* screenText, with the one rule of the plan.
Screened(title) == IF title.rude /\ plan.rule = "censor" THEN [title EXCEPT !.rude = FALSE] ELSE title
Refused(title) == title.rude /\ plan.rule = "block"

\* RSVPCountsFor
Tally(id) == [a \in Answers |-> Cardinality({p \in DOMAIN rsvps[id] : rsvps[id][p] = a})]
\* RSVPsOf
OwnAnswer(id, p) == IF p \in DOMAIN rsvps[id] THEN rsvps[id][p] ELSE "none"
\* viewedPredicate: opened, one's own, or from before one's time.
Viewed(id, p) == id \in views[p] \/ posts[id].by = p \/ id <= plan.epoch[p]

\* postView, rsvpView
View(row, tally, own, viewed) ==
    [channel |-> row.channel, by |-> row.by, title |-> row.title, event |-> row.event, locked |-> row.locked,
     pinned |-> row.pinned, tally |-> tally, own |-> own, viewed |-> viewed]

\* postViews, for nobody in particular.
Shared(row, id, p) == View(row, Tally(id), "none", FALSE)
Mine(row, id, p) == View(row, Tally(id), OwnAnswer(id, p), Viewed(id, p))

\* A client joins what a frame says of a post to what it knows about itself.
Joined(p, id, view) ==
    IF id \notin DOMAIN shown[p] THEN view
    ELSE [view EXCEPT !.own = IF @ = "none" THEN shown[p][id].own ELSE @, !.viewed = @ \/ shown[p][id].viewed]

\* BroadcastChannelEvent
Broadcast(id, view) ==
    shown' = [q \in People |-> IF view.channel \in sees[q] THEN With(shown[q], id, Joined(q, id, view)) ELSE shown[q]]

---------------------------------------------------------------------------
(* Posting.                                                                 *)

Create(p) ==
    /\ Spend("create")
    /\ \E channel \in sees[p], rude \in plan.rude, event \in plan.events :
        LET title == [by |-> p, no |-> left["create"], rude |-> rude]
        IN  /\ p \in plan.posters /\ EventFits(channel, event) /\ ~Refused(title)
            /\ Ask(p, [Free EXCEPT !.at = "insert", !.op = "create",
                                   !.row = [channel |-> channel, by |-> p, title |-> Screened(title), event |-> event,
                                            locked |-> FALSE, pinned |-> FALSE]])
    /\ UNCHANGED <<plan, posts, last, rsvps, views, sees, shown, wrote>>

\* CreatePost: the row and its body are one transaction.
Insert(p) ==
    /\ At(p, "insert") /\ last' = last + 1 /\ posts' = With(posts, last', req[p].row)
    /\ rsvps' = With(rsvps, last', <<>>)
    /\ wrote' = [wrote EXCEPT ![p] = @ \cup {<<last', req[p].row.title, req[p].row.event>>}]
    /\ req' = [req EXCEPT ![p].at = "claim", ![p].id = last']
    /\ UNCHANGED <<plan, left, views, sees, shown>>

\* DeletePost: the answers and the marks go with the row.
Gone(id) ==
    /\ posts' = Without(posts, id) /\ rsvps' = Without(rsvps, id)
    /\ views' = [q \in People |-> views[q] \ {id}]

\* Files that cannot be attached take the whole of the post with them.
Claim(p, fails) ==
    /\ At(p, "claim") /\ (fails => plan.files)
    /\ IF fails THEN Gone(req[p].id) /\ Done(p) ELSE UNCHANGED <<posts, rsvps, views>> /\ Move(p, "announce")
    /\ UNCHANGED <<plan, left, last, sees, shown, wrote>>

\* The frame has no tallies yet; the author knows their own post.
Announce(p) ==
    /\ At(p, "announce") /\ Done(p)
    /\ Broadcast(req[p].id, View(req[p].row, [a \in Answers |-> 0], "none", FALSE))
    /\ UNCHANGED <<plan, left, posts, last, rsvps, views, sees, wrote>>

---------------------------------------------------------------------------
(* Updating.                                                                *)

\* What an update may name: a title, a time, a lock, a pin.
Changes(p, id) ==
    {<<"title", [by |-> p, no |-> 10 + left["update"], rude |-> rude]>> : rude \in plan.rude}
        \cup {<<"event", e>> : e \in plan.events \ {0, posts[id].event}}
        \cup {<<f, b>> : f \in {"locked", "pinned"}, b \in BOOLEAN}

\* wrong: a moderator may say anything about a post
MayFreely(p, row, field) == row.by = p \/ Moderates(p)
\* The title and the time are the author's; locking and pinning are moderation.
May(p, row, field) == IF field \in {"title", "event"} THEN row.by = p ELSE Moderates(p)

\* handlePostUpdate changes its copy of the row.  A title is not screened here.
Patched(row, change) ==
    CASE change[1] = "title" -> [row EXCEPT !.title = change[2]]
      [] change[1] = "event" -> [row EXCEPT !.event = change[2]]
      [] change[1] = "locked" -> [row EXCEPT !.locked = change[2]]
      [] OTHER -> [row EXCEPT !.pinned = change[2]]

Update(p, id) ==
    /\ Visible(p, id) /\ Spend("update")
    /\ \E change \in Changes(p, id) :
        LET row == Patched(posts[id], change)
        IN  /\ change[1] \in plan.fields /\ May(p, posts[id], change[1])
            /\ change[1] = "event" => EventFits(row.channel, change[2])
            /\ Ask(p, [Free EXCEPT !.at = "save", !.op = "update", !.id = id, !.row = row, !.ask = change])
            /\ wrote' = IF change[1] \in {"title", "event"}
                        THEN [wrote EXCEPT ![p] = @ \cup {<<id, row.title, row.event>>}] ELSE wrote
    /\ UNCHANGED <<plan, posts, last, rsvps, views, sees, shown>>

\* UpdatePost writes every column.
Save(p) ==
    /\ At(p, "save")
    /\ IF req[p].id \in DOMAIN posts THEN posts' = [posts EXCEPT ![req[p].id] = req[p].row] /\ Move(p, "reread")
       ELSE posts' = posts /\ Done(p)
    /\ UNCHANGED <<plan, left, last, rsvps, views, sees, shown, wrote>>

Reread(p) ==
    /\ At(p, "reread")
    /\ IF req[p].id \notin DOMAIN posts THEN Done(p)
       ELSE req' = [req EXCEPT ![p].at = "render", ![p].row = posts[req[p].id]]
    /\ UNCHANGED <<plan, left, posts, last, rsvps, views, sees, shown, wrote>>

\* The tallies of a post that has gone meanwhile are empty.
Render(p) ==
    /\ At(p, "render")
    /\ IF req[p].id \notin DOMAIN posts THEN Done(p)
       ELSE req' = [req EXCEPT ![p].at = "share", ![p].view = Shared(req[p].row, req[p].id, p)]
    /\ UNCHANGED <<plan, left, posts, last, rsvps, views, sees, shown, wrote>>

Share(p) ==
    /\ At(p, "share") /\ Broadcast(req[p].id, req[p].view) /\ Move(p, "reply")
    /\ UNCHANGED <<plan, left, posts, last, rsvps, views, sees, wrote>>

\* The reply is the same post seen by who asked.
Reply(p) ==
    /\ At(p, "reply") /\ Done(p)
    /\ shown' = IF req[p].id \notin DOMAIN posts THEN shown
                ELSE [shown EXCEPT ![p] = With(@, req[p].id, Mine(req[p].row, req[p].id, p))]
    /\ UNCHANGED <<plan, left, posts, last, rsvps, views, sees, wrote>>

Delete(p, id) ==
    /\ Visible(p, id) /\ (posts[id].by = p \/ Moderates(p)) /\ Spend("delete")
    /\ Ask(p, [Free EXCEPT !.at = "remove", !.op = "delete", !.id = id, !.row = posts[id]])
    /\ UNCHANGED <<plan, posts, last, rsvps, views, sees, shown, wrote>>

Remove(p) ==
    /\ At(p, "remove") /\ Gone(req[p].id)
    /\ IF req[p].id \in DOMAIN posts THEN Move(p, "tell") ELSE Done(p)
    /\ UNCHANGED <<plan, left, last, sees, shown, wrote>>

TellDeleted(p) ==
    /\ At(p, "tell") /\ Done(p)
    /\ shown' = [q \in People |-> IF req[p].row.channel \in sees[q] THEN Without(shown[q], req[p].id) ELSE shown[q]]
    /\ UNCHANGED <<plan, left, posts, last, rsvps, views, sees, wrote>>

---------------------------------------------------------------------------
(* Answering and looking.                                                   *)

RSVP(p, id, answer) ==
    /\ Visible(p, id) /\ posts[id].event # 0 /\ ~posts[id].locked /\ Spend("rsvp")
    /\ Ask(p, [Free EXCEPT !.at = "answer", !.op = "rsvp", !.id = id, !.row = posts[id], !.ask = answer])
    /\ UNCHANGED <<plan, posts, last, rsvps, views, sees, shown, wrote>>

\* SetRSVP, DeleteRSVP: one answer each; a post that has gone takes none.
SetAnswer(p) ==
    /\ At(p, "answer")
    /\ IF req[p].id \notin DOMAIN posts
       THEN rsvps' = rsvps /\ (IF req[p].ask = "none" THEN Move(p, "count") ELSE Done(p))
       ELSE /\ rsvps' = [rsvps EXCEPT ![req[p].id] = IF req[p].ask = "none" THEN Without(@, p) ELSE With(@, p, req[p].ask)]
            /\ Move(p, "count")
    /\ UNCHANGED <<plan, left, posts, last, views, sees, shown, wrote>>

Count(p) ==
    /\ At(p, "count")
    /\ req' = [req EXCEPT ![p].at = "tallied",
                          ![p].view = IF req[p].id \in DOMAIN posts THEN Tally(req[p].id) ELSE [a \in Answers |-> 0]]
    /\ UNCHANGED <<plan, left, posts, last, rsvps, views, sees, shown, wrote>>

\* PostRSVP: the tallies are everybody's; own is that of the person it names.
TellAnswer(p) ==
    /\ At(p, "tallied") /\ Done(p)
    /\ LET id == req[p].id
           hear == {q \in People : req[p].row.channel \in sees[q] /\ id \in DOMAIN shown[q]}
       IN  shown' = [q \in People |-> IF q \notin hear THEN shown[q]
                        ELSE [shown[q] EXCEPT ![id].tally = req[p].view, ![id].own = IF q = p THEN req[p].ask ELSE @]]
    /\ UNCHANGED <<plan, left, posts, last, rsvps, views, sees, wrote>>

Look(p) ==
    /\ Spend("view")
    /\ \E channel \in sees[p], ids \in SUBSET (1..last) \ {{}} :
        Ask(p, [Free EXCEPT !.at = "mark", !.op = "view", !.view = ids, !.ask = channel])
    /\ UNCHANGED <<plan, posts, last, rsvps, views, sees, shown, wrote>>

\* MarkPostsViewed: those of them that are in the channel.
Marked(ids, channel) == {id \in ids \cap DOMAIN posts : posts[id].channel = channel}
Mark(p) ==
    /\ At(p, "mark") /\ Done(p) /\ views' = [views EXCEPT ![p] = @ \cup Marked(req[p].view, req[p].ask)]
    /\ UNCHANGED <<plan, left, posts, last, rsvps, sees, shown, wrote>>

\* A role or an overwrite takes a channel away.
Hide(p) ==
    /\ Spend("hide") /\ \E channel \in sees[p] : sees' = [sees EXCEPT ![p] = @ \ {channel}]
    /\ UNCHANGED <<plan, posts, last, rsvps, views, req, shown, wrote>>

Init ==
    /\ plan \in Plans /\ left = plan.left /\ posts = plan.posts /\ last = Cardinality(DOMAIN plan.posts)
    /\ rsvps = [id \in DOMAIN plan.posts |-> <<>>] /\ views = [p \in People |-> {}] /\ sees = plan.sees
    /\ req = [p \in People |-> Free]
    /\ shown = [p \in People |-> [id \in {x \in DOMAIN posts : posts[x].channel \in sees[p]} |->
                    View(posts[id], [a \in Answers |-> 0], "none", Viewed(id, p))]]
    /\ wrote = [p \in People |-> {<<id, posts[id].title, posts[id].event>> : id \in {x \in DOMAIN posts : posts[x].by = p}}]

Step(p) ==
    \/ Create(p) \/ Insert(p) \/ Announce(p) \/ Save(p) \/ Reread(p) \/ Render(p) \/ Share(p) \/ Reply(p)
    \/ Remove(p) \/ TellDeleted(p) \/ SetAnswer(p) \/ Count(p) \/ TellAnswer(p) \/ Look(p) \/ Mark(p) \/ Hide(p)
    \/ \E fails \in BOOLEAN : Claim(p, fails)
    \/ \E id \in DOMAIN posts : Update(p, id) \/ Delete(p, id) \/ \E a \in Answers \cup {"none"} : RSVP(p, id, a)

Next == \E p \in People : Step(p)

---------------------------------------------------------------------------
(* Properties.                                                              *)

\* What is posted to begin with is numbered from one, by people who are there.
PlansFit ==
    \A pl \in Plans :
        LET ids == DOMAIN pl.posts
        IN  /\ IsFiniteSet(ids) /\ ids = 1..Cardinality(ids)
            /\ \A id \in ids :
                /\ DOMAIN pl.posts[id] = {"channel", "by", "title", "event", "locked", "pinned"}
                /\ pl.posts[id].by \in DOMAIN pl.sees

TypeOK ==
    /\ DOMAIN posts \subseteq 1..last /\ DOMAIN rsvps = DOMAIN posts
    /\ \A p \in People : views[p] \subseteq DOMAIN posts /\ DOMAIN shown[p] \subseteq 1..last

\* However the edits, locks and answers of several people mix, the answer a client
\* shows as its own is the one its user gave: no frame carries somebody else's.
\* (What it does with the posts of a channel its user has lost is its own business.)
OwnIsYours ==
    \A p \in People : At(p, "free") =>
        \A id \in DOMAIN shown[p] \cap DOMAIN posts :
            posts[id].channel \in sees[p] => shown[p][id].own \in {"none", OwnAnswer(id, p)}

\* Whoever saves which stale copy of a row, the title and the time a post has are
\* its author's: a moderator never writes in another's name.
WordsAreTheAuthors ==
    \A id \in DOMAIN posts :
        /\ \E w \in wrote[posts[id].by] : w[1] = id /\ w[2].no = posts[id].title.no
        /\ \E w \in wrote[posts[id].by] : w[1] = id /\ w[3] = posts[id].event

\* Nobody has looked at what they could never see, whichever ids they name beside
\* a channel that they can.
LookedWhereSeen == \A p \in People : \A id \in views[p] : posts[id].channel \in plan.sees[p]

\* "The title is screened too": no rule against rude words leaves a rude title in
\* the table.
TitlesScreened == plan.rule # "off" => \A id \in DOMAIN posts : ~posts[id].title.rude

\* "Locking and pinning are moderation, so they need ManageMessages": a lock is only
\* ever taken off by a moderator who asked for that.
LocksStay ==
    [][\A id \in DOMAIN posts \cap DOMAIN posts' : posts[id].locked /\ ~posts'[id].locked =>
        \E p \in People : At(p, "save") /\ ~At(p, "save")' /\ req[p].id = id /\ req[p].ask[1] = "locked"]_vars
=============================================================================
