-------------------------------- MODULE Reading --------------------------------
(***************************************************************************)
(* Reading what was written: a page of history at a time, from any place   *)
(* and in either direction, the badges of unread lines, and a search that  *)
(* is walked by offset, while others go on writing and deleting.  Every    *)
(* query is a step.  A page is the set of its lines, since every page is   *)
(* handed out oldest first.                                                *)
(***************************************************************************)
EXTENDS Naturals, FiniteSets

CONSTANTS Plans,   \* what is read and what may happen: a behaviour picks one
          Limit    \* how many lines a page holds

VARIABLES
    plan,
    left,    \* what may still happen, by kind
    rows,    \* the table, by id: only the rows that are there
    last,    \* the highest id ever given out
    req,     \* the page being read, and how far
    window,  \* the client: what it holds, and what it was told about more
    late,    \* the client: lines that came in while it waited for a page
    marker,  \* channel_reads, or the marker in the conversation
    marks,   \* per client of the member, a marker that is to be written
    walk     \* the client's walk through a search

vars == <<plan, left, rows, last, req, window, late, marker, marks, walk>>

NoRequest == [at |-> "idle", way |-> "open", from |-> 0, page |-> {}, more |-> FALSE, after |-> FALSE]
NoWalk ==
    [at |-> "idle", off |-> 0, total |-> 0, page |-> {}, listed |-> {}, near |-> {}, owed |-> {}, calm |-> TRUE]

Largest(S, n) == {x \in S : Cardinality({y \in S : y > x}) < n}
Smallest(S, n) == {x \in S : Cardinality({y \in S : y < x}) < n}
Lowest(S) == CHOOSE x \in S : \A y \in S : x <= y
Highest(S) == CHOOSE x \in S : \A y \in S : x >= y

---------------------------------------------------------------------------
(* The queries.                                                             *)

\* The body of a post is not one of its comments; it may have been purged.
Root ==
    IF plan.kind # "comments" THEN 0
    ELSE LET bodies == {id \in DOMAIN rows : rows[id].body} IN IF bodies = {} THEN 0 ELSE Lowest(bodies)

\* The lines of the thread that is read: a channel's own, a post's, or those of
\* a private conversation.
Lines == {id \in DOMAIN rows : rows[id].thread = plan.thread /\ id > Root}

\* MessagesBefore and its twins: 0 is from the newest.
Before(id, n) == Largest({x \in Lines : id = 0 \/ x < id}, n)
After(id, n) == Smallest({x \in Lines : x > id}, n)

\* wrong: the line somebody jumps to is in neither half
OlderWithout(id) == Before(id, Limit \div 2 + 1)
\* MessagesAround: the line itself is read with the older half, and the newer
\* half gets what is left of the page.
Older(id) == Before(id + 1, Limit \div 2 + 1)
Newer(id, older) == After(id, Limit - Cardinality(older))

HasBefore(id) == \E x \in Lines : x < id
HasAfter(id) == \E x \in Lines : x > id

\* PinnedPosts travel with the first page of a channel of posts: mergePosts.
Pinned == IF plan.kind = "posts" THEN {id \in Lines : rows[id].pinned} ELSE {}

---------------------------------------------------------------------------
(* A page of history.                                                       *)

\* The lowest and the highest id the client pages from: what is pinned is not
\* part of the order.
Cursors(held) == {id \in held : id \notin window.pinned}

\* handleMessageHistory, handleDMHistory, postHistory, handlePostList
Ask(way, from) ==
    /\ req.at = "idle" /\ left["ask"] > 0 /\ left' = [left EXCEPT !["ask"] = @ - 1]
    /\ way \in plan.ways /\ late' = {}
    /\ LET page == CASE way = "open" -> Before(0, Limit) [] way = "back" -> Before(from, Limit)
                     [] way = "forth" -> After(from, Limit) [] OTHER -> Older(from)
       IN  req' = [NoRequest EXCEPT !.at = IF way = "jump" THEN "half" ELSE "read",
                                    !.way = way, !.from = from, !.page = page]
    /\ UNCHANGED <<plan, rows, last, window, marker, marks, walk>>

Asking ==
    \/ Ask("open", 0)
    \/ \E id \in 1..last : Ask("jump", id)
    \/ Cursors(window.held) # {} /\ window.more /\ Ask("back", Lowest(Cursors(window.held)))
    \/ Cursors(window.held) # {} /\ window.after /\ Ask("forth", Highest(Cursors(window.held)))

ReadNewer ==
    /\ req.at = "half" /\ req' = [req EXCEPT !.at = "read", !.page = @ \cup Newer(req.from, req.page)]
    /\ UNCHANGED <<plan, left, rows, last, window, late, marker, marks, walk>>

\* An empty page says nothing of more.  Comments and posts are paged backwards
\* only, so nothing is asked about what comes after.
ProbeBefore ==
    /\ req.at = "read"
    /\ req' = [req EXCEPT !.at = "probed", !.more = req.page # {} /\ HasBefore(Lowest(req.page))]
    /\ UNCHANGED <<plan, left, rows, last, window, late, marker, marks, walk>>

Probe == req.page # {} /\ plan.kind = "lines" /\ HasAfter(Highest(req.page))
ProbeAfter ==
    /\ req.at = "probed" /\ req' = [req EXCEPT !.at = "answer", !.after = Probe]
    /\ UNCHANGED <<plan, left, rows, last, window, late, marker, marks, walk>>

\* The client joins the page to what it holds, or replaces it; lines that came in
\* meanwhile are behind a page that reaches the present.
Answer ==
    /\ req.at = "answer" /\ req' = NoRequest /\ late' = {}
    /\ LET join == req.way \in {"back", "forth"}
           end == IF req.way = "back" THEN window.after ELSE req.after
           top == IF req.way = "forth" THEN window.more ELSE req.more
           extra == IF req.way = "open" THEN Pinned ELSE {}
       IN  window' = [held |-> (IF join THEN window.held ELSE {}) \cup req.page \cup extra
                                   \cup (IF end THEN {} ELSE late),
                      pinned |-> IF join THEN window.pinned ELSE extra, more |-> top, after |-> end]
    /\ UNCHANGED <<plan, left, rows, last, marker, marks, walk>>

---------------------------------------------------------------------------
(* Writing.                                                                 *)

\* A line is written by the member or by somebody else, in this thread or in
\* another one; writing moves the marker of who writes.
Write(line) ==
    /\ left["write"] > 0 /\ left' = [left EXCEPT !["write"] = @ - 1]
    /\ last' = last + 1
    /\ rows' = [id \in DOMAIN rows \cup {last'} |-> IF id = last' THEN line ELSE rows[id]]
    /\ LET live == line.thread = plan.thread
       IN  /\ late' = IF live THEN late \cup {last'} ELSE late
           /\ window' = IF live /\ ~window.after THEN [window EXCEPT !.held = @ \cup {last'}] ELSE window
    /\ marker' = IF line.own THEN last' ELSE marker
    /\ walk' = [walk EXCEPT !.calm = FALSE]
    /\ UNCHANGED <<plan, req, marks>>

Remove(id) ==
    /\ left["remove"] > 0 /\ left' = [left EXCEPT !["remove"] = @ - 1]
    /\ rows' = [x \in DOMAIN rows \ {id} |-> rows[x]]
    /\ late' = late \ {id} /\ window' = [window EXCEPT !.held = @ \ {id}, !.pinned = @ \ {id}]
    /\ walk' = [walk EXCEPT !.calm = FALSE, !.owed = @ \ {id}]
    /\ UNCHANGED <<plan, last, req, marker, marks>>

---------------------------------------------------------------------------
(* Badges.                                                                  *)

\* What the badge of a channel counts: past the marker, and past the epoch of
\* somebody who joined later.
Effective == IF marker > plan.epoch THEN marker ELSE plan.epoch
Unread == {id \in DOMAIN rows : id > Effective}

\* MarkChannelRead: 0 is whatever is newest; the line a client names is one it saw.
ReadUpTo(c, id) ==
    /\ marks[c] = 0 /\ left["mark"] > 0 /\ left' = [left EXCEPT !["mark"] = @ - 1]
    /\ marks' = [marks EXCEPT ![c] = IF id # 0 THEN id ELSE IF rows = <<>> THEN 0 ELSE Highest(DOMAIN rows)]
    /\ UNCHANGED <<plan, rows, last, req, window, late, marker, walk>>

\* wrong: the marker is what was said last
MarkedAs(id) == id
\* The marker never moves backwards.
Marked(id) == IF id > Effective THEN id ELSE Effective
Mark(c) ==
    /\ marks[c] # 0 /\ marker' = Marked(marks[c]) /\ marks' = [marks EXCEPT ![c] = 0]
    /\ UNCHANGED <<plan, left, rows, last, req, window, late, walk>>

---------------------------------------------------------------------------
(* Search.                                                                  *)

\* What matches, in the channels that may be seen: where().
Found == {id \in DOMAIN rows : rows[id].hit > 0 /\ rows[id].thread \in plan.visible}

\* orderBy: recency breaks the ties of relevance.
Sooner(a, b) ==
    CASE plan.sort = "oldest" -> a < b
      [] plan.sort = "newest" -> a > b
      [] OTHER -> rows[a].hit > rows[b].hit \/ (rows[a].hit = rows[b].hit /\ a > b)
Place(id) == Cardinality({x \in Found : Sooner(x, id)})
Hits(off) == {id \in Found : off <= Place(id) /\ Place(id) < off + Limit}

Total(off) == Cardinality(Found)

\* SearchMessages counts, and then reads the page.
Count ==
    /\ walk.at \in {"idle", "more"} /\ plan.sort # "none"
    /\ walk.at = "idle" => left["search"] > 0
    /\ left' = IF walk.at = "idle" THEN [left EXCEPT !["search"] = @ - 1] ELSE left
    /\ walk' = [walk EXCEPT !.at = "counted", !.total = Total(walk.off),
                            !.owed = IF walk.at = "idle" THEN Found ELSE @,
                            !.calm = walk.at = "idle" \/ @]
    /\ UNCHANGED <<plan, rows, last, req, window, late, marker, marks>>

ReadHits ==
    /\ walk.at = "counted"
    /\ walk' = [walk EXCEPT !.at = "read", !.page = IF walk.off >= walk.total THEN {} ELSE Hits(walk.off)]
    /\ UNCHANGED <<plan, left, rows, last, req, window, late, marker, marks>>

\* NeighbourIDs: the lines of the channel on either side of a hit.
Neighbours(id) ==
    LET same == {x \in DOMAIN rows : rows[x].thread = rows[id].thread}
    IN  Largest({x \in same : x < id}, 1) \cup Smallest({x \in same : x > id}, 1)

\* searchHits renders what is still there, with the lines around it.
Render ==
    /\ walk.at = "read"
    /\ LET there == walk.page \cap DOMAIN rows
       IN  walk' = [walk EXCEPT !.listed = @ \cup there, !.page = {}, !.off = @ + Limit,
                                !.near = UNION {Neighbours(id) : id \in there},
                                !.at = IF walk.off + Limit >= walk.total THEN "done" ELSE "more"]
    /\ UNCHANGED <<plan, left, rows, last, req, window, late, marker, marks>>

Init ==
    /\ plan \in Plans /\ left = plan.left /\ rows = plan.rows /\ last = Cardinality(DOMAIN plan.rows)
    /\ req = NoRequest /\ window = [held |-> {}, pinned |-> {}, more |-> FALSE, after |-> TRUE] /\ late = {}
    /\ marker = 0 /\ marks = [c \in plan.clients |-> 0] /\ walk = NoWalk

Next ==
    \/ Asking \/ ReadNewer \/ ProbeBefore \/ ProbeAfter \/ Answer \/ Count \/ ReadHits \/ Render
    \/ \E line \in plan.lines : Write(line)
    \/ \E id \in DOMAIN rows : Remove(id)
    \/ \E c \in plan.clients : Mark(c) \/ \E id \in 0..last : ReadUpTo(c, id)

---------------------------------------------------------------------------
(* Properties.                                                              *)

\* What is there to begin with is numbered from one, and who joined later joined
\* after one of it.  The body of a post is older than its comments, none is written
\* later, and comments and posts are read backwards only.
PlansFit ==
    /\ Limit \in Nat \ {0}
    /\ \A pl \in Plans :
        LET ids == DOMAIN pl.rows
        IN  /\ IsFiniteSet(ids) /\ ids = 1..Cardinality(ids) /\ pl.rows = [id \in ids |-> pl.rows[id]]
            /\ pl.epoch \in 0..Cardinality(ids) /\ "remove" \in DOMAIN pl.left
            /\ pl.ways \subseteq {"open", "back"} \cup (IF pl.kind = "lines" THEN {"forth", "jump"} ELSE {})
            /\ (\A id \in ids : pl.rows[id].hit \in Nat) /\ \A line \in pl.lines : line.hit \in Nat /\ ~line.body
            /\ pl.kind = "comments" => \A b \in ids : pl.rows[b].body =>
                pl.rows[b].thread = pl.thread /\ \A id \in ids : pl.rows[id].thread = pl.thread => b <= id

TypeOK ==
    /\ DOMAIN rows \subseteq 1..last /\ window.held \cup late \cup req.page \subseteq 1..last
    /\ marker \in 0..last /\ \A c \in plan.clients : marks[c] \in 0..last
    /\ Cardinality(req.page) <= Limit /\ walk.listed \cup walk.near \subseteq 1..last

\* Whatever is written and deleted between the queries, a reader who scrolls and
\* jumps has no hole in what they hold, and one who is told that there is no more
\* on a side has it all on that side.
NoGaps ==
    LET held == Cursors(window.held)
    IN  held # {} /\ req.at = "idle" =>
            /\ \A id \in Lines : Lowest(held) <= id /\ id <= Highest(held) => id \in window.held
            /\ \A id \in Lines : id < Lowest(held) => window.more \/ id \in window.held
            /\ plan.kind = "lines" => \A id \in Lines : id > Highest(held) => window.after

\* A line that counted as read never lights a badge again, whichever client of the
\* member marks what and in which order that is written.
NothingReturns == \A id \in DOMAIN rows \cap DOMAIN rows' : id \in Unread' => id \in Unread

\* Walking a search to its end lists every match that was there when it began: from
\* the oldest on whatever is written meanwhile, in the other orders if nothing is.
WalkMissesNothing ==
    walk.at = "done" /\ (walk.calm \/ (plan.sort = "oldest" /\ plan.left["remove"] = 0)) =>
        walk.owed \subseteq walk.listed
=============================================================================
