-------------------------------- MODULE Webhooks --------------------------------
(***************************************************************************)
(* The webhooks of the text channels: how they are made, moved and revoked,*)
(* what is delivered through their URLs, and the pace they are held to.    *)
(* Every query is a step, and so is every part of a delivery's body.       *)
(*                                                                         *)
(* Time passes in halves of what a token takes to come back, and a bucket  *)
(* counts in half tokens.  A URL is as good as the id in it: ids are never *)
(* given out twice and tokens never change.  Removing a channel is one     *)
(* step here; its own steps, and the quota, are ContentFiles' business.    *)
(***************************************************************************)
EXTENDS Naturals, Sequences, FiniteSets

CONSTANTS
    Plans,    \* who calls, what is there and what may happen
    Cap,      \* maxWebhooksPerChannel
    MaxFiles, \* Uploads.MaxPerMessage
    MaxParts, \* maxWebhookParts
    Burst,    \* deliveryBurst
    Idle,     \* limiterIdle, in halves of a token's time
    MaxTime   \* bound: how long the clock runs

VARIABLES
    plan,
    left,    \* what may still happen, by kind
    places,  \* the text channels there are
    hooks,   \* the table, by id: only the rows that are there
    last,    \* the highest ids given out, of webhooks and of messages
    msgs,    \* what webhooks have posted, by id: only the rows that are there
    disk,    \* the files saved, each named after its delivery and its place in it
    req,     \* per caller, the request it is answered
    by,      \* userLimiters.by: the bucket of a webhook
    buckets, \* the buckets ever made
    now,
    shown,   \* what those in the channels are shown, by message id
    taken,   \* history: the tokens taken: whose, when, and of a bucket already discarded?
    sent     \* history: by message id, the files it was delivered with

vars == <<plan, left, places, hooks, last, msgs, disk, req, by, buckets, now, shown, taken, sent>>

Callers == plan.callers
Free == [at |-> "free", op |-> "none", id |-> 0, row |-> <<>>, parts |-> <<>>, read |-> 0,
         text |-> "", embeds |-> "none", files |-> {}, held |-> {}, msg |-> 0, bucket |-> 0]

Spend(kind) == left[kind] > 0 /\ left' = [left EXCEPT ![kind] = @ - 1]
With(f, k, v) == [x \in DOMAIN f \cup {k} |-> IF x = k THEN v ELSE f[x]]
Without(f, gone) == [x \in DOMAIN f \ gone |-> f[x]]
At(c, op, at) == req[c].op = op /\ req[c].at = at
Ask(c, r) == req[c].at = "free" /\ req' = [req EXCEPT ![c] = r]
Move(c, at) == req' = [req EXCEPT ![c].at = at]
Done(c) == req' = [req EXCEPT ![c] = Free]

Tables == <<places, hooks, last, msgs>>
Pace == <<by, buckets, taken>>
Told == <<shown, sent>>

\* What a plan has to begin with: webhooks and messages in channels there are, and no
\* message with nothing in it.
PlansFit ==
    /\ Burst \in Nat
    /\ \A p \in Plans :
        /\ IsFiniteSet(DOMAIN p.hooks) /\ DOMAIN p.hooks = 1..Cardinality(DOMAIN p.hooks)
        /\ \A h \in DOMAIN p.hooks : p.hooks[h].channel \in p.places
        /\ IsFiniteSet(DOMAIN p.msgs) /\ DOMAIN p.msgs = 1..Cardinality(DOMAIN p.msgs)
        /\ \A m \in DOMAIN p.msgs :
            /\ DOMAIN p.msgs[m] = {"hook", "channel", "text", "embeds", "files"}
            /\ p.msgs[m].channel \in p.places /\ p.msgs[m].files = {}
            /\ p.msgs[m].text # "" \/ p.msgs[m].embeds # "none"

---------------------------------------------------------------------------
(* Managing webhooks: requests of those who may, over their connection.     *)

\* requireWebhookChannel
MayMintIn(c, channel) == channel \in places /\ channel \in plan.rights[c]

\* loadManageableWebhook: one that cannot be managed does not exist.
Manageable(c, h) == h \in DOMAIN hooks /\ MayMintIn(c, hooks[h].channel)

\* handleWebhookList: ids are learnt from it, and it is read again after every change.
Listed(c) == {h \in DOMAIN hooks : Manageable(c, h)}

\* CountWebhooksInChannel
InChannel(channel) == Cardinality({h \in DOMAIN hooks : hooks[h].channel = channel})

Mint(c) ==
    /\ Spend("mint")
    /\ \E channel \in places :
        MayMintIn(c, channel)
        /\ Ask(c, [Free EXCEPT !.at = "count", !.op = "mint", !.row = [channel |-> channel, name |-> c]])
    /\ UNCHANGED <<plan, Tables, disk, Pace, now, Told>>

\* A webhook that is moved is counted where it goes.
Change(c) ==
    /\ Spend("change")
    /\ \E h \in Listed(c), channel \in places, renamed \in BOOLEAN :
        LET moves == channel # hooks[h].channel
            name == IF renamed THEN c ELSE hooks[h].name
        IN  /\ moves => MayMintIn(c, channel)
            /\ Ask(c, [Free EXCEPT !.at = IF moves THEN "count" ELSE "save", !.op = "change", !.id = h,
                                   !.row = [channel |-> channel, name |-> name]])
    /\ UNCHANGED <<plan, Tables, disk, Pace, now, Told>>

Count(c) ==
    /\ req[c].at = "count"
    /\ IF InChannel(req[c].row.channel) >= Cap THEN Done(c) ELSE Move(c, "save")
    /\ UNCHANGED <<plan, left, Tables, disk, Pace, now, Told>>

\* CreateWebhook: a channel that is gone is no row to point at.
SaveNew(c) ==
    /\ At(c, "mint", "save") /\ Done(c)
    /\ IF req[c].row.channel \in places
       THEN last' = [last EXCEPT !.hook = @ + 1] /\ hooks' = With(hooks, last.hook + 1, req[c].row)
       ELSE UNCHANGED <<last, hooks>>
    /\ UNCHANGED <<plan, left, places, msgs, disk, Pace, now, Told>>

\* UpdateWebhook: the name and the channel, whatever was asked to change.
Save(c) ==
    /\ At(c, "change", "save") /\ Done(c)
    /\ hooks' = IF req[c].id \in DOMAIN hooks /\ req[c].row.channel \in places
                THEN [hooks EXCEPT ![req[c].id] = req[c].row] ELSE hooks
    /\ UNCHANGED <<plan, left, places, last, msgs, disk, Pace, now, Told>>

\* DeleteWebhook: what it posted stays, under an id no webhook has.
Delete(h) == hooks' = Without(hooks, {h}) /\ UNCHANGED <<places, last, msgs>>

Revoke(c) ==
    /\ Spend("revoke")
    /\ \E h \in Listed(c) : Ask(c, [Free EXCEPT !.at = "revoke", !.op = "revoke", !.id = h])
    /\ UNCHANGED <<plan, Tables, disk, Pace, now, Told>>

---------------------------------------------------------------------------
(* The same through the URL.                                                *)

\* resolveWebhook
Resolve(c, kind, at, h) ==
    Spend(kind) /\ h \in DOMAIN hooks /\ Ask(c, [Free EXCEPT !.at = at, !.op = kind, !.id = h, !.row = hooks[h]])

\* handleWebhookModify: only the name changes, and the channel it was read with is written back.
Rename(c, h) ==
    /\ Spend("change") /\ h \in DOMAIN hooks
    /\ Ask(c, [Free EXCEPT !.at = "save", !.op = "change", !.id = h, !.row = [hooks[h] EXCEPT !.name = c]])
    /\ UNCHANGED <<plan, Tables, disk, Pace, now, Told>>

GiveUp(c, h) == Resolve(c, "revoke", "revoke", h) /\ UNCHANGED <<plan, Tables, disk, Pace, now, Told>>

FinishRevoke(c) ==
    /\ At(c, "revoke", "revoke") /\ Done(c) /\ Delete(req[c].id)
    /\ UNCHANGED <<plan, left, disk, Pace, now, Told>>

---------------------------------------------------------------------------
(* The pace: a bucket for each webhook.                                     *)

Full == 2 * Burst
Tokens(bucket) == bucket.tokens + (now - bucket.at)

\* wrong: a bucket nobody draws from fills without end
RefilledFreely(bucket) == Tokens(bucket)
Refilled(bucket) == IF Tokens(bucket) > Full THEN Full ELSE Tokens(bucket)

\* spent: quiet for long enough, and full again.
Spent(bucket) == now - bucket.at >= Idle /\ Tokens(bucket) >= Full

\* userLimiters.take, its half under the lock of the map.
LookUp(c) ==
    /\ req[c].at = "pace"
    /\ LET h == req[c].id
           fresh == Len(buckets) + 1
       IN  IF h \in DOMAIN by
           THEN UNCHANGED <<by, buckets>> /\ req' = [req EXCEPT ![c].at = "take", ![c].bucket = by[h]]
           ELSE /\ by' = With(by, h, fresh) /\ buckets' = Append(buckets, [tokens |-> Full, at |-> now])
                /\ req' = [req EXCEPT ![c].at = "take", ![c].bucket = fresh]
    /\ UNCHANGED <<plan, left, Tables, disk, now, Told, taken>>

\* rateLimiter.take, under the lock of the bucket.
Take(c) ==
    /\ req[c].at = "take"
    /\ LET b == req[c].bucket
           tokens == Refilled(buckets[b])
           stray == ~(req[c].id \in DOMAIN by /\ by[req[c].id] = b)
       IN  IF tokens < 2
           THEN buckets' = [buckets EXCEPT ![b] = [tokens |-> tokens, at |-> now]] /\ Done(c) /\ UNCHANGED taken
           ELSE /\ buckets' = [buckets EXCEPT ![b] = [tokens |-> tokens - 2, at |-> now]]
                /\ taken' = Append(taken, [hook |-> req[c].id, at |-> now, stray |-> stray])
                /\ Move(c, IF req[c].op = "deliver" THEN "read" ELSE "patch")
    /\ UNCHANGED <<plan, left, Tables, disk, by, now, Told>>

\* userLimiters.sweep, which the sweep of the uploads calls.
Sweep ==
    /\ Spend("sweep")
    /\ by' = Without(by, {h \in DOMAIN by : Spent(buckets[by[h]])})
    /\ UNCHANGED <<plan, Tables, disk, req, buckets, now, Told, taken>>

Tick == now < MaxTime /\ plan.clock /\ now' = now + 1 /\ UNCHANGED <<plan, left, Tables, disk, req, Pace, Told>>

---------------------------------------------------------------------------
(* Delivering.                                                              *)

\* handleWebhookExecute, to the limit: the webhook and a channel that carries messages.
Deliver(c, h) ==
    /\ Resolve(c, "deliver", "pace", h) /\ hooks[h].channel \in places
    /\ UNCHANGED <<plan, Tables, disk, Pace, now, Told>>

\* A body begins to arrive.
Arrive(c, body) ==
    /\ At(c, "deliver", "read") /\ req[c].parts = <<>> /\ req' = [req EXCEPT ![c].parts = body]
    /\ UNCHANGED <<plan, left, Tables, disk, Pace, now, Told>>

\* discardUploads
Discard(c) == disk' = disk \ req[c].files

\* readDelivery, readMultipartDelivery: the words may come before the files or after them.
ReadPart(c) ==
    /\ At(c, "deliver", "read") /\ req[c].parts # <<>>
    /\ LET parts == req[c].parts
           k == req[c].read + 1
       IN  IF k > MaxParts THEN Discard(c) /\ Done(c)
           ELSE IF k > Len(parts) THEN UNCHANGED disk /\ Move(c, "insert")
           ELSE IF parts[k].kind = "words"
           THEN UNCHANGED disk /\ req' = [req EXCEPT ![c].read = k, ![c].text = parts[k].text, ![c].embeds = parts[k].embeds]
           ELSE IF parts[k].kind = "file" /\ Cardinality(req[c].files) < MaxFiles
           THEN LET file == <<Len(taken), c, k>>
                IN  disk' = disk \cup {file} /\ req' = [req EXCEPT ![c].read = k, ![c].files = @ \cup {file}]
           ELSE IF parts[k].kind = "other" THEN UNCHANGED disk /\ req' = [req EXCEPT ![c].read = k]
           ELSE Discard(c) /\ Done(c)
    /\ UNCHANGED <<plan, left, Tables, Pace, now, Told>>

TooLong(text) == text = "long"
Empty(text, embeds, files) == text = "" /\ embeds = "none" /\ files = {}

\* postWebhookMessage, to the row: the channel is the one the webhook had when it was called.
Insert(c) ==
    /\ At(c, "deliver", "insert")
    /\ LET r == req[c]
           id == last.msg + 1
       IN  IF TooLong(r.text) \/ Empty(r.text, r.embeds, r.files) \/ r.row.channel \notin places
           THEN Discard(c) /\ Done(c) /\ UNCHANGED <<last, msgs, sent>>
           ELSE /\ last' = [last EXCEPT !.msg = id]
                /\ msgs' = With(msgs, id, [hook |-> r.id, channel |-> r.row.channel, text |-> r.text,
                                           embeds |-> r.embeds, files |-> {}])
                /\ sent' = With(sent, id, r.files)
                /\ req' = [req EXCEPT ![c].at = "bind", ![c].msg = id]
                /\ UNCHANGED disk
    /\ UNCHANGED <<plan, left, places, hooks, Pace, now, shown>>

\* wrong: what could not be attached is left out
GoesOnWithout(lost) == TRUE
\* Whether the delivery goes on once its files are, or are not, on the message.
GoesOn(lost) == ~lost

\* recordWebhookFiles: a message that is gone holds no file.
Bind(c, fails) ==
    /\ At(c, "deliver", "bind")
    /\ LET id == req[c].msg
           lost == req[c].files # {} /\ (fails \/ id \notin DOMAIN msgs)
       IN  /\ fails => plan.faults /\ req[c].files # {}
           /\ msgs' = IF lost \/ id \notin DOMAIN msgs THEN msgs ELSE [msgs EXCEPT ![id].files = req[c].files]
           /\ req' = [req EXCEPT ![c].at = IF GoesOn(lost) THEN "tell" ELSE "rollback",
                                 ![c].held = IF lost THEN {} ELSE req[c].files]
    /\ UNCHANGED <<plan, left, places, hooks, last, disk, Pace, now, Told>>

\* A half-written message is rolled back rather than posted, and its files are given up.
Rollback(c) ==
    /\ At(c, "deliver", "rollback") /\ Done(c) /\ Discard(c) /\ msgs' = Without(msgs, {req[c].msg})
    /\ UNCHANGED <<plan, left, places, hooks, last, Pace, now, Told>>

\* messageView: rendered from what the request holds, not read again.
Announce(c) ==
    /\ At(c, "deliver", "tell") /\ Done(c)
    /\ LET r == req[c]
       IN  shown' = IF r.row.channel \in places
                    THEN With(shown, r.msg, [text |-> r.text, embeds |-> r.embeds, files |-> r.held]) ELSE shown
    /\ UNCHANGED <<plan, left, Tables, disk, Pace, now, sent>>

---------------------------------------------------------------------------
(* What a webhook may do to what it posted.  Ids are learnt from an answer  *)
(* or from the channel: only those shown there are asked about.             *)

\* loadWebhookMessage
Loaded(h, m) == m \in DOMAIN msgs /\ msgs[m].hook = h

\* handleWebhookMessageEdit, handleWebhookMessageDelete: to the message.
Amend(c, h, m) ==
    /\ Spend("edit") /\ h \in DOMAIN hooks /\ m \in DOMAIN shown
    /\ \E patch \in plan.patches :
        Ask(c, [Free EXCEPT !.at = "load", !.op = "edit", !.id = h, !.msg = m, !.row = patch])
    /\ UNCHANGED <<plan, Tables, disk, Pace, now, Told>>

TakeBack(c, h, m) ==
    /\ Spend("delete") /\ h \in DOMAIN hooks /\ m \in DOMAIN shown
    /\ Ask(c, [Free EXCEPT !.at = "load", !.op = "delete", !.id = h, !.msg = m])
    /\ UNCHANGED <<plan, Tables, disk, Pace, now, Told>>

\* What is there is read now, and an edit is a patch over it.
Load(c) ==
    /\ req[c].at = "load"
    /\ LET r == req[c]
           old == msgs[r.msg]
       IN  IF ~Loaded(r.id, r.msg) THEN Done(c)
           ELSE req' = [req EXCEPT ![c] = [r EXCEPT !.at = IF r.op = "edit" THEN "pace" ELSE "files",
                                                    !.text = old.text, !.embeds = old.embeds]]
    /\ UNCHANGED <<plan, left, Tables, disk, Pace, now, Told>>

PatchedOver(new, old) == IF new = "keep" THEN old ELSE new

\* The files are read, and a message is never left with nothing.
Patch(c) ==
    /\ At(c, "edit", "patch")
    /\ LET r == req[c]
           text == PatchedOver(r.row.text, r.text)
           embeds == PatchedOver(r.row.embeds, r.embeds)
           files == IF r.msg \in DOMAIN msgs THEN msgs[r.msg].files ELSE {}
       IN  IF TooLong(text) \/ Empty(text, embeds, files) THEN Done(c)
           ELSE req' = [req EXCEPT ![c] = [r EXCEPT !.at = "write", !.text = text, !.embeds = embeds, !.held = files]]
    /\ UNCHANGED <<plan, left, Tables, disk, Pace, now, Told>>

\* UpdateWebhookMessage: the words and the embeds, both.
Rewritten(m, r) == [m EXCEPT !.text = r.text, !.embeds = r.embeds]

Write(c) ==
    /\ At(c, "edit", "write")
    /\ LET r == req[c]
       IN  IF r.msg \in DOMAIN msgs THEN msgs' = [msgs EXCEPT ![r.msg] = Rewritten(@, r)] /\ Move(c, "retell")
           ELSE UNCHANGED msgs /\ Done(c)
    /\ UNCHANGED <<plan, left, places, hooks, last, disk, Pace, now, Told>>

\* Those who show the message show what it has become.
Retell(c) ==
    /\ At(c, "edit", "retell") /\ Done(c)
    /\ LET r == req[c]
       IN  shown' = IF r.msg \in DOMAIN shown
                    THEN With(shown, r.msg, [text |-> r.text, embeds |-> r.embeds, files |-> r.held]) ELSE shown
    /\ UNCHANGED <<plan, left, Tables, disk, Pace, now, sent>>

\* Read before the delete: the rows of the files go with the message.
ReadFiles(c) ==
    /\ At(c, "delete", "files")
    /\ LET m == req[c].msg
       IN  req' = [req EXCEPT ![c].at = "remove", ![c].held = IF m \in DOMAIN msgs THEN msgs[m].files ELSE {}]
    /\ UNCHANGED <<plan, left, Tables, disk, Pace, now, Told>>

Remove(c) ==
    /\ At(c, "delete", "remove")
    /\ IF req[c].msg \in DOMAIN msgs
       THEN msgs' = Without(msgs, {req[c].msg}) /\ disk' = disk \ req[c].held /\ Move(c, "gone")
       ELSE UNCHANGED <<msgs, disk>> /\ Done(c)
    /\ UNCHANGED <<plan, left, places, hooks, last, Pace, now, Told>>

TellGone(c) ==
    /\ At(c, "delete", "gone") /\ Done(c) /\ shown' = Without(shown, {req[c].msg})
    /\ UNCHANGED <<plan, left, Tables, disk, Pace, now, sent>>

---------------------------------------------------------------------------
(* What others do meanwhile, and the whole.                                 *)

\* A channel goes with its webhooks, its messages and their files.
DropChannel(channel) ==
    /\ Spend("drop") /\ channel \in places /\ places' = places \ {channel}
    /\ LET gone == {m \in DOMAIN msgs : msgs[m].channel = channel}
       IN  /\ msgs' = Without(msgs, gone) /\ shown' = Without(shown, gone)
           /\ disk' = disk \ UNION {msgs[m].files : m \in gone}
    /\ hooks' = Without(hooks, {h \in DOMAIN hooks : hooks[h].channel = channel})
    /\ UNCHANGED <<plan, last, req, Pace, now, sent>>

Init ==
    /\ plan \in Plans /\ left = plan.left /\ places = plan.places /\ hooks = plan.hooks
    /\ last = [hook |-> Cardinality(DOMAIN plan.hooks), msg |-> Cardinality(DOMAIN plan.msgs)]
    /\ msgs = plan.msgs /\ disk = {} /\ req = [c \in plan.callers |-> Free]
    /\ by = <<>> /\ buckets = <<>> /\ now = 0 /\ taken = <<>> /\ sent = [m \in DOMAIN msgs |-> {}]
    /\ shown = [m \in DOMAIN msgs |-> [text |-> msgs[m].text, embeds |-> msgs[m].embeds, files |-> {}]]

Step(c) ==
    \/ Mint(c) \/ Change(c) \/ Count(c) \/ SaveNew(c) \/ Save(c) \/ Revoke(c) \/ FinishRevoke(c)
    \/ \E h \in DOMAIN hooks : Rename(c, h) \/ GiveUp(c, h) \/ Deliver(c, h)
    \/ LookUp(c) \/ Take(c) \/ \E body \in plan.bodies : Arrive(c, body)
    \/ ReadPart(c) \/ Insert(c) \/ (\E fails \in BOOLEAN : Bind(c, fails)) \/ Rollback(c) \/ Announce(c)
    \/ \E h \in DOMAIN hooks, m \in DOMAIN shown : Amend(c, h, m) \/ TakeBack(c, h, m)
    \/ Load(c) \/ Patch(c) \/ Write(c) \/ Retell(c) \/ ReadFiles(c) \/ Remove(c) \/ TellGone(c)

Next == Sweep \/ Tick \/ (\E channel \in places : DropChannel(channel)) \/ \E c \in Callers : Step(c)

---------------------------------------------------------------------------
(* Properties.                                                              *)

\* Every row is in a channel there is, and every file that is shown was saved.
TypeOK ==
    /\ \A h \in DOMAIN hooks : h \in 1..last.hook /\ hooks[h].channel \in places
    /\ \A m \in DOMAIN msgs : m \in 1..last.msg /\ msgs[m].channel \in places /\ msgs[m].files \in {{}, sent[m]}
    /\ \A h \in DOMAIN by : h \in 1..last.hook /\ by[h] \in 1..Len(buckets)
    /\ \A b \in 1..Len(buckets) : buckets[b].tokens \in 0..Full /\ buckets[b].at <= now

\* However a webhook is called, swept and called again, in no stretch of time does it get more through
\* than a bucket that was never thrown away would give: a burst and what comes back meanwhile.  Only a
\* call that held a bucket while it was thrown away is not counted.
LimitHeld ==
    \A i \in 1..Len(taken) : \A j \in i..Len(taken) :
        LET within == {k \in i..j : taken[k].hook = taken[i].hook /\ ~taken[k].stray}
        IN  2 * Cardinality(within) <= Full + taken[j].at - taken[i].at

\* Two edits of one message at once, each a patch over what it read, never leave it with nothing in it.
\* Before its files are on it, or once they are lost, a delivery may be a message of nothing else.
NeverEmpty ==
    \A m \in DOMAIN msgs :
        (\A c \in Callers : ~(req[c].at \in {"bind", "rollback"} /\ req[c].msg = m))
            => ~Empty(msgs[m].text, msgs[m].embeds, msgs[m].files)

\* A channel is shown a delivery with the files it was sent with, and never a part of it.
WholeOrUnseen == \A m \in DOMAIN shown : m \in DOMAIN msgs => shown[m].files = sent[m]

\* When nobody is at work, every file saved is on a message.
NothingLeft ==
    (\A c \in Callers : req[c].at = "free") => disk = UNION {msgs[m].files : m \in DOMAIN msgs}

\* A channel holds no more webhooks than it may.
CapHeld == \A channel \in places : InChannel(channel) <= Cap

Spec == Init /\ [][Next]_vars
================================================================================
