----------------------------- MODULE ContentFiles -----------------------------
(***************************************************************************)
(* Files and what names them: the upload directory with its quota, the     *)
(* attachment rows of messages and posts, the picture rows of users, and   *)
(* the icon in the configuration.                                          *)
(*                                                                         *)
(* A file and its row cannot change together, so every handler is a run of *)
(* steps: one for each statement, unlink, and hold of the quota's mutex.   *)
(* Two handlers interleave at any of them, and a crash can fall between    *)
(* any two.  There is one channel, which holds lines or posts; a post is   *)
(* known by the message that is its body.                                  *)
(***************************************************************************)
EXTENDS Integers, FiniteSets, FiniteSetsExt

CONSTANTS
    Users,
    Threads,        \* the read loops, HTTP handlers and the housekeeper
    MaxKeys,        \* bound on the files ever stored
    MaxMessages,    \* bound on the messages ever written
    MaxFile,        \* bound on Uploads.MaxFileBytes
    Plans,          \* the deployments
    NoKey, NoUser

NoRow   == 0        \* a key no attachment row has
Pending == MaxMessages + 1  \* message_id NULL: uploaded, not posted yet

Keys     == 1..MaxKeys
Messages == 1..MaxMessages
NoMessage == 0

AllCalls == {"attach", "picture", "icon", "delivery", "send", "post", "delete",
             "deletepost", "channel", "purge", "sweep", "clear"}

\* An unlink fails; a statement fails and does nothing; a statement is
\* done and reported as failed, because the row it wrote is read back in another;
\* the configuration file cannot be written.
Faults == {"disk", "store", "reply", "config"}

ASSUME ContentAssumption ==
    /\ MaxKeys \in Nat /\ MaxMessages \in Nat /\ MaxFile \in Nat \ {0}
    /\ NoKey \notin Keys /\ NoUser \notin Users

\* A deployment: Uploads.MaxFileBytes and Uploads.MaxTotalBytes, a positive one,
\* whether the channel holds posts, by how much a body may be longer than it
\* declared, the kinds of request there are, and what may fail; and bounds: the files
\* and messages of a behaviour, its requests, how many are handled at once, and its
\* crashes.
ASSUME PlansFit ==
    \A p \in Plans :
        /\ p.file \in 1..MaxFile /\ p.total \in Nat \ {0} /\ p.overrun \in Nat
        /\ p.posts \in BOOLEAN /\ p.calls \subseteq AllCalls /\ p.failures \subseteq Faults
        /\ p.keys \in 0..MaxKeys /\ p.messages \in 0..MaxMessages
        /\ p.requests \in Nat /\ p.inFlight \in Nat /\ p.restarts \in Nat

VARIABLES
    plan,       \* one of Plans, fixed for a behaviour
    disk,       \* the files in the upload directory
    size,       \* the bytes of each file
    minted,     \* how many keys newKey has handed out
    used,       \* Store.used
    channel,    \* whether the channel exists
    members,    \* the rows of users
    msgs,       \* the rows of messages
    written,    \* how many message ids have been given out
    posts,      \* the rows of posts, by their body
    thread,     \* the post a message belongs to
    author,     \* messages.user_id
    row,        \* attachments.message_id, by storage key
    owner,      \* attachments.user_id
    pic,        \* the profile_media row of a user
    shown,      \* users.avatar: the picture a user points at
    icon,       \* the icon of the running configuration
    savedIcon,  \* the icon of the configuration file
    announced,  \* the files MessageCreated carried: what clients were told
    pc, req,    \* the step and the request of a thread
    requests, restarts

files    == <<disk, size, minted, used>>
talk     == <<channel, msgs, written, posts, thread, author>>
rows     == <<row, owner>>
pictures == <<pic, shown>>
icons    == <<icon, savedIcon>>
bounds   == <<requests, restarts>>
vars == <<plan, files, talk, members, rows, pictures, icons, announced, pc, req, bounds>>

Request == [call : AllCalls \cup {"idle"}, who : Users \cup {NoUser},
            key : Keys \cup {NoKey}, reserved : 0..MaxFile,
            msg : 0..MaxMessages, held : SUBSET Keys, stale : SUBSET Keys]

Steps == {"idle", "write", "giveback", "settle", "recheck", "saved", "point",
          "unpicture", "clear", "saveicon", "create", "claim", "readback",
          "announce", "rollback", "reread", "delete", "purge", "unsay", "forget", "sweep",
          "unlink", "refund"}

NoRequest == [call |-> "idle", who |-> NoUser, key |-> NoKey, reserved |-> 0,
              msg |-> NoMessage, held |-> {}, stale |-> {}]

TypeOK ==
    /\ plan \in Plans
    /\ disk \subseteq Keys /\ size \in [Keys -> 0..MaxFile]
    /\ minted \in 0..MaxKeys /\ used \in Int
    /\ channel \in BOOLEAN /\ members \subseteq Users
    /\ msgs \subseteq Messages /\ written \in 0..MaxMessages /\ posts \subseteq Messages
    /\ thread \in [Messages -> 0..MaxMessages]
    /\ author \in [Messages -> Users \cup {NoUser}]
    /\ row \in [Keys -> 0..(MaxMessages + 1)]
    /\ owner \in [Keys -> Users \cup {NoUser}]
    /\ pic \in [Users -> Keys \cup {NoKey}] /\ shown \in [Users -> Keys \cup {NoKey}]
    /\ icon \in Keys \cup {NoKey} /\ savedIcon \in Keys \cup {NoKey}
    /\ announced \in [Messages -> SUBSET Keys]
    /\ pc \in [Threads -> Steps] /\ req \in [Threads -> Request]
    /\ requests \in 0..plan.requests /\ restarts \in 0..plan.restarts

-----------------------------------------------------------------------------

Real(keys) == keys \ {NoKey}
Bytes(keys) == MapThenSumSet(LAMBDA k : size[k], keys)

Attached == {k \in Keys : row[k] # NoRow}
Carried(m) == {k \in Keys : row[k] = m}
Pictures == Real({pic[u] : u \in Users})

Init ==
    /\ plan \in Plans
    /\ disk = {} /\ size = [k \in Keys |-> 0] /\ minted = 0 /\ used = 0
    /\ channel = TRUE /\ members = Users
    /\ msgs = {} /\ written = 0 /\ posts = {}
    /\ thread = [m \in Messages |-> NoMessage]
    /\ author = [m \in Messages |-> NoUser]
    /\ row = [k \in Keys |-> NoRow] /\ owner = [k \in Keys |-> NoUser]
    /\ pic = [u \in Users |-> NoKey] /\ shown = [u \in Users |-> NoKey]
    /\ icon = NoKey /\ savedIcon = NoKey
    /\ announced = [m \in Messages |-> {}]
    /\ pc = [t \in Threads |-> "idle"] /\ req = [t \in Threads |-> NoRequest]
    /\ requests = 0 /\ restarts = 0

At(t, step) == pc[t] = step

Goto(t, step) ==
    /\ pc' = [pc EXCEPT ![t] = step]
    /\ UNCHANGED bounds

\* The request is answered.
Finish(t) ==
    /\ req' = [req EXCEPT ![t] = NoRequest]
    /\ Goto(t, "idle")

\* Hub.RemoveFiles and its kin: unlink what the request holds, one by one.
Drop(t, keys) ==
    IF keys = {} THEN Finish(t)
    ELSE /\ req' = [req EXCEPT ![t].held = keys]
         /\ Goto(t, "unlink")

\* One of the files to remove is dealt with.
Dropped(t) ==
    LET rest == req[t].held \ {Min(req[t].held)}
    IN  IF rest = {} /\ req[t].stale = {} THEN Finish(t)
        ELSE /\ req' = [req EXCEPT ![t].held = rest]
             /\ Goto(t, IF rest = {} THEN "sweep" ELSE "unlink")

Fails(fault) == fault \in plan.failures

Begin(t, call, step, r) ==
    /\ call \in plan.calls
    /\ At(t, "idle")
    /\ requests < plan.requests
    /\ Cardinality({s \in Threads : ~At(s, "idle")}) < plan.inFlight
    /\ requests' = requests + 1
    /\ pc' = [pc EXCEPT ![t] = step]
    /\ req' = [req EXCEPT ![t] = [r EXCEPT !.call = call]]
    /\ UNCHANGED restarts

-----------------------------------------------------------------------------
(***************************************************************************)
(* Saving a file.  Every upload comes through here.                        *)
(***************************************************************************)

\* Store.reserve: room is taken before a byte is written.
Fits(n) == used + n <= plan.total

Reserve(t, call, u, n) ==
    /\ Begin(t, call, "write", [NoRequest EXCEPT !.who = u, !.reserved = n])
    /\ Fits(n)
    /\ used' = used + n
    /\ UNCHANGED <<disk, size, minted, talk, members, rows, pictures, icons, announced>>

\* Upload, avatar, icon and webhook file: the checks of each, then the
\* reservation.  A request that is refused changes nothing.
Upload(t) ==
    \/ \E u \in members, n \in 1..plan.file :
          \/ channel /\ Reserve(t, "attach", u, n)
          \/ Reserve(t, "picture", u, n)
          \/ Reserve(t, "icon", u, n)
    \/ channel /\ ~plan.posts /\ Reserve(t, "delivery", NoUser, plan.file)

\* The body reaches the disk; or it is empty, too long or breaks off, and its file
\* is taken away again.
WriteFile(t) ==
    /\ At(t, "write")
    /\ \/ /\ minted < plan.keys
          /\ minted' = minted + 1
          /\ \E n \in 1..plan.file :
                /\ n <= req[t].reserved + plan.overrun
                /\ size' = [size EXCEPT ![minted'] = n]
          /\ disk' = disk \cup {minted'}
          /\ req' = [req EXCEPT ![t].key = minted']
          /\ Goto(t, "settle")
       \/ /\ Goto(t, "giveback")
          /\ UNCHANGED <<disk, size, minted, req>>
    /\ UNCHANGED <<used, talk, members, rows, pictures, icons, announced>>

\* discard: the whole reservation goes back.
GiveBack(t) ==
    /\ At(t, "giveback")
    /\ used' = used - req[t].reserved
    /\ Finish(t)
    /\ UNCHANGED <<disk, size, minted, talk, members, rows, pictures, icons, announced>>

\* wrong: the unused rest of a reservation is kept.
SettledInFull(t) == used

\* settle: only what was written is kept of the reservation.
Settled(t) == used - req[t].reserved + size[req[t].key]

Settle(t) ==
    /\ At(t, "settle")
    /\ used' = Settled(t)
    /\ Goto(t, "recheck")
    /\ UNCHANGED <<disk, size, minted, talk, members, rows, pictures, icons, announced, req>>

\* A body longer than it declared may have gone over the ceiling.
Recheck(t) ==
    /\ At(t, "recheck")
    /\ IF used > plan.total
       THEN Drop(t, {req[t].key})
       ELSE Goto(t, "saved") /\ UNCHANGED req
    /\ UNCHANGED <<files, talk, members, rows, pictures, icons, announced>>

\* Store.Remove, its unlink: a file that is gone already counts as removed.
Unlink(t) ==
    /\ At(t, "unlink")
    /\ \/ /\ disk' = disk \ {Min(req[t].held)}
          /\ Goto(t, "refund")
          /\ UNCHANGED req
       \/ /\ Fails("disk")
          /\ Dropped(t)
          /\ UNCHANGED disk
    /\ UNCHANGED <<size, minted, used, talk, members, rows, pictures, icons, announced>>

\* Store.Remove, its refund.
Refund(t) ==
    LET n == size[Min(req[t].held)]
    IN  /\ At(t, "refund")
        /\ used' = IF n > used THEN 0 ELSE used - n
        /\ Dropped(t)
        /\ UNCHANGED <<disk, size, minted, talk, members, rows, pictures, icons, announced>>

-----------------------------------------------------------------------------
(***************************************************************************)
(* Recording a file: the row goes in after the bytes it names.             *)
(***************************************************************************)

\* handleUpload, CreateAttachment: pending until a message claims it.
Record(t) ==
    LET k == req[t].key
        u == req[t].who
    IN  /\ At(t, "saved") /\ req[t].call = "attach"
        /\ \/ /\ channel /\ u \in members
              /\ row' = [row EXCEPT ![k] = Pending]
              /\ owner' = [owner EXCEPT ![k] = u]
              /\ Goto(t, "reread")
              /\ UNCHANGED req
           \/ /\ ~channel \/ u \notin members \/ Fails("store")
              /\ Drop(t, {k})
              /\ UNCHANGED rows
        /\ UNCHANGED <<files, talk, members, pictures, icons, announced>>

\* AttachmentByID: the row is read back, and one that is not there any more, or
\* cannot be read, takes the file with it.
RereadFile(t) ==
    LET k == req[t].key
    IN  /\ At(t, "reread") /\ req[t].call = "attach"
        /\ \/ row[k] # NoRow /\ Finish(t)
           \/ (row[k] = NoRow \/ Fails("reply")) /\ Drop(t, {k})
        /\ UNCHANGED <<files, talk, members, rows, pictures, icons, announced>>

\* wrong: a first picture displaces one as well.
DisplacedRow(u) == {pic[u]}

\* The file a new picture takes the place of.
Displaced(u) == Real({pic[u]})

\* uploadProfileMedia, ReplaceProfileMedia: the new row displaces the old one.
Replace(t) ==
    LET k == req[t].key
        u == req[t].who
    IN  /\ At(t, "saved") /\ req[t].call = "picture"
        /\ \/ /\ u \in members
              /\ pic' = [pic EXCEPT ![u] = k]
              /\ req' = [req EXCEPT ![t].held = Displaced(u)]
              /\ Goto(t, "point")
           \/ /\ u \notin members \/ Fails("store")
              /\ Drop(t, {k})
              /\ UNCHANGED pic
        /\ UNCHANGED <<files, talk, members, rows, shown, icons, announced>>

\* SetAvatar: only once the new picture is the one in use does the old one go.
\* On failure the row is cleared again, and the displaced files are forgotten.
Point(t) ==
    LET u == req[t].who
    IN  /\ At(t, "point")
        /\ \/ /\ u \in members
              /\ shown' = [shown EXCEPT ![u] = req[t].key]
              /\ Drop(t, req[t].held)
           \/ /\ u \notin members \/ Fails("store")
              /\ Goto(t, "unpicture")
              /\ UNCHANGED <<shown, req>>
        /\ UNCHANGED <<files, talk, members, rows, pic, icons, announced>>

\* handleUserUpdate with an empty avatar: UpdateProfile, then ClearProfileMedia.
ClearPicture(t) ==
    \E u \in members :
        /\ Begin(t, "clear", "unpicture", [NoRequest EXCEPT !.who = u])
        /\ shown' = [shown EXCEPT ![u] = NoKey]
        /\ UNCHANGED <<files, talk, members, rows, pic, icons, announced>>

\* ClearProfileMedia reads the rows in one statement and deletes them in another.
ReadHeld(t) ==
    LET k == pic[req[t].who]
    IN  /\ At(t, "unpicture")
        /\ IF k = NoKey THEN Finish(t)
           ELSE /\ req' = [req EXCEPT ![t].held = {k}]
                /\ Goto(t, "clear")
        /\ UNCHANGED <<files, talk, members, rows, pictures, icons, announced>>

ClearMedia(t) ==
    /\ At(t, "clear")
    /\ \/ /\ pic' = [pic EXCEPT ![req[t].who] = NoKey]
          /\ Drop(t, req[t].held)
       \/ Fails("store") /\ Finish(t) /\ UNCHANGED pic
    /\ UNCHANGED <<files, talk, members, rows, shown, icons, announced>>

\* Hub.SetServerIcon: the configuration in memory changes under its mutex ...
SetServerIcon(t) ==
    /\ At(t, "saved") /\ req[t].call = "icon"
    /\ icon' = req[t].key
    /\ req' = [req EXCEPT ![t].held = Real({icon})]
    /\ Goto(t, "saveicon")
    /\ UNCHANGED <<files, talk, members, rows, pictures, savedIcon, announced>>

\* ... and the file outside it.  A failure drops the new picture, which the
\* running configuration goes on naming.
SaveIcon(t) ==
    /\ At(t, "saveicon")
    /\ \/ savedIcon' = req[t].key /\ Drop(t, req[t].held)
       \/ Fails("config") /\ Drop(t, Real({req[t].key})) /\ UNCHANGED savedIcon
    /\ UNCHANGED <<files, talk, members, rows, pictures, icon, announced>>

\* handleServerUpdate taking the icon away.
ClearIcon(t) ==
    /\ Begin(t, "clear", "saveicon", [NoRequest EXCEPT !.held = Real({icon})])
    /\ icon' = NoKey
    /\ UNCHANGED <<files, talk, members, rows, pictures, savedIcon, announced>>

-----------------------------------------------------------------------------
(***************************************************************************)
(* Messages and posts.                                                     *)
(***************************************************************************)

\* Rows of attachments that a deletion of the messages `gone` leaves standing.
Surviving(gone) == [k \in Keys |-> IF row[k] \in gone THEN NoRow ELSE row[k]]

Threaded(p) == {m \in msgs : thread[m] = p}

\* Messages and posts are deleted and the attachment rows go with them, through
\* the cascade; the files are for the handler to remove.
DeleteRows(gone, ended) ==
    /\ msgs' = msgs \ gone
    /\ posts' = posts \ ended
    /\ row' = Surviving(gone)
    /\ UNCHANGED <<written, thread, author, owner>>

\* A client names the uploads of its own that were answered.
Told(u, k) == owner[k] = u /\ \A t \in Threads : req[t].key # k

\* handleMessageSend: a line of the channel, or a comment on a post, naming
\* uploads of its author.  The post is loaded and the channel looked up here.
SendMessage(t) ==
    /\ \E u \in members, ids \in SUBSET Keys, p \in posts \cup {NoMessage} :
        /\ channel
        /\ p = NoMessage => ~plan.posts
        /\ \A k \in ids : Told(u, k)
        /\ Begin(t, "send", "create",
                 [NoRequest EXCEPT !.who = u, !.held = ids, !.msg = p])
    /\ UNCHANGED <<files, talk, members, rows, pictures, icons, announced>>

\* handlePostCreate: the same, for the body of a new post.
CreatePost(t) ==
    /\ \E u \in members, ids \in SUBSET Keys :
        /\ channel /\ plan.posts
        /\ \A k \in ids : Told(u, k)
        /\ Begin(t, "post", "create", [NoRequest EXCEPT !.who = u, !.held = ids])
    /\ UNCHANGED <<files, talk, members, rows, pictures, icons, announced>>

\* CreateMessage, CreatePost and CreateWebhookMessage.  The insert is refused
\* when the channel, the post or the author has gone since.
CreateRow(t) ==
    LET r == req[t]
        m == written + 1
        p == IF r.call = "post" THEN m ELSE r.msg
        possible == /\ channel
                    /\ r.call # "delivery" => r.who \in members
                    /\ r.call = "send" => r.msg \in posts \cup {NoMessage}
    IN  /\ \/ At(t, "create")
           \/ At(t, "saved") /\ r.call = "delivery"
        /\ \/ /\ possible /\ written < plan.messages
              /\ written' = m
              /\ msgs' = msgs \cup {m}
              /\ thread' = [thread EXCEPT ![m] = p]
              /\ posts' = IF r.call = "post" THEN posts \cup {m} ELSE posts
              /\ author' = [author EXCEPT ![m] =
                               IF r.call = "delivery" THEN NoUser ELSE r.who]
              /\ req' = [req EXCEPT ![t].msg = m]
              /\ Goto(t, "reread")
           \/ /\ ~possible \/ Fails("store")
              /\ IF r.call = "delivery" THEN Drop(t, {r.key}) ELSE Finish(t)
              /\ UNCHANGED <<msgs, written, posts, thread, author>>
        /\ UNCHANGED <<files, channel, members, rows, pictures, icons, announced>>

\* MessageByID: one that cannot be read back is not announced, and stays.
RereadRow(t) ==
    LET r == req[t]
    IN  /\ At(t, "reread") /\ r.call # "attach"
        /\ \/ r.msg \in msgs /\ Goto(t, "claim") /\ UNCHANGED req
           \/ /\ r.msg \notin msgs \/ Fails("reply")
              /\ IF r.call = "delivery" THEN Drop(t, {r.key}) ELSE Finish(t)
        /\ UNCHANGED <<files, talk, members, rows, pictures, icons, announced>>

\* wrong: that the file is still pending is not asked.
ClaimableByOwner(k, u) == row[k] # NoRow /\ owner[k] = u

\* ClaimAttachments binds every file named to the message, or none: the checks
\* are part of the update.
Claimable(k, u) == row[k] = Pending /\ owner[k] = u

Claim(t) ==
    LET r == req[t]
        ok == r.held = {} \/ (r.msg \in msgs /\ \A k \in r.held : Claimable(k, r.who))
    IN  /\ At(t, "claim") /\ r.call # "delivery"
        /\ \/ /\ ok
              /\ row' = [k \in Keys |-> IF k \in r.held THEN r.msg ELSE row[k]]
              /\ Goto(t, IF r.held = {} THEN "announce" ELSE "readback")
           \/ /\ ~ok \/ Fails("store")
              /\ Goto(t, "rollback")
              /\ UNCHANGED row
        /\ UNCHANGED <<files, talk, members, owner, pictures, icons, announced, req>>

\* recordWebhookFiles: the row is bound the moment it is written.
Bind(t) ==
    LET r == req[t]
    IN  /\ At(t, "claim") /\ r.call = "delivery"
        /\ \/ /\ r.msg \in msgs
              /\ row' = [row EXCEPT ![r.key] = r.msg]
              /\ Goto(t, "readback")
           \/ /\ r.msg \notin msgs \/ Fails("store")
              /\ Goto(t, "rollback")
              /\ UNCHANGED row
        /\ UNCHANGED <<files, talk, members, owner, pictures, icons, announced, req>>

\* AttachmentsForMessage and AttachmentByID: what was bound is read back for the
\* view that is broadcast.  The row a delivery bound has to be found.
ReadBack(t) ==
    LET r == req[t]
        lost == r.call = "delivery" /\ row[r.key] = NoRow
    IN  /\ At(t, "readback")
        /\ \/ /\ ~lost
              /\ req' = [req EXCEPT ![t].held = Carried(r.msg)]
              /\ Goto(t, "announce")
           \/ /\ lost \/ Fails("reply")
              /\ Goto(t, "rollback")
              /\ UNCHANGED req
        /\ UNCHANGED <<files, talk, members, rows, pictures, icons, announced>>

\* BroadcastChannelEvent(MessageCreated) or PostCreated.
Announce(t) ==
    /\ At(t, "announce")
    /\ announced' = [announced EXCEPT ![req[t].msg] = req[t].held]
    /\ Finish(t)
    /\ UNCHANGED <<files, talk, members, rows, pictures, icons>>

\* A claim that fails takes the message, or the whole post, with it.
Rollback(t) ==
    LET r == req[t]
    IN  /\ At(t, "rollback")
        /\ \/ IF r.call = "post" THEN DeleteRows(Threaded(r.msg), {r.msg})
                              ELSE DeleteRows({r.msg}, {})
           \/ Fails("store") /\ UNCHANGED <<msgs, written, posts, thread, author, rows>>
        /\ IF r.call = "delivery" THEN Drop(t, {r.key}) ELSE Finish(t)
        /\ UNCHANGED <<files, channel, members, pictures, icons, announced>>

\* handleMessageDelete: what the message holds is read while its rows exist.
\* The body of a post is not deleted on its own.
DeleteMessage(t) ==
    /\ \E m \in msgs \ posts :
        Begin(t, "delete", "delete", [NoRequest EXCEPT !.msg = m, !.held = Carried(m)])
    /\ UNCHANGED <<files, talk, members, rows, pictures, icons, announced>>

\* handlePostDelete: the same for the whole thread.
DeletePost(t) ==
    /\ \E p \in posts :
        Begin(t, "deletepost", "delete",
              [NoRequest EXCEPT !.msg = p, !.held = UNION {Carried(m) : m \in Threaded(p)}])
    /\ UNCHANGED <<files, talk, members, rows, pictures, icons, announced>>

\* handleChannelDelete: the same for everything in the channel, pending files too.
DeleteChannel(t) ==
    /\ channel
    /\ Begin(t, "channel", "delete", [NoRequest EXCEPT !.held = Attached])
    /\ UNCHANGED <<files, talk, members, rows, pictures, icons, announced>>

\* The delete itself.  Whoever comes second finds nothing and stops there.
Delete(t) ==
    LET r == req[t]
    IN  /\ At(t, "delete")
        /\ \/ /\ r.call = "delete" /\ r.msg \in msgs
              /\ DeleteRows({r.msg}, {})
              /\ Drop(t, r.held)
              /\ UNCHANGED channel
           \/ /\ r.call = "deletepost" /\ r.msg \in posts
              /\ DeleteRows(Threaded(r.msg), {r.msg})
              /\ Drop(t, r.held)
              /\ UNCHANGED channel
           \/ /\ r.call = "channel" /\ channel
              /\ channel' = FALSE
              /\ DeleteRows(msgs \cup {Pending}, posts)
              /\ Drop(t, r.held)
           \/ /\ CASE r.call = "delete"     -> r.msg \notin msgs
                    [] r.call = "deletepost" -> r.msg \notin posts
                    [] r.call = "channel"    -> ~channel
              /\ Finish(t)
              /\ UNCHANGED <<talk, rows>>
        /\ UNCHANGED <<files, members, pictures, icons, announced>>

-----------------------------------------------------------------------------
(***************************************************************************)
(* Moderation, housekeeping and a restart.                                 *)
(***************************************************************************)

\* A kick or a ban of u: with the content written since some moment, or
\* without.  req.msg is the first message of that window.
Purge(t) ==
    /\ \E u \in members :
        \/ Begin(t, "purge", "forget", [NoRequest EXCEPT !.who = u])
        \/ \E since \in msgs :
              Begin(t, "purge", "purge", [NoRequest EXCEPT !.who = u, !.msg = since])
    /\ UNCHANGED <<files, talk, members, rows, pictures, icons, announced>>

ByTarget(t, ms) == {m \in ms : m >= req[t].msg /\ author[m] = req[t].who}

\* DeletePostsByUser, whole threads.  No file is removed.
PurgePosts(t) ==
    LET ended == ByTarget(t, posts)
    IN  /\ At(t, "purge")
        /\ \/ DeleteRows(UNION {Threaded(p) : p \in ended}, ended)
           \/ Fails("store") /\ UNCHANGED <<msgs, written, posts, thread, author, rows>>
        /\ Goto(t, "unsay")
        /\ UNCHANGED <<files, channel, members, pictures, icons, announced, req>>

\* DeleteMessagesByUser, as little concerned with files.
PurgeMessages(t) ==
    /\ At(t, "unsay")
    /\ \/ DeleteRows(ByTarget(t, msgs), {})
       \/ Fails("store") /\ UNCHANGED <<msgs, written, posts, thread, author, rows>>
    /\ Goto(t, "forget")
    /\ UNCHANGED <<files, channel, members, pictures, icons, announced, req>>

\* DeleteUser: what the user wrote and uploaded stays, without an owner; the
\* picture rows go, without their files.
ForgetUser(t) ==
    LET u == req[t].who
        disown(f) == [x \in DOMAIN f |-> IF f[x] = u THEN NoUser ELSE f[x]]
    IN  /\ At(t, "forget")
        /\ \/ /\ members' = members \ {u}
              /\ author' = disown(author) /\ owner' = disown(owner)
              /\ pic' = [pic EXCEPT ![u] = NoKey]
              /\ shown' = [shown EXCEPT ![u] = NoKey]
           \/ Fails("store") /\ UNCHANGED <<members, author, owner, pictures>>
        /\ Finish(t)
        /\ UNCHANGED <<files, channel, msgs, written, posts, thread, row, icons, announced>>

\* sweepOnce, PendingAttachmentsBefore: of the uploads still pending, those that
\* are old enough.
Sweep(t) ==
    /\ \E stale \in (SUBSET {k \in Keys : row[k] = Pending}) \ {{}} :
        Begin(t, "sweep", "sweep", [NoRequest EXCEPT !.stale = stale])
    /\ UNCHANGED <<files, talk, members, rows, pictures, icons, announced>>

\* DeleteAttachment, by id alone: whether a message has claimed the file since
\* is not asked.
Sweepable(k) == row[k] # NoRow

SweepNext(t) ==
    LET k == Min(req[t].stale)
        rest == req[t].stale \ {k}
    IN  /\ At(t, "sweep")
        /\ \/ /\ Sweepable(k)
              /\ row' = [row EXCEPT ![k] = NoRow]
              /\ req' = [req EXCEPT ![t].stale = rest, ![t].held = {k}]
              /\ Goto(t, "unlink")
           \/ /\ ~Sweepable(k) \/ Fails("store")
              /\ IF rest = {} THEN Finish(t)
                 ELSE req' = [req EXCEPT ![t].stale = rest] /\ Goto(t, "sweep")
              /\ UNCHANGED row
        /\ UNCHANGED <<files, talk, members, owner, pictures, icons, announced>>

\* wrong: one of the tables is forgotten.
KeptAttachments == Attached \cup Real({savedIcon})

\* The files something names: what sweepOrphanedFiles keeps.
Kept == Attached \cup Pictures \cup Real({savedIcon})

\* A crash, and the next start.  NewHub counts what is named; before the
\* listener is up the files nothing names are removed, unless they are young,
\* and an icon whose file is gone is forgotten.
Restart ==
    /\ restarts < plan.restarts
    /\ restarts' = restarts + 1
    /\ used' = Bytes(Attached) + Bytes(Pictures) + Bytes(Real({savedIcon}))
    /\ \E young \in SUBSET (disk \ Kept) : disk' = (disk \cap Kept) \cup young
    /\ savedIcon' = IF savedIcon \in disk' THEN savedIcon ELSE NoKey
    /\ icon' = savedIcon'
    /\ pc' = [t \in Threads |-> "idle"]
    /\ req' = [t \in Threads |-> NoRequest]
    /\ UNCHANGED <<size, minted, talk, members, rows, pictures, announced, requests>>

-----------------------------------------------------------------------------

Step(t) ==
    \/ Upload(t) \/ WriteFile(t) \/ GiveBack(t) \/ Settle(t) \/ Recheck(t)
    \/ Unlink(t) \/ Refund(t)
    \/ Record(t) \/ RereadFile(t) \/ Replace(t) \/ Point(t) \/ ReadHeld(t) \/ ClearMedia(t)
    \/ SetServerIcon(t) \/ SaveIcon(t) \/ ClearPicture(t) \/ ClearIcon(t)
    \/ SendMessage(t) \/ CreatePost(t) \/ CreateRow(t) \/ RereadRow(t)
    \/ Claim(t) \/ Bind(t) \/ ReadBack(t) \/ Announce(t) \/ Rollback(t)
    \/ DeleteMessage(t) \/ DeletePost(t) \/ DeleteChannel(t) \/ Delete(t)
    \/ Purge(t) \/ PurgePosts(t) \/ PurgeMessages(t) \/ ForgetUser(t)
    \/ Sweep(t) \/ SweepNext(t)

Next ==
    /\ UNCHANGED plan
    /\ Restart \/ \E t \in Threads : Step(t)

Spec == Init /\ [][Next]_vars

-----------------------------------------------------------------------------
(***************************************************************************)
(* Properties.                                                             *)
(***************************************************************************)

Idle == \A t \in Threads : At(t, "idle")
Named == Attached \cup Pictures \cup Real({icon})

\* What names a file can be downloaded: the row of an attachment, the picture of
\* a user and the icon outlive no bytes, in any interleaving and through any
\* crash.  Rows are written after the bytes and removed before them.  A reply that is
\* lost and a configuration that cannot be written are excepted, see the README.
NamedAreThere == Named \subseteq disk

RowsHaveBytes == plan.failures \cap {"reply", "config"} = {} => NamedAreThere

\* A file is on one message only: what two messages were announced with is
\* disjoint, however many sends name the same upload at once.
PostedOnce ==
    \A m1, m2 \in Messages : m1 # m2 => announced[m1] \cap announced[m2] = {}

\* The ceiling on what is stored is never passed on the disk itself, as long as no
\* body overruns, nothing crashes, and no file is removed by two handlers at once.
NeverOvershoots ==
    plan.overrun = 0 /\ plan.restarts = 0 /\ plan.failures \subseteq {"disk"}
        /\ plan.calls \subseteq {"attach", "send", "delete", "picture"}
    => Bytes(disk) <= plan.total

\* Where requests come one after the other, the counter of the quota is between them
\* exactly what the named files take, also after a crash at any step.  Before the first
\* crash no file is there unnamed either, and the picture a user points at is the one
\* that is theirs.  A purge deletes rows and leaves files.
Balanced ==
    plan.inFlight = 1 /\ plan.failures = {} /\ "purge" \notin plan.calls /\ Idle =>
        /\ used = Bytes(Named)
        /\ restarts = 0 => Named = disk /\ shown = pic

QuotaHolds == NeverOvershoots /\ Balanced

\* A file announced with a message stays with it for as long as the message.
PostedFilesStay ==
    \A m \in msgs : announced[m] \subseteq Carried(m)
==============================================================================
