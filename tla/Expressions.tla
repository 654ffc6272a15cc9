------------------------------- MODULE Expressions -------------------------------
(***************************************************************************)
(* The emoji, the stickers and the sounds of a server: the table and the   *)
(* files behind it, the copy the hub answers from, and what the clients of *)
(* those connected show.  Every query is a step, and so is the replacement *)
(* of the hub's copy; a client that comes in is registered in one step and *)
(* given its snapshot in a second.                                         *)
(***************************************************************************)
EXTENDS Naturals, FiniteSets

CONSTANTS
    Plans, \* who is there, what is held and what may happen
    Limit  \* how many of a kind the configuration allows

VARIABLES
    plan,
    left,   \* what may still happen, by kind
    rows,   \* expressions and sounds, by id: only the rows that are there
    last,   \* how many ids, and how many keys, have been given out
    disk,   \* the keys of the files that are there
    cache,  \* Hub.expressions and Hub.sounds, each replaced as a whole
    req,    \* per person, the request that is answered
    online, \* per person: "off", "in" the hub, or "on" with a snapshot
    shown   \* what each client shows, by id

vars == <<plan, left, rows, last, disk, cache, req, online, shown>>

People == plan.people
Tables == {"pictures", "sounds"}
TableOf(kind) == IF kind = "sound" THEN "sounds" ELSE "pictures"
Free == [at |-> "free", op |-> "none", id |-> 0, key |-> 0, row |-> <<>>, list |-> <<>>]

Spend(kind) == left[kind] > 0 /\ left' = [left EXCEPT ![kind] = @ - 1]
With(f, k, v) == [x \in DOMAIN f \cup {k} |-> IF x = k THEN v ELSE f[x]]
Without(f, k) == [x \in DOMAIN f \ {k} |-> f[x]]
At(p, at) == req[p].at = at
Ask(p, r) == At(p, "free") /\ req' = [req EXCEPT ![p] = r]
Move(p, at) == req' = [req EXCEPT ![p].at = at]
Done(p) == req' = [req EXCEPT ![p] = Free]

\* One at a time, where the plan says so.
Turn(p) == p \in plan.managers /\ (plan.turns => \A q \in People : At(q, "free"))

\* AllExpressions, AllSounds
Held(table) == [id \in {i \in DOMAIN rows : TableOf(rows[i].kind) = table} |-> rows[id]]
\* CountExpressions, CountSounds
Count(kind) == Cardinality({id \in DOMAIN rows : rows[id].kind = kind})
\* idx_expressions_name; sounds may share one.
NameFree(id, kind, name) ==
    kind = "sound" \/ \A other \in DOMAIN rows \ {id} : rows[other].kind = kind => rows[other].name # name
\* expressionView, soundView
View(row) == [kind |-> row.kind, name |-> row.name, volume |-> row.volume]

---------------------------------------------------------------------------
(* Uploading one.                                                           *)

\* uploadExpression, handleSoundUploadHTTP: to the ceiling.
Upload(p) ==
    /\ Spend("upload") /\ Turn(p)
    /\ \E kind \in plan.kinds, name \in plan.names :
        /\ Count(kind) < Limit
        /\ Ask(p, [Free EXCEPT !.at = "store", !.op = "create",
                               !.row = [kind |-> kind, name |-> name, volume |-> 100, key |-> 0]])
    /\ UNCHANGED <<plan, rows, last, disk, cache, online, shown>>

\* SaveWithLimit: too large, or no room, and nothing is kept.
Store(p, fits) ==
    /\ At(p, "store") /\ (~fits => plan.faults)
    /\ IF ~fits THEN Done(p) /\ UNCHANGED <<last, disk>>
       ELSE LET key == last.key + 1
            IN  /\ last' = [last EXCEPT !.key = key] /\ disk' = disk \cup {key}
                /\ req' = [req EXCEPT ![p].at = IF req[p].row.kind = "sound" THEN "measure" ELSE "insert",
                                      ![p].row.key = key]
    /\ UNCHANGED <<plan, left, rows, cache, online, shown>>

\* A clip is measured on the disk, and taken off again if it is no WAV or too long.
Measure(p, short) ==
    /\ At(p, "measure") /\ (~short => plan.faults)
    /\ IF short THEN Move(p, "insert") /\ UNCHANGED disk ELSE Done(p) /\ disk' = disk \ {req[p].row.key}
    /\ UNCHANGED <<plan, left, rows, last, cache, online, shown>>

\* Without a row the bytes are unreferenced and go back.
Unreferenced(key) == disk \ {key}

\* CreateExpression, CreateSound
Insert(p) ==
    /\ At(p, "insert")
    /\ LET row == req[p].row
           id == last.id + 1
       IN  IF NameFree(0, row.kind, row.name)
           THEN /\ rows' = With(rows, id, row) /\ last' = [last EXCEPT !.id = id] /\ UNCHANGED disk
                /\ req' = [req EXCEPT ![p].at = "list", ![p].id = id]
           ELSE Done(p) /\ disk' = Unreferenced(row.key) /\ UNCHANGED <<rows, last>>
    /\ UNCHANGED <<plan, left, cache, online, shown>>

---------------------------------------------------------------------------
(* Changing one, and removing one.                                          *)

\* What is asked for is there, and what is not asked to change stays as it was read.
Change(p) ==
    /\ Spend("change") /\ Turn(p)
    /\ \E id \in DOMAIN rows, name \in plan.names, volume \in plan.volumes :
        /\ rows[id].kind # "sound" => volume = rows[id].volume
        /\ Ask(p, [Free EXCEPT !.at = "write", !.op = "update", !.id = id,
                               !.row = [rows[id] EXCEPT !.name = name, !.volume = volume]])
    /\ UNCHANGED <<plan, rows, last, disk, cache, online, shown>>

\* RenameExpression, UpdateSound: the row must be there, and the name free.
Write(p) ==
    /\ At(p, "write")
    /\ LET r == req[p]
       IN  IF r.id \in DOMAIN rows /\ NameFree(r.id, r.row.kind, r.row.name)
           THEN rows' = [rows EXCEPT ![r.id] = r.row] /\ Move(p, "reread")
           ELSE UNCHANGED rows /\ Done(p)
    /\ UNCHANGED <<plan, left, last, disk, cache, online, shown>>

Reread(p) ==
    /\ At(p, "reread")
    /\ IF req[p].id \in DOMAIN rows THEN req' = [req EXCEPT ![p].at = "list", ![p].row = rows[req[p].id]] ELSE Done(p)
    /\ UNCHANGED <<plan, left, rows, last, disk, cache, online, shown>>

\* DeleteExpression, DeleteSound: what goes is read first, for its file.
Delete(p) ==
    /\ Spend("delete") /\ Turn(p)
    /\ \E id \in DOMAIN rows :
        Ask(p, [Free EXCEPT !.at = "remove", !.op = "delete", !.id = id, !.row = rows[id]])
    /\ UNCHANGED <<plan, rows, last, disk, cache, online, shown>>

Remove(p) ==
    /\ At(p, "remove")
    /\ IF req[p].id \in DOMAIN rows THEN rows' = Without(rows, req[p].id) /\ Move(p, "unlink")
       ELSE UNCHANGED rows /\ Done(p)
    /\ UNCHANGED <<plan, left, last, disk, cache, online, shown>>

Unlink(p) ==
    /\ At(p, "unlink") /\ disk' = disk \ {req[p].row.key} /\ Move(p, "list")
    /\ UNCHANGED <<plan, left, rows, last, cache, online, shown>>

---------------------------------------------------------------------------
(* After every write: the hub's copy, then everybody.                       *)

\* ReloadExpressions, ReloadSounds: the table is read,
List(p) ==
    /\ At(p, "list") /\ req' = [req EXCEPT ![p].at = "install", ![p].list = Held(TableOf(req[p].row.kind))]
    /\ UNCHANGED <<plan, left, rows, last, disk, cache, online, shown>>

\* wrong: the copy is not replaced
Forgotten(p) == cache[TableOf(req[p].row.kind)]
\* and put in the place of the old copy.
Copy(p) == req[p].list

Install(p) ==
    /\ At(p, "install") /\ cache' = [cache EXCEPT ![TableOf(req[p].row.kind)] = Copy(p)] /\ Move(p, "tell")
    /\ UNCHANGED <<plan, left, rows, last, disk, online, shown>>

\* Broadcast: a client without its snapshot has nothing to change yet.
Tell(p) ==
    /\ At(p, "tell") /\ Done(p)
    /\ LET r == req[p]
       IN  shown' = [q \in People |-> IF online[q] # "on" THEN shown[q]
                                      ELSE IF r.op = "delete" THEN Without(shown[q], r.id)
                                      ELSE With(shown[q], r.id, View(r.row))]
    /\ UNCHANGED <<plan, left, rows, last, disk, cache, online>>

---------------------------------------------------------------------------
(* Coming in.                                                               *)

\* Hub.Add
Enter(p) ==
    /\ Spend("enter") /\ online[p] = "off" /\ online' = [online EXCEPT ![p] = "in"]
    /\ UNCHANGED <<plan, rows, last, disk, cache, req, shown>>

\* SortedExpressions, SortedSounds, as buildReady reads them.
Snapshot == [id \in DOMAIN cache["pictures"] \cup DOMAIN cache["sounds"] |->
                View(IF id \in DOMAIN cache["pictures"] THEN cache["pictures"][id] ELSE cache["sounds"][id])]

Ready(p) ==
    /\ online[p] = "in" /\ online' = [online EXCEPT ![p] = "on"] /\ shown' = [shown EXCEPT ![p] = Snapshot]
    /\ UNCHANGED <<plan, left, rows, last, disk, cache, req>>

---------------------------------------------------------------------------

Init ==
    /\ plan \in Plans /\ left = plan.left /\ rows = plan.rows
    /\ last = [id |-> Cardinality(DOMAIN plan.rows), key |-> Cardinality(DOMAIN plan.rows)]
    /\ disk = {plan.rows[id].key : id \in DOMAIN plan.rows}
    /\ cache = [t \in Tables |-> Held(t)] /\ req = [p \in plan.people |-> Free]
    /\ online = plan.online
    /\ shown = [p \in plan.people |-> IF plan.online[p] = "on" THEN Snapshot ELSE <<>>]

Step(p) ==
    \/ Upload(p) \/ (\E ok \in BOOLEAN : Store(p, ok) \/ Measure(p, ok)) \/ Insert(p)
    \/ Change(p) \/ Write(p) \/ Reread(p) \/ Delete(p) \/ Remove(p) \/ Unlink(p)
    \/ List(p) \/ Install(p) \/ Tell(p) \/ Enter(p) \/ Ready(p)

Next == \E p \in People : Step(p)

Quiet == \A p \in People : At(p, "free")

---------------------------------------------------------------------------
(* Properties.                                                              *)

TypeOK ==
    /\ DOMAIN rows \subseteq 1..last.id /\ disk \subseteq 1..last.key
    /\ \A t \in Tables : \A id \in DOMAIN cache[t] : id \in 1..last.id /\ TableOf(cache[t][id].kind) = t
    /\ \A p \in People : online[p] # "on" => shown[p] = <<>>
    /\ \A i, j \in DOMAIN rows : i # j => rows[i].key # rows[j].key

\* Whoever uploads, renames and removes at once, no row is left without its file, and when all are done
\* no file without its row.
FilesAreRows ==
    LET named == {rows[id].key : id \in DOMAIN rows}
    IN  named \subseteq disk /\ (Quiet => disk = named)

\* One change at a time, and everybody shows the table as it is: those who were there, and those who came
\* in while it was being changed.
NobodyMisses ==
    plan.turns /\ Quiet => \A p \in People : online[p] = "on" => shown[p] = [id \in DOMAIN rows |-> View(rows[id])]

\* The hub's copy is the answer the query would have given, whenever nobody is at work.
CopyIsTable == Quiet => \A t \in Tables : cache[t] = Held(t)

\* What is held to begin with is numbered from one, and each has a file of its own.
PlansFit ==
    \A pl \in Plans :
        LET ids == DOMAIN pl.rows
        IN  /\ IsFiniteSet(ids) /\ ids = 1..Cardinality(ids) /\ pl.managers \subseteq pl.people /\ DOMAIN pl.online = pl.people
            /\ \A id \in ids : DOMAIN pl.rows[id] = {"kind", "name", "volume", "key"} /\ pl.rows[id].key \in ids
            /\ \A i, j \in ids : pl.rows[i].key = pl.rows[j].key => i = j

Spec == Init /\ [][Next]_vars
================================================================================
