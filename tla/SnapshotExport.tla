---------------------------- MODULE SnapshotExport ----------------------------
(***************************************************************************)
(* Capturing and exporting a conversation that Codex is still using         *)
(* (session/inspect.go, snapshot.go, rollout.go, home.go, sqlite.go and the *)
(* sending half of stream.go).                                              *)
(*                                                                         *)
(* The exporter takes no lock.  It reads the selection, lists the two       *)
(* session directories one after the other, opens every rollout of the      *)
(* lineage, reads the selection again, and then streams what it captured    *)
(* from the descriptors it kept.  Meanwhile Codex appends, archives,        *)
(* compresses, migrates and reverts.  Content is abstracted to a number of  *)
(* records and a version; a file rewritten in place has a new version, and  *)
(* a read can be torn between two of them.                                  *)
(***************************************************************************)
EXTENDS Integers, Sequences, FiniteSets, FiniteSetsExt

CONSTANTS
    MaxLen,     \* bound on the records of a rollout
    MaxEvents   \* bound on the steps of Codex

ASSUME ConstantsAssumption ==
    /\ MaxLen \in Nat /\ MaxLen >= 2
    /\ MaxEvents \in Nat

\* Rollout 1 belongs to another thread, from which rollout 2 was forked.
\* Rollout 3 is a revert of the conversation of rollout 2.
Rollout == 1..3
Thread == {2, 3}
Area == {"sessions", "archived", "prerequisite"}
Path == [area : Area, r : Rollout, zst : BOOLEAN]
Inode == 1..(4 + MaxEvents)

Plain(a, r) == [area |-> a, r |-> r, zst |-> FALSE]

NoFile == [len |-> 0, ver |-> 0, tail |-> FALSE]
NoBase == [r |-> 0, len |-> 0]
NoSelection == [r |-> 0, area |-> "sessions"]

VARIABLES
    inode,    \* contents: complete records, version, an unfinished record
    dir,      \* the inode at each path; 0 is none
    base,     \* the inherited history in each rollout's metadata
    sel,      \* the thread's row in the state database
    owed,     \* steps of a native operation that is under way
    events,
    pc,       \* control point of the exporter
    selected, \* the selection it read first
    found,    \* its inventory
    todo,     \* representations of the current rollout not captured yet
    end,      \* the inherited boundary it reads up to; NoBase for none
    cur,      \* the descriptor being read
    plan,     \* captured files, requested conversation first
    stream,   \* what was sent, prerequisites first
    saved,    \* what the conversation has been since the exporter began
    rows,     \* the rollouts the row has named while it was captured
    during,   \* what Codex did while the snapshot was captured
    later     \* what Codex did while it was exported

source == <<inode, dir, base, sel, owed, events>>
capture == <<selected, found, todo, end, cur, plan>>
history == <<saved, rows, during, later>>

vars == <<source, pc, capture, stream, history>>

NoDescriptor == [ino |-> 0, path |-> Plain("sessions", 1), size |-> 0, first |-> 0]

\* Inodes are taken in order.
FreeInode == CHOOSE i \in Inode : inode[i] = NoFile /\ \A j \in 1..(i - 1) : inode[j] # NoFile

Live(r) == {p \in Path : p.r = r /\ p.area # "prerequisite" /\ dir[p] # 0}

-----------------------------------------------------------------------------
Init ==
    /\ \E m \in {0, MaxLen - 1}, b \in {1, MaxLen - 1} :
        /\ inode = [i \in Inode |->
              CASE i = 1 -> [len |-> MaxLen - 1, ver |-> 1, tail |-> TRUE]
                [] i = 2 -> [len |-> m, ver |-> 1, tail |-> m = 0]
                [] i = 3 -> [len |-> b, ver |-> 1, tail |-> FALSE]
                [] i = 4 -> [len |-> 1, ver |-> 1, tail |-> FALSE]
                [] OTHER -> NoFile]
        /\ base = [r \in Rollout |->
              IF r = 2 THEN [r |-> 1, len |-> b] ELSE NoBase]
    \* The parent is live, or only its imported prefix is here, or both; the
    \* conversation may itself have been imported as a prerequisite.
    /\ \E parent \in {{1}, {3}, {1, 3}}, copy \in BOOLEAN :
        dir = [p \in Path |->
              CASE p = Plain("sessions", 1) /\ 1 \in parent -> 1
                [] p = Plain("prerequisite", 1) /\ 3 \in parent -> 3
                [] p = Plain("sessions", 2) -> 2
                [] p = Plain("prerequisite", 2) /\ copy -> 4
                [] OTHER -> 0]
    /\ sel \in {NoSelection, [r |-> 2, area |-> "sessions"]}
    /\ owed = "nothing"
    /\ events = 0
    /\ pc = "idle"
    /\ selected = NoSelection
    /\ found = {}
    /\ todo = {}
    /\ end = NoBase
    /\ cur = NoDescriptor
    /\ plan = <<>>
    /\ stream = <<>>
    /\ saved = {}
    /\ rows = {}
    /\ during = {}
    /\ later = {}

-----------------------------------------------------------------------------
(* Codex.  Every step may fall between any two steps of the exporter.      *)

\* The kind of a step is noted for the phase the exporter is in.
Note(kind) ==
    /\ events < MaxEvents
    /\ events' = events + 1
    /\ IF pc \in {"export", "copying"} THEN later' = later \cup {kind} /\ UNCHANGED during
       ELSE during' = during \cup {kind} /\ UNCHANGED later
    /\ UNCHANGED <<pc, capture, stream>>

\* A record is written; the exporter may see it half written.
AppendRecord ==
    /\ Note("append")
    /\ owed = "nothing"
    /\ \E p \in {q \in Path : ~q.zst /\ q.area = "sessions" /\ dir[q] # 0} :
        LET f == inode[dir[p]] IN
        /\ f.len < MaxLen
        /\ inode' = [inode EXCEPT ![dir[p]] =
              IF f.tail THEN [f EXCEPT !.len = @ + 1, !.tail = FALSE]
              ELSE [f EXCEPT !.tail = TRUE]]
    /\ UNCHANGED <<dir, base, sel, owed>>

\* The conversation is archived or restored: the file moves, the row follows.
Move ==
    /\ Note("move")
    /\ owed = "nothing"
    /\ \E p \in UNION {Live(r) : r \in Thread} :
        LET q == [p EXCEPT !.area = IF @ = "sessions" THEN "archived" ELSE "sessions"]
        IN dir' = [dir EXCEPT ![p] = 0, ![q] = dir[p]]
    /\ owed' = "select"
    /\ UNCHANGED <<inode, base, sel>>

\* Cold history is compressed next to the original, which is then removed.
Compress ==
    /\ Note("compress")
    /\ owed = "nothing"
    /\ \E p \in Path :
        /\ ~p.zst /\ p.area # "prerequisite" /\ dir[p] # 0
        /\ inode[dir[p]].len > 0 /\ ~inode[dir[p]].tail
        /\ inode' = [inode EXCEPT ![FreeInode] = inode[dir[p]]]
        /\ dir' = [dir EXCEPT ![[p EXCEPT !.zst = TRUE]] = FreeInode]
    /\ owed' = "unlink"
    /\ UNCHANGED <<base, sel>>

Unlink ==
    /\ Note("compress")
    /\ owed = "unlink"
    /\ dir' = [p \in Path |->
          IF ~p.zst /\ dir[[p EXCEPT !.zst = TRUE]] # 0 THEN 0 ELSE dir[p]]
    /\ owed' = "nothing"
    /\ UNCHANGED <<inode, base, sel>>

\* A migration replaces a rollout by a new file, or rewrites it in place.  It
\* keeps what other rollouts inherit.
Migrate ==
    /\ owed = "nothing"
    /\ \E p \in Path, len \in 1..MaxLen :
        LET new == [len |-> len, ver |-> events + 2, tail |-> FALSE] IN
        /\ ~p.zst /\ p.area # "prerequisite" /\ dir[p] # 0
        /\ \A r \in Rollout : base[r].r = p.r => base[r].len <= len
        /\ \/ /\ Note("rewrite")
              /\ inode' = [inode EXCEPT ![dir[p]] = new]
              /\ UNCHANGED dir
           \/ /\ Note("replace")
              /\ inode' = [inode EXCEPT ![FreeInode] = new]
              /\ dir' = [dir EXCEPT ![p] = FreeInode]
    /\ UNCHANGED <<base, sel, owed>>

\* A revert starts a new rollout that inherits part of the old one.
Revert ==
    /\ Note("create")
    /\ owed = "nothing"
    /\ Live(3) = {}
    /\ \E p \in Live(2) :
        /\ inode[dir[p]].len > 0
        /\ \E len \in 1..inode[dir[p]].len :
              base' = [base EXCEPT ![3] = [r |-> 2, len |-> len]]
    /\ inode' = [inode EXCEPT ![FreeInode] = [len |-> 1, ver |-> 1, tail |-> FALSE]]
    /\ dir' = [dir EXCEPT ![Plain("sessions", 3)] = FreeInode]
    /\ owed' = "select"
    /\ UNCHANGED sel

\* The row is written: the newest live rollout of the thread, where it is now.
Select ==
    /\ Note("select")
    /\ owed \in {"select", "nothing"}
    /\ \E r \in Thread :
        /\ Live(r) # {} /\ (r = 2 => Live(3) = {})
        /\ \E p \in Live(r) : sel' = [r |-> r, area |-> p.area]
    /\ sel' # sel
    /\ owed' = "nothing"
    /\ UNCHANGED <<inode, dir, base>>

Native == AppendRecord \/ Move \/ Compress \/ Unlink \/ Migrate \/ Revert \/ Select

-----------------------------------------------------------------------------
(* inspect: selection, inventory, lineage.                                 *)

Goto(point) == pc' = point /\ UNCHANGED <<source, stream, during, later>>

Fail(point) == Goto(point) /\ UNCHANGED capture

\* The first read of the selection.
ReadSelection ==
    /\ pc = "idle"
    /\ pc' = "archived"
    /\ selected' = sel
    /\ during' = (during \cap {"replace", "rewrite"})
                   \cup (IF owed = "nothing" THEN {} ELSE {"under way"})
    /\ UNCHANGED <<source, stream, later, found, todo, end, cur, plan>>

\* inventory lists archived_sessions, with the prerequisites, then sessions.
ListArchived ==
    /\ pc = "archived"
    /\ found' = {p \in Path : p.area # "sessions" /\ dir[p] # 0}
    /\ Goto("sessions")
    /\ UNCHANGED <<selected, todo, end, cur, plan>>

\* Mutant of MainCandidates: an imported prefix is a conversation as well.
MainCandidatesWithPrefixes(paths) ==
    IF selected = NoSelection
    THEN {p \in paths : p.r \in Thread}
    ELSE {p \in paths : p.r = selected.r /\ p.area = selected.area}

\* The selected file in either representation; without a selection, whatever
\* belongs to the thread and is more than an inherited prefix.
MainCandidates(paths) ==
    IF selected = NoSelection
    THEN {p \in paths : p.r \in Thread /\ p.area # "prerequisite"}
    ELSE {p \in paths : p.r = selected.r /\ p.area = selected.area}

\* Nothing found, or several rollouts and nothing to choose between them.
ListSessions ==
    /\ pc = "sessions"
    /\ LET paths == found \cup {p \in Path : p.area = "sessions" /\ dir[p] # 0}
           main == MainCandidates(paths) IN
       IF Cardinality({p.r : p \in main}) # 1 THEN Fail("refused")
       ELSE /\ found' = paths
            /\ todo' = main
            /\ Goto("open")
            /\ UNCHANGED <<selected, end, cur, plan>>

\* inventory sorts by path, and a plain name is a prefix of the compressed one.
Position(p) ==
    CASE p.area = "prerequisite" -> 1
      [] p.area = "archived" -> IF p.zst THEN 3 ELSE 2
      [] p.area = "sessions" -> IF p.zst THEN 5 ELSE 4

\* Mutant of Unreadable: a conversation with no saved record is captured.
UnreadableIfMissing(p) == dir[p] = 0

\* The file is gone, it has no complete record yet, or it ends before the
\* inherited boundary.
Unreadable(p) ==
    \/ dir[p] = 0
    \/ inode[dir[p]].len = 0
    \/ end # NoBase /\ inode[dir[p]].len < end.len

\* The descriptor is kept; the size and its last record boundary are fixed
\* before the first read.  An unfinished record is not part of the copy.
Open ==
    /\ pc = "open"
    /\ todo # {}
    /\ \E p \in todo :
        /\ \A q \in todo : Position(p) <= Position(q)
        /\ todo' = todo \ {p}
        /\ IF Unreadable(p)
           THEN Goto("refused") /\ UNCHANGED <<selected, found, end, cur, plan>>
           ELSE /\ cur' = [ino |-> dir[p], path |-> p, first |-> 0,
                           size |-> IF end = NoBase THEN inode[dir[p]].len
                                    ELSE end.len]
                /\ Goto("readFirst")
                /\ UNCHANGED <<selected, found, end, plan>>

\* Session metadata is the first record.
ReadFirst ==
    /\ pc = "readFirst"
    /\ cur' = [cur EXCEPT !.first = inode[cur.ino].ver]
    /\ Goto("readRest")
    /\ UNCHANGED <<selected, found, todo, end, plan>>

\* The versions in a read of len records that began with cur.first.
Rest(len, f) == IF len = 1 THEN cur.first ELSE f.ver

\* What was read: a file that shrank ends where it now ends.
Captured ==
    LET f == inode[cur.ino]
        n == Min({cur.size, f.len}) IN
    [r |-> cur.path.r, ino |-> cur.ino, len |-> n, first |-> cur.first,
     rest |-> Rest(n, f), zst |-> cur.path.zst, prefix |-> end # NoBase]

\* Another representation of the same rollout was captured before this one.
Known == plan # <<>> /\ plan[Len(plan)].r = cur.path.r

Same(a, b) == a.len = b.len /\ a.first = b.first /\ a.rest = b.rest

\* The boundary of inherited history must be met exactly, and representations
\* of one rollout must agree.  The first one is kept.
ReadRest ==
    /\ pc = "readRest"
    /\ IF \/ end # NoBase /\ Captured.len # end.len
          \/ inode[cur.ino].tail /\ inode[cur.ino].len < cur.size
          \/ Known /\ ~Same(plan[Len(plan)], Captured)
       THEN Fail("refused")
       ELSE /\ plan' = IF Known THEN plan ELSE Append(plan, Captured)
            /\ Goto(IF todo # {} THEN "open" ELSE "lineage")
            /\ UNCHANGED <<selected, found, todo, end, cur>>

\* Mutant of Lineage: an ancestor is captured as it is, not up to the cutoff.
LineageWhole ==
    /\ pc = "lineage"
    /\ LET b == base[plan[Len(plan)].r]
           next == {p \in found : p.r = b.r} IN
       IF b = NoBase
       THEN Goto("recheck") /\ UNCHANGED capture
       ELSE IF next = {} THEN Fail("refused")
       ELSE /\ todo' = next
            /\ Goto("open")
            /\ UNCHANGED <<selected, found, end, cur, plan>>

\* Follow the inherited history, in the inventory made at the beginning.
Lineage ==
    /\ pc = "lineage"
    /\ LET b == base[plan[Len(plan)].r]
           next == {p \in found : p.r = b.r} IN
       IF b = NoBase
       THEN Goto("recheck") /\ UNCHANGED capture
       ELSE IF next = {} THEN Fail("refused")
       ELSE /\ end' = b
            /\ todo' = next
            /\ Goto("open")
            /\ UNCHANGED <<selected, found, cur, plan>>

\* Mutant of SelectionHolds: the selection is not read again.
SelectionHoldsAlways == TRUE

\* The second read of the selection finds what the first one found.
SelectionHolds == sel = selected

Recheck ==
    /\ pc = "recheck"
    /\ Fail(IF SelectionHolds THEN "export" ELSE "refused")

-----------------------------------------------------------------------------
(* Export: prerequisites first, from the descriptors of the snapshot.      *)

Sending == plan[Len(plan) - Len(stream)]

\* The header promises the captured size; hashing starts over.
CopyFirst ==
    /\ pc = "export"
    /\ Len(stream) < Len(plan)
    /\ cur' = [cur EXCEPT !.first = inode[Sending.ino].ver]
    /\ Goto("copying")
    /\ UNCHANGED <<selected, found, todo, end, plan>>

\* Mutant of Verified: the hash of what was sent is not compared.
VerifiedBySize(f) == inode[f.ino].len >= f.len

\* All bytes were there and hash to what was captured; a compressed file also
\* ends there.
Verified(f) ==
    /\ inode[f.ino].len >= f.len
    /\ cur.first = f.first
    /\ Rest(f.len, inode[f.ino]) = f.rest
    /\ f.zst /\ ~f.prefix => inode[f.ino].len = f.len

CopyRest ==
    /\ pc = "copying"
    /\ IF Verified(Sending)
       THEN /\ pc' = "export"
            /\ stream' = Append(stream,
                  [r |-> Sending.r, len |-> Sending.len, first |-> cur.first,
                   rest |-> Rest(Sending.len, inode[Sending.ino])])
       ELSE pc' = "aborted" /\ UNCHANGED stream
    /\ UNCHANGED <<source, capture, during, later>>

\* Every file was verified: the completion record follows.
Complete ==
    /\ pc = "export"
    /\ Len(stream) = Len(plan)
    /\ Fail("completed")

Ended == pc \in {"completed", "refused", "aborted"}

Exporter ==
    \/ ReadSelection \/ ListArchived \/ ListSessions \/ Open \/ ReadFirst
    \/ ReadRest \/ Lineage \/ Recheck \/ CopyFirst \/ CopyRest \/ Complete

-----------------------------------------------------------------------------
\* What the thread's conversation is: the saved records of its rollout.
Conversation ==
    LET rollouts == IF sel = NoSelection THEN Thread ELSE {sel.r} IN
    {[r |-> p.r, len |-> inode[dir[p]].len, ver |-> inode[dir[p]].ver] :
        p \in UNION {Live(r) : r \in rollouts}}

Next ==
    \/ /\ ~Ended
       /\ Native \/ Exporter
       /\ saved' = IF pc' = "idle" THEN {} ELSE saved \cup Conversation'
       /\ rows' = IF pc' \in {"idle", "export", "copying", "completed", "aborted"}
                  THEN rows ELSE rows \cup {sel'.r}
    \/ Ended /\ UNCHANGED vars

Spec == Init /\ [][Next]_vars

-----------------------------------------------------------------------------
File == [len : 0..MaxLen, ver : Nat, tail : BOOLEAN]
Boundary == [r : 0..3, len : 0..MaxLen]

\* The variables keep their types.
TypeOK ==
    /\ inode \in [Inode -> File]
    /\ dir \in [Path -> Inode \cup {0}]
    /\ base \in [Rollout -> Boundary]
    /\ {sel, selected} \subseteq [r : {0, 2, 3}, area : {"sessions", "archived"}]
    /\ owed \in {"nothing", "select", "unlink"}
    /\ events \in 0..MaxEvents
    /\ pc \in {"idle", "archived", "sessions", "open", "readFirst", "readRest",
               "lineage", "recheck", "export", "copying", "completed",
               "refused", "aborted"}
    /\ found \subseteq Path
    /\ todo \subseteq found
    /\ end \in Boundary
    /\ Len(stream) <= Len(plan) /\ Len(plan) <= Cardinality(Rollout)
    /\ \A i \in DOMAIN plan : plan[i].len > 0

\* A completed stream is the conversation as it was saved at one moment after
\* the copy began: no unfinished record, no mixture of two versions of a file,
\* nothing missing that had been saved before (Snapshot, copyPayload).
ExportedIsSaved ==
    pc = "completed" =>
        /\ \A i \in DOMAIN stream : stream[i].first = stream[i].rest
        /\ LET m == stream[Len(stream)] IN
           \E s \in saved :
              /\ s.r = m.r /\ s.ver = m.rest
              /\ s.len = m.len \/ ("rewrite" \in during /\ m.len < s.len)

\* The inherited history in a completed stream meets, file by file, what the
\* next file inherits, which is what validateLineage demands of it.
LineageComplete ==
    pc = "completed" =>
        /\ base[stream[1].r] = NoBase
        /\ \A i \in DOMAIN stream : i > 1 =>
              base[stream[i].r] = [r |-> stream[i-1].r, len |-> stream[i-1].len]

\* A completed stream ends with the rollout that the row named all the while it
\* was captured, or there was no row: a revert or migration is never combined
\* with what was selected before (the second selection read in inspect).
SelectionHeld ==
    pc = "completed" => rows = {0} \/ rows = {stream[Len(stream)].r}

\* An inherited rollout also has a managed copy that ends before the cutoff.
ShortCopy ==
    /\ end # NoBase
    /\ \E p \in Path :
          /\ p.area = "prerequisite" /\ p.r = end.r
          /\ dir[p] # 0 /\ inode[dir[p]].len < end.len

NothingSaved == \E s \in saved : s.len = 0

\* Codex may append at any moment, and once the snapshot is taken it may also
\* archive, compress, replace or revert: only a file rewritten in place aborts
\* an export, and appends alone never refuse one (the pinned descriptors).
RefusalJustified ==
    /\ pc = "aborted" => "rewrite" \in during \cup later
    /\ pc = "refused" => \/ during \ {"append"} # {}
                         \/ NothingSaved
                         \/ ShortCopy
=============================================================================
