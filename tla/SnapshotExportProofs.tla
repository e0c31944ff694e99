------------------------- MODULE SnapshotExportProofs -------------------------
(***************************************************************************)
(* What a completed export is, for any number of records and of operations  *)
(* of Codex: a lineage without gaps, the rollout that was selected all the  *)
(* while, and the conversation as it was saved at one moment.  And when an  *)
(* export may fail: appends alone never refuse it, and once it is captured  *)
(* only a file rewritten in place aborts it.                               *)
(*                                                                         *)
(* The exporter takes no lock, so nothing that it has seen need still be    *)
(* so.  The argument rests on what Codex never undoes: a rollout that was   *)
(* ever live stays live somewhere, the row only moves on to newer rollouts, *)
(* the versions of a file only grow, and the inherited history of a rollout *)
(* is fixed when it is created.                                            *)
(***************************************************************************)
EXTENDS SnapshotExport, FiniteSetTheorems, TLAPS

Capturing == {"archived", "sessions", "open", "readFirst", "readRest", "lineage",
              "recheck"}
Reading == {"open", "readFirst", "readRest"}
Exporting == {"export", "copying", "completed"}

Item == [r : Rollout, ino : Inode, len : 1..MaxLen, first : Nat, rest : Nat,
         zst : BOOLEAN, prefix : BOOLEAN]
Sent == [r : Rollout, len : 1..MaxLen, first : Nat, rest : Nat]
Descriptor == [ino : Inode \cup {0}, path : Path, size : 0..MaxLen, first : Nat]

\* What TypeOK leaves open.
Typed ==
    /\ plan \in Seq(Item) /\ stream \in Seq(Sent) /\ cur \in Descriptor
    /\ rows \subseteq {0, 2, 3}

\* Inodes are taken in order, one for each step of Codex at most, and a version
\* tells when it was written.
Storage ==
    /\ \E k \in 4..(4 + events) : \A i \in Inode :
          IF i <= k THEN inode[i].ver > 0 ELSE inode[i] = NoFile
    /\ \A p \in Path : dir[p] # 0 => inode[dir[p]].ver > 0
    /\ \A i \in Inode : inode[i].ver <= events + 1

\* A rollout inherits from an older one.
Ancestry ==
    /\ base[1] = NoBase
    /\ base[2] # NoBase /\ base[2].r = 1
    /\ base[3] = NoBase \/ base[3].r = 2
    /\ \A r \in Rollout : base[r] # NoBase => base[r].len > 0

\* The row only moves on, and was the same all the while if it is in the end.
Row ==
    /\ sel.r = 0 => sel = NoSelection
    /\ selected.r = 0 => selected = NoSelection
    /\ sel.r = 3 => Live(3) # {}
    /\ pc = "idle" => rows = {}
    /\ pc \in Capturing =>
          selected.r \in rows /\ \A x \in rows : selected.r <= x /\ x <= sel.r
    /\ pc \in Exporting => rows = {selected.r}

\* The inventory may be old, but a conversation in it still exists somewhere.
Inventory == \A p \in found : p.area # "prerequisite" => Live(p.r) # {}

\* The rollout that is being requested.
Chosen(r) ==
    r \in Thread /\ Live(r) # {} /\ (selected # NoSelection => r = selected.r)

\* Representations still to be read.
Ahead == todo \cup (IF pc \in {"readFirst", "readRest"} THEN {cur.path} ELSE {})

\* They are all of the requested rollout, or of the one captured last, or of the
\* one that this one inherits from.
Pursued(g) ==
    /\ \A p \in Ahead : p.r = g
    /\ \/ /\ plan = <<>> /\ end = NoBase /\ Chosen(g)
          /\ \A p \in todo : p.area # "prerequisite"
       \/ plan # <<>> /\ plan[Len(plan)].r = g
       \/ plan # <<>> /\ end # NoBase /\ end = base[plan[Len(plan)].r] /\ end.r = g

Captures ==
    /\ pc \in {"idle", "archived", "sessions"} =>
          plan = <<>> /\ end = NoBase /\ todo = {}
    /\ end # NoBase => end.len > 0
    /\ pc \in Capturing \cup {"idle"} => stream = <<>>
    /\ pc \in Reading => \E g \in Rollout : Pursued(g)
    /\ pc \in {"readFirst", "readRest"} =>
          cur.ino # 0 /\ cur.size > 0 /\ inode[cur.ino].len > 0
    /\ pc \in {"lineage", "recheck"} \cup Exporting => plan # <<>>
    /\ pc \in {"recheck"} \cup Exporting => base[plan[Len(plan)].r] = NoBase

\* Every captured file is followed by what it inherits.
Chain ==
    /\ plan # <<>> => Chosen(plan[1].r)
    /\ \A i \in DOMAIN plan : plan[i].r + i <= 4
    /\ \A i \in DOMAIN plan : i < Len(plan) =>
          base[plan[i].r] = [r |-> plan[i + 1].r, len |-> plan[i + 1].len]

\* The stream is the plan backwards.
Streamed ==
    /\ Len(stream) <= Len(plan)
    /\ pc = "copying" => Len(stream) < Len(plan)
    /\ pc = "completed" => Len(stream) = Len(plan)
    /\ \A i \in DOMAIN stream :
          LET f == plan[Len(plan) + 1 - i] IN
          /\ stream[i].r = f.r /\ stream[i].len = f.len
          /\ stream[i].first = f.first /\ stream[i].rest = f.rest

\* A file that was captured in two parts had no newer version before.
Versions ==
    /\ pc = "readRest" => cur.first <= inode[cur.ino].ver
    /\ \A i \in DOMAIN plan :
          /\ plan[i].first <= plan[i].rest
          /\ plan[i].rest <= inode[plan[i].ino].ver
          /\ inode[plan[i].ino].len > 0
    /\ pc = "copying" => /\ Sending.rest <= cur.first
                         /\ cur.first <= inode[Sending.ino].ver
    /\ \A i \in DOMAIN stream : stream[i].first = stream[i].rest

\* No two rollouts share a file.
Apart ==
    /\ \A p, q \in Path : dir[p] # 0 /\ dir[p] = dir[q] => p.r = q.r
    /\ pc \in {"readFirst", "readRest"} =>
          \A p \in Path : dir[p] = cur.ino => p.r = cur.path.r

Saved(r, len, ver) == [r |-> r, len |-> len, ver |-> ver] \in saved

\* The conversation was len records of a version, or more if it was rewritten.
AsSaved(r, len, ver) ==
    \E s \in saved : /\ s.r = r /\ s.ver = ver
                     /\ s.len = len \/ ("rewrite" \in during /\ len < s.len)

\* The conversation being read was saved as it is now, and as it was when it was
\* opened unless it has been rewritten.
ReadAsSaved ==
    LET f == inode[cur.ino] IN
    /\ Saved(cur.path.r, f.len, f.ver)
    /\ "rewrite" \in during \/ Saved(cur.path.r, cur.size, f.ver)
    /\ pc = "readRest" =>
          /\ "rewrite" \in during \/ cur.first = f.ver
          /\ \E s \in saved : s.r = cur.path.r /\ s.ver = cur.first /\ s.len >= 1

\* Nothing is known of a copy that is going to be refused.
Holding == pc \in Exporting \/ (pc \in Capturing /\ sel.r = selected.r)

\* As long as the row holds, what was captured of the conversation is saved.
History ==
    /\ saved \subseteq [r : Rollout, len : 0..MaxLen, ver : Nat]
    /\ Holding /\ plan # <<>> => AsSaved(plan[1].r, plan[1].len, plan[1].rest)
    /\ Holding /\ plan = <<>> /\ pc \in {"readFirst", "readRest"} => ReadAsSaved

IInv ==
    /\ TypeOK /\ Typed /\ Storage /\ Ancestry /\ Row /\ Inventory
    /\ Captures /\ Chain /\ Streamed

FInv == IInv /\ Versions /\ Apart /\ History

-----------------------------------------------------------------------------
(* Codex.                                                                  *)

\* The bounds are numbers.
LEMMA Bounds == MaxLen \in Nat /\ MaxLen >= 2 /\ MaxEvents \in Nat
BY ConstantsAssumption

\* The next inode is free, and there is one for every step.
LEMMA FreeIs ==
    ASSUME TypeOK, Storage, events < MaxEvents
    PROVE  \E k \in 4..(4 + events) :
              /\ FreeInode = k + 1 /\ k + 1 \in Inode /\ inode[k + 1] = NoFile
              /\ \A i \in Inode : IF i <= k THEN inode[i].ver > 0 ELSE inode[i] = NoFile
<1>1. PICK k \in 4..(4 + events) :
          \A i \in Inode : IF i <= k THEN inode[i].ver > 0 ELSE inode[i] = NoFile
    BY DEF Storage
<1>2. events \in Nat /\ k \in Nat /\ MaxEvents \in Nat /\ k <= 4 + events
    BY Bounds DEF TypeOK
<1>3. k + 1 \in Inode
    BY <1>2 DEF Inode
<1>4. inode[k + 1] = NoFile
    BY <1>1, <1>2, <1>3
<1>5. ASSUME NEW j \in 1..((k + 1) - 1) PROVE inode[j] # NoFile
    <2>1. j \in Inode /\ j <= k
        BY <1>2, <1>3 DEF Inode
    <2> QED
        BY <1>1, <2>1 DEF NoFile
<1>6. ASSUME NEW i \in Inode, inode[i] = NoFile, \A j \in 1..(i - 1) : inode[j] # NoFile
      PROVE  i = k + 1
    <2>1. i \in Nat /\ ~(i <= k)
        BY <1>1, <1>6 DEF NoFile, Inode
    <2>2. ~(k + 1 < i)
        <3> SUFFICES ASSUME k + 1 < i PROVE FALSE
            OBVIOUS
        <3>1. k + 1 \in 1..(i - 1)
            BY <1>2, <2>1
        <3> QED
            BY <3>1, <1>4, <1>6
    <2> QED
        BY <1>2, <2>1, <2>2
<1>7. FreeInode = k + 1
    BY <1>3, <1>4, <1>5, <1>6 DEF FreeInode
<1> QED
    BY <1>1, <1>3, <1>4, <1>7

\* A new inode, for what is being written.
LEMMA Allocate ==
    ASSUME TypeOK, Storage, events < MaxEvents
    PROVE  FreeInode \in Inode /\ FreeInode # 0 /\ inode[FreeInode] = NoFile
BY FreeIs DEF Inode

\* What a step of Codex leaves to the exporter.
LEMMA NativeFrame ==
    ASSUME TypeOK, Native
    PROVE  /\ UNCHANGED <<pc, selected, found, todo, end, cur, plan, stream>>
           /\ events < MaxEvents /\ events' = events + 1
           /\ during \subseteq during'
<1>1. \E kind : Note(kind)
    BY Zenon DEF Native, AppendRecord, Move, Compress, Unlink, Migrate, Revert, Select
<1> QED
    BY <1>1 DEF Note, capture

\* A path in either representation, and in the other area.
LEMMA OtherPaths ==
    ASSUME NEW p \in Path
    PROVE  /\ [p EXCEPT !.zst = TRUE] \in Path
           /\ [p EXCEPT !.zst = TRUE].r = p.r /\ [p EXCEPT !.zst = TRUE].zst
           /\ [p EXCEPT !.zst = TRUE].area = p.area
           /\ p.area # "prerequisite" =>
                LET q == [p EXCEPT !.area = IF @ = "sessions" THEN "archived" ELSE "sessions"]
                IN  q \in Path /\ q.r = p.r /\ q # p /\ q.area # "prerequisite"
           /\ p.r \in Rollout /\ p.zst \in BOOLEAN /\ p.area \in Area
BY DEF Path, Area

\* How a step of Codex may change the files: an append or a rewrite through a
\* path, a new file, or none.
Touches(p, f) ==
    /\ p.area # "prerequisite" /\ dir[p] # 0 /\ f \in File /\ f.ver > 0
    /\ inode' = [inode EXCEPT ![dir[p]] = f]
    /\ \/ f.ver = inode[dir[p]].ver /\ f.len >= inode[dir[p]].len
       \/ f.ver = events + 2 /\ f.len >= 1
    /\ UNCHANGED <<dir, base, sel>>

Creates(p, f) ==
    /\ p.area # "prerequisite" /\ f \in File /\ f.ver > 0 /\ f.len > 0
    /\ f.ver <= events + 2
    /\ inode' = [inode EXCEPT ![FreeInode] = f]
    /\ dir' = [dir EXCEPT ![p] = FreeInode]
    /\ UNCHANGED sel

Moves(p, q) ==
    /\ dir[p] # 0 /\ p.area # "prerequisite" /\ q.area # "prerequisite"
    /\ q.r = p.r /\ q # p
    /\ dir' = [dir EXCEPT ![p] = 0, ![q] = dir[p]]
    /\ UNCHANGED <<inode, base, sel>>

Selects ==
    /\ UNCHANGED <<inode, dir, base>>
    /\ \E r \in Thread : /\ Live(r) # {} /\ (r = 2 => Live(3) = {})
                         /\ sel' \in [r : {r}, area : {"sessions", "archived"}]

\* Steps of Codex, by what they do to the files.
LEMMA NativeKinds ==
    ASSUME TypeOK, Storage, Native
    PROVE  \/ \E p \in Path, f \in File : Touches(p, f)
           \/ \E p \in Path, f \in File : Creates(p, f) /\ base' = base
           \/ Revert /\ \E f \in File : Creates(Plain("sessions", 3), f)
           \/ \E p, q \in Path : Moves(p, q)
           \/ Unlink \/ Selects
<1>0. events < MaxEvents /\ events \in Nat /\ MaxLen \in Nat /\ MaxLen >= 2
    BY NativeFrame, Bounds DEF TypeOK
<1>1. CASE AppendRecord
    <2>1. PICK p \in Path :
            /\ ~p.zst /\ p.area = "sessions" /\ dir[p] # 0 /\ inode[dir[p]].len < MaxLen
            /\ inode' = [inode EXCEPT ![dir[p]] =
                  IF inode[dir[p]].tail THEN [inode[dir[p]] EXCEPT !.len = @ + 1, !.tail = FALSE]
                  ELSE [inode[dir[p]] EXCEPT !.tail = TRUE]]
        BY <1>1 DEF AppendRecord
    <2> DEFINE old == inode[dir[p]]
               f == IF old.tail THEN [old EXCEPT !.len = @ + 1, !.tail = FALSE]
                    ELSE [old EXCEPT !.tail = TRUE]
    <2>2. old \in File /\ old.ver > 0 /\ old.len < MaxLen
        BY <2>1 DEF TypeOK, Storage
    <2>3. f \in File /\ f.ver = old.ver /\ f.len >= old.len
        <3>1. old.len \in Nat /\ old.len + 1 \in 0..MaxLen
            BY <2>2, <1>0 DEF File
        <3>2. CASE old.tail
            <4> DEFINE g == [old EXCEPT !.len = @ + 1, !.tail = FALSE]
            <4>1. g \in File /\ g.ver = old.ver /\ g.len = old.len + 1
                BY <2>2, <3>1 DEF File
            <4> QED
                BY <3>1, <3>2, <4>1
        <3>3. CASE ~old.tail
            <4> DEFINE g == [old EXCEPT !.tail = TRUE]
            <4>1. g \in File /\ g.ver = old.ver /\ g.len = old.len
                BY <2>2 DEF File
            <4> QED
                BY <3>1, <3>3, <4>1
        <3> QED
            BY <3>2, <3>3
    <2>4. UNCHANGED <<dir, base, sel>>
        BY <1>1 DEF AppendRecord
    <2>5. Touches(p, f)
        BY <2>1, <2>2, <2>3, <2>4 DEF Touches
    <2> QED
        BY <2>3, <2>5
<1>2. CASE Move
    <2>1. PICK p \in UNION {Live(r) : r \in Thread} :
            LET q == [p EXCEPT !.area = IF @ = "sessions" THEN "archived" ELSE "sessions"]
            IN dir' = [dir EXCEPT ![p] = 0, ![q] = dir[p]]
        BY <1>2 DEF Move
    <2>2. p \in Path /\ p.area # "prerequisite" /\ dir[p] # 0
        BY DEF Live
    <2>3. UNCHANGED <<inode, base, sel>>
        BY <1>2 DEF Move
    <2> DEFINE q == [p EXCEPT !.area = IF @ = "sessions" THEN "archived" ELSE "sessions"]
    <2>4. q \in Path /\ q.r = p.r /\ q # p /\ q.area # "prerequisite"
        BY <2>2, OtherPaths
    <2>5. dir' = [dir EXCEPT ![p] = 0, ![q] = dir[p]]
        BY <2>1
    <2> HIDE DEF q
    <2>6. Moves(p, q)
        BY <2>2, <2>3, <2>4, <2>5 DEF Moves
    <2> QED
        BY <2>2, <2>4, <2>6
<1>3. CASE Compress
    <2>1. PICK p \in Path :
            /\ ~p.zst /\ p.area # "prerequisite" /\ dir[p] # 0
            /\ inode[dir[p]].len > 0
            /\ inode' = [inode EXCEPT ![FreeInode] = inode[dir[p]]]
            /\ dir' = [dir EXCEPT ![[p EXCEPT !.zst = TRUE]] = FreeInode]
        BY <1>3 DEF Compress
    <2> DEFINE q == [p EXCEPT !.zst = TRUE]
    <2>2. q \in Path /\ q.area # "prerequisite"
        BY <2>1, OtherPaths
    <2>3. dir[p] \in Inode /\ inode[dir[p]] \in File /\ inode[dir[p]].ver > 0
        BY <2>1 DEF TypeOK, Storage
    <2>4. inode[dir[p]].ver <= events + 2
        <3>1. inode[dir[p]].ver <= events + 1 /\ inode[dir[p]].ver \in Nat
            BY <2>3 DEF Storage, File
        <3> QED
            BY <3>1, <1>0
    <2>5. UNCHANGED <<base, sel>>
        BY <1>3 DEF Compress
    <2> HIDE DEF q
    <2>6. Creates(q, inode[dir[p]])
        BY <2>1, <2>2, <2>3, <2>4, <2>5 DEF Creates, q
    <2> QED
        BY <2>2, <2>3, <2>5, <2>6
<1>4. CASE Migrate
    <2>1. PICK p \in Path, len \in 1..MaxLen :
            /\ ~p.zst /\ p.area # "prerequisite" /\ dir[p] # 0
            /\ LET new == [len |-> len, ver |-> events + 2, tail |-> FALSE] IN
               \/ inode' = [inode EXCEPT ![dir[p]] = new] /\ UNCHANGED dir
               \/ /\ inode' = [inode EXCEPT ![FreeInode] = new]
                  /\ dir' = [dir EXCEPT ![p] = FreeInode]
        BY <1>4 DEF Migrate
    <2> DEFINE new == [len |-> len, ver |-> events + 2, tail |-> FALSE]
    <2>2. new \in File /\ new.ver = events + 2 /\ new.ver > 0 /\ new.len >= 1 /\ new.len > 0
          /\ new.ver <= events + 2
        BY <1>0 DEF File
    <2>3. UNCHANGED <<base, sel>>
        BY <1>4 DEF Migrate
    <2>4. \/ inode' = [inode EXCEPT ![dir[p]] = new] /\ UNCHANGED dir
          \/ /\ inode' = [inode EXCEPT ![FreeInode] = new]
             /\ dir' = [dir EXCEPT ![p] = FreeInode]
        BY <2>1
    <2> HIDE DEF new
    <2>5. Touches(p, new) \/ Creates(p, new)
        BY <2>1, <2>2, <2>3, <2>4 DEF Touches, Creates
    <2> QED
        BY <2>2, <2>3, <2>5
<1>5. CASE Revert
    <2> DEFINE f == [len |-> 1, ver |-> 1, tail |-> FALSE]
    <2>1. /\ inode' = [inode EXCEPT ![FreeInode] = f]
          /\ dir' = [dir EXCEPT ![Plain("sessions", 3)] = FreeInode]
          /\ UNCHANGED sel
        BY <1>5 DEF Revert
    <2>2. f \in File /\ f.ver > 0 /\ f.len > 0 /\ f.ver <= events + 2
        BY <1>0 DEF File
    <2> HIDE DEF f
    <2>3. Creates(Plain("sessions", 3), f)
        BY <2>1, <2>2 DEF Creates, Plain
    <2> QED
        BY <1>5, <2>2, <2>3
<1>6. CASE Select
    <2>1. UNCHANGED <<inode, dir, base>>
        BY <1>6 DEF Select
    <2>2. PICK r \in Thread : /\ Live(r) # {} /\ (r = 2 => Live(3) = {})
                              /\ \E p \in Live(r) : sel' = [r |-> r, area |-> p.area]
        BY <1>6 DEF Select
    <2>3. PICK p \in Live(r) : sel' = [r |-> r, area |-> p.area]
        BY <2>2
    <2>4. p.area \in {"sessions", "archived"}
        BY DEF Live, Path, Area
    <2>5. sel' \in [r : {r}, area : {"sessions", "archived"}]
        BY <2>3, <2>4
    <2> QED
        BY <2>1, <2>2, <2>5 DEF Selects
<1> QED
    BY <1>1, <1>2, <1>3, <1>4, <1>5, <1>6 DEF Native

\* What Codex never undoes, and what it keeps.
Forward ==
    /\ \A r \in Rollout : Live(r) # {} => Live(r)' # {}
    /\ \A r \in Rollout : r # 3 \/ Live(3) # {} => base'[r] = base[r]
    /\ \A i \in Inode : /\ inode[i].len > 0 => inode'[i].len > 0
                        /\ inode[i].ver <= inode'[i].ver
    /\ sel' = sel \/ Selects

\* Files stay well formed.
LEMMA NativeStorage ==
    ASSUME TypeOK, Storage, Native
    PROVE  Storage' /\ inode' \in [Inode -> File] /\ dir' \in [Path -> Inode \cup {0}]
<1>0. /\ events < MaxEvents /\ events' = events + 1 /\ events \in Nat /\ MaxEvents \in Nat
      /\ inode \in [Inode -> File] /\ dir \in [Path -> Inode \cup {0}]
      /\ 0 \notin Inode
      /\ \A i \in Inode : inode[i].ver \in Nat
    BY NativeFrame, Bounds DEF TypeOK, Inode, File
<1>1. PICK k \in 4..(4 + events) :
          /\ FreeInode = k + 1 /\ k + 1 \in Inode /\ inode[k + 1] = NoFile
          /\ \A i \in Inode : IF i <= k THEN inode[i].ver > 0 ELSE inode[i] = NoFile
    BY <1>0, FreeIs
<1>2. /\ k \in 4..(4 + events') /\ k + 1 \in 4..(4 + events') /\ k \in Nat
      /\ \A i \in Inode : i \in Nat /\ (i <= k + 1 <=> i <= k \/ i = k + 1)
    BY <1>0, <1>1 DEF Inode
<1>3. /\ \A p \in Path : dir[p] # 0 => inode[dir[p]].ver > 0 /\ dir[p] \in Inode
      /\ \A i \in Inode : inode[i].ver <= events + 1 /\ inode[i].ver <= events' + 1
    BY <1>0 DEF Storage
<1>4. ASSUME NEW p \in Path, NEW f \in File, Touches(p, f)
      PROVE  Storage' /\ inode' \in [Inode -> File] /\ dir' \in [Path -> Inode \cup {0}]
    <2>1. /\ dir[p] \in Inode /\ inode' = [inode EXCEPT ![dir[p]] = f] /\ dir' = dir
          /\ f.ver > 0 /\ f.ver <= events' + 1 /\ dir[p] <= k
        <3>1. dir[p] \in Inode /\ inode[dir[p]].ver > 0
            BY <1>3, <1>4 DEF Touches
        <3>2. dir[p] <= k
            BY <1>1, <3>1 DEF NoFile
        <3>3. f.ver = inode[dir[p]].ver \/ f.ver = events + 2
            BY <1>4 DEF Touches
        <3>4. f.ver <= events' + 1
            BY <1>0, <1>3, <3>1, <3>3
        <3> QED
            BY <1>4, <3>1, <3>2, <3>4 DEF Touches
    <2>2. inode' \in [Inode -> File]
        BY <2>1, <1>0, <1>4
    <2>3. \A i \in Inode : inode'[i] = IF i = dir[p] THEN f ELSE inode[i]
        BY <2>1, <1>0
    <2>4. \A i \in Inode : IF i <= k THEN inode'[i].ver > 0 ELSE inode'[i] = NoFile
        BY <2>1, <2>3, <1>1
    <2>5. \A q \in Path : dir'[q] # 0 => inode'[dir'[q]].ver > 0
        BY <2>1, <2>3, <1>3
    <2>6. \A i \in Inode : inode'[i].ver <= events' + 1
        BY <2>1, <2>3, <1>3
    <2> QED
        BY <2>1, <2>2, <2>4, <2>5, <2>6, <1>0, <1>2 DEF Storage
<1>5. ASSUME NEW p \in Path, NEW f \in File, Creates(p, f)
      PROVE  Storage' /\ inode' \in [Inode -> File] /\ dir' \in [Path -> Inode \cup {0}]
    <2>1. /\ inode' = [inode EXCEPT ![k + 1] = f]
          /\ dir' = [dir EXCEPT ![p] = k + 1]
          /\ f.ver > 0 /\ f.ver <= events' + 1
        <3>1. f.ver \in Nat /\ f.ver <= events + 2
            BY <1>5 DEF Creates, File
        <3> QED
            BY <1>0, <1>1, <1>5, <3>1 DEF Creates
    <2>2. inode' \in [Inode -> File] /\ dir' \in [Path -> Inode \cup {0}]
        BY <2>1, <1>0, <1>1, <1>5
    <2>3. /\ \A i \in Inode : inode'[i] = IF i = k + 1 THEN f ELSE inode[i]
          /\ \A q \in Path : dir'[q] = IF q = p THEN k + 1 ELSE dir[q]
        BY <2>1, <1>0, <1>1
    <2>4. \A i \in Inode : IF i <= k + 1 THEN inode'[i].ver > 0 ELSE inode'[i] = NoFile
        BY <2>1, <2>3, <1>1, <1>2
    <2>5. \A q \in Path : dir'[q] # 0 => inode'[dir'[q]].ver > 0
        BY <2>1, <2>3, <1>1, <1>3
    <2>6. \A i \in Inode : inode'[i].ver <= events' + 1
        BY <2>1, <2>3, <1>3
    <2> QED
        BY <2>2, <2>4, <2>5, <2>6, <1>2 DEF Storage
<1>6. ASSUME inode' = inode, dir' \in [Path -> Inode \cup {0}],
             \A q \in Path : dir'[q] # 0 => \E p \in Path : dir'[q] = dir[p]
      PROVE  Storage' /\ inode' \in [Inode -> File] /\ dir' \in [Path -> Inode \cup {0}]
    <2>1. \A q \in Path : dir'[q] # 0 => inode'[dir'[q]].ver > 0
        BY <1>3, <1>6
    <2> QED
        BY <2>1, <1>0, <1>1, <1>2, <1>3, <1>6 DEF Storage
<1>7. ASSUME NEW p \in Path, NEW q \in Path, Moves(p, q)
      PROVE  Storage' /\ inode' \in [Inode -> File] /\ dir' \in [Path -> Inode \cup {0}]
    <2>1. inode' = inode /\ dir' = [dir EXCEPT ![p] = 0, ![q] = dir[p]]
        BY <1>7 DEF Moves
    <2>2. dir' \in [Path -> Inode \cup {0}]
        BY <2>1, <1>0
    <2>3. \A x \in Path : dir'[x] # 0 => \E y \in Path : dir'[x] = dir[y]
        BY <2>1, <1>0
    <2> QED
        BY <2>1, <2>2, <2>3, <1>6
<1>8. CASE Unlink
    <2>1. inode' = inode
        BY <1>8 DEF Unlink
    <2>2. \A x \in Path : dir'[x] \in {0, dir[x]}
        BY <1>8 DEF Unlink
    <2>3. dir' \in [Path -> Inode \cup {0}]
        BY <1>8, <1>0 DEF Unlink
    <2> QED
        BY <2>1, <2>2, <2>3, <1>6
<1>9. CASE Selects
    BY <1>9, <1>6, <1>0 DEF Selects
<1>10. CASE \E f \in File : Creates(Plain("sessions", 3), f)
    <2>1. Plain("sessions", 3) \in Path
        BY DEF Plain, Path, Area, Rollout
    <2> QED
        BY <1>5, <1>10, <2>1
<1> QED
    BY <1>4, <1>5, <1>7, <1>8, <1>9, <1>10, NativeKinds

\* A rollout that is live somewhere stays live somewhere.
LEMMA NativeLive ==
    ASSUME TypeOK, Storage, Native, NEW r \in Rollout, Live(r) # {}
    PROVE  Live(r)' # {}
<1>0. /\ dir \in [Path -> Inode \cup {0}] /\ events < MaxEvents
      /\ FreeInode \in Inode /\ FreeInode # 0
    BY NativeFrame, Allocate DEF TypeOK
<1>1. PICK x \in Path : x.r = r /\ x.area # "prerequisite" /\ dir[x] # 0
    BY DEF Live
<1>2. SUFFICES \E y \in Path : y.r = r /\ y.area # "prerequisite" /\ dir'[y] # 0
    BY DEF Live
<1>3. ASSUME NEW p \in Path, NEW f \in File, Creates(p, f) PROVE dir'[x] # 0
    BY <1>0, <1>1, <1>3 DEF Creates
<1>4. ASSUME NEW p \in Path, NEW q \in Path, Moves(p, q)
      PROVE  \E y \in Path : y.r = r /\ y.area # "prerequisite" /\ dir'[y] # 0
    <2>1. /\ dir' = [dir EXCEPT ![p] = 0, ![q] = dir[p]] /\ dir[p] # 0 /\ q # p
          /\ q.r = p.r /\ q.area # "prerequisite"
        BY <1>4 DEF Moves
    <2>2. dir'[q] # 0 /\ (x # p => dir'[x] # 0)
        BY <2>1, <1>0, <1>1
    <2> QED
        BY <2>1, <2>2, <1>1
<1>5. CASE Unlink
    <2> DEFINE y == [x EXCEPT !.zst = TRUE]
    <2>1. y \in Path /\ y.r = r /\ y.area # "prerequisite" /\ y.zst
        BY <1>1, OtherPaths
    <2>2. dir'[x] = IF ~x.zst /\ dir[y] # 0 THEN 0 ELSE dir[x]
        BY <1>5 DEF Unlink
    <2>3. dir'[y] = dir[y]
        BY <1>5, <2>1 DEF Unlink
    <2> HIDE DEF y
    <2> QED
        BY <2>1, <2>2, <2>3, <1>1
<1>6. CASE dir' = dir
    BY <1>1, <1>6
<1>7. CASE \E f \in File : Creates(Plain("sessions", 3), f)
    <2>1. Plain("sessions", 3) \in Path
        BY DEF Plain, Path, Area, Rollout
    <2> QED
        BY <1>1, <1>3, <1>7, <2>1
<1> QED
    BY <1>1, <1>3, <1>4, <1>5, <1>6, <1>7, NativeKinds DEF Touches, Selects

\* Metadata is written once, versions grow, and the row moves on.
LEMMA NativeForward ==
    ASSUME TypeOK, Storage, Ancestry, Native
    PROVE  /\ Forward /\ Ancestry' /\ base' \in [Rollout -> Boundary]
           /\ sel' \in [r : {0, 2, 3}, area : {"sessions", "archived"}]
<1>0. /\ events < MaxEvents /\ events \in Nat /\ MaxLen \in Nat
      /\ inode \in [Inode -> File] /\ dir \in [Path -> Inode \cup {0}]
      /\ base \in [Rollout -> Boundary] /\ Rollout = 1..3
      /\ sel \in [r : {0, 2, 3}, area : {"sessions", "archived"}]
      /\ \A i \in Inode : inode[i].ver \in Nat /\ inode[i].len \in Nat
      /\ \A i \in Inode : inode[i].ver <= events + 1
    <2>1. events < MaxEvents /\ MaxLen \in Nat
        BY NativeFrame, Bounds
    <2>2. events \in Nat /\ Rollout = 1..3
        BY Bounds DEF TypeOK, Rollout
    <2>3. \A i \in Inode : inode[i].ver \in Nat /\ inode[i].len \in Nat
        <3>1. \A f \in File : f.ver \in Nat /\ f.len \in Nat
            BY <2>1 DEF File
        <3> QED
            BY <3>1 DEF TypeOK
    <2> QED
        BY <2>1, <2>2, <2>3 DEF TypeOK, Storage
<1>1. FreeInode \in Inode /\ inode[FreeInode] = NoFile
    BY <1>0, Allocate
<1>2. /\ \A i \in Inode : /\ inode[i].len > 0 => inode'[i].len > 0
                          /\ inode[i].ver <= inode'[i].ver
    <2>1. ASSUME NEW p \in Path, NEW f \in File, Touches(p, f), NEW i \in Inode
          PROVE  /\ inode[i].len > 0 => inode'[i].len > 0
                 /\ inode[i].ver <= inode'[i].ver
        <3>1. /\ dir[p] \in Inode /\ inode' = [inode EXCEPT ![dir[p]] = f]
              /\ \/ f.ver = inode[dir[p]].ver /\ f.len >= inode[dir[p]].len
                 \/ f.ver = events + 2 /\ f.len >= 1
              /\ f.len \in Nat
            BY <1>0, <2>1 DEF Touches, File
        <3>2. inode'[i] = IF i = dir[p] THEN f ELSE inode[i]
            BY <1>0, <3>1
        <3> QED
            BY <1>0, <3>1, <3>2
    <2>2. ASSUME NEW p \in Path, NEW f \in File, Creates(p, f), NEW i \in Inode
          PROVE  /\ inode[i].len > 0 => inode'[i].len > 0
                 /\ inode[i].ver <= inode'[i].ver
        <3>1. inode'[i] = IF i = FreeInode THEN f ELSE inode[i]
            BY <1>0, <1>1, <2>2 DEF Creates
        <3>2. f.len \in Nat /\ f.ver \in Nat
            BY DEF File
        <3> QED
            BY <1>0, <1>1, <3>1, <3>2 DEF NoFile
    <2>3. CASE inode' = inode
        BY <1>0, <2>3
    <2>4. Plain("sessions", 3) \in Path
        BY DEF Plain, Path, Area, Rollout
    <2> QED
        BY <2>1, <2>2, <2>3, <2>4, NativeKinds DEF Moves, Selects, Unlink
<1>3. CASE Revert
    <2>0. PICK p \in Live(2) : \E len \in 1..inode[dir[p]].len :
              base' = [base EXCEPT ![3] = [r |-> 2, len |-> len]]
        BY <1>3 DEF Revert
    <2>1. PICK len \in 1..inode[dir[p]].len :
              base' = [base EXCEPT ![3] = [r |-> 2, len |-> len]]
        BY <2>0
    <2>2. p \in Path /\ dir[p] \in Inode
        BY <1>0 DEF Live
    <2>3. len \in Nat /\ len > 0 /\ len <= MaxLen
        <3>1. inode[dir[p]].len \in 0..MaxLen
            BY <1>0, <2>2 DEF File
        <3> QED
            BY <3>1, <1>0
    <2>4. base' \in [Rollout -> Boundary]
        BY <1>0, <2>1, <2>3 DEF Boundary
    <2>5. base'[1] = base[1] /\ base'[2] = base[2] /\ base'[3] = [r |-> 2, len |-> len]
        BY <1>0, <2>1
    <2>6. Ancestry'
        BY <2>3, <2>5, <1>0 DEF Ancestry
    <2>7. sel' = sel /\ Live(3) = {}
        BY <1>3 DEF Revert
    <2>8. Forward
        BY <1>0, <1>2, <2>5, <2>7, NativeLive DEF Forward
    <2> QED
        BY <2>4, <2>6, <2>7, <2>8, <1>0
<1>4. CASE ~Revert
    <2>1. base' = base
        BY <1>4 DEF Native, AppendRecord, Move, Compress, Unlink, Migrate, Select
    <2>2. sel' = sel \/ Selects
        BY NativeKinds, <1>4 DEF Touches, Creates, Moves, Unlink
    <2>3. sel' \in [r : {0, 2, 3}, area : {"sessions", "archived"}]
        <3>1. CASE sel' = sel
            BY <3>1, <1>0
        <3>2. CASE Selects
            BY <3>2 DEF Selects, Thread
        <3> QED
            BY <2>2, <3>1, <3>2
    <2>4. Forward
        BY <1>2, <2>1, <2>2, NativeLive DEF Forward
    <2> QED
        BY <2>1, <2>3, <2>4, <1>0 DEF Ancestry
<1> QED
    BY <1>3, <1>4

-----------------------------------------------------------------------------
(* Steps.                                                                  *)

\* The ghost variables follow every step.
Recorded ==
    /\ saved' = IF pc' = "idle" THEN {} ELSE saved \cup Conversation'
    /\ rows' = IF pc' \in {"idle", "export", "copying", "completed", "aborted"}
               THEN rows ELSE rows \cup {sel'.r}

\* Codex, the exporter, or nobody.
LEMMA StepKinds ==
    ASSUME [Next]_vars
    PROVE  \/ Native /\ ~Ended /\ Recorded
           \/ Exporter /\ ~Ended /\ Recorded
           \/ UNCHANGED vars
BY DEF Next, Recorded

\* The first and the last file of a plan.
LEMMA PlanEnds ==
    ASSUME Typed
    PROVE  /\ Len(plan) \in Nat /\ DOMAIN plan = 1..Len(plan)
           /\ Len(stream) \in Nat /\ DOMAIN stream = 1..Len(stream)
           /\ plan # <<>> => /\ Len(plan) >= 1 /\ 1 \in DOMAIN plan
                             /\ Len(plan) \in DOMAIN plan
           /\ plan = <<>> => Len(plan) = 0 /\ DOMAIN plan = {}
           /\ \A i \in DOMAIN plan : plan[i] \in Item /\ plan[i].r \in Rollout
           /\ \A i \in DOMAIN stream : stream[i] \in Sent
<1>1. plan \in Seq(Item) /\ stream \in Seq(Sent)
    BY DEF Typed
<1>2. /\ Len(plan) \in Nat /\ DOMAIN plan = 1..Len(plan)
      /\ Len(stream) \in Nat /\ DOMAIN stream = 1..Len(stream)
      /\ \A i \in DOMAIN plan : plan[i] \in Item
      /\ \A i \in DOMAIN stream : stream[i] \in Sent
    BY <1>1
<1>3. \A i \in DOMAIN plan : plan[i].r \in Rollout
    BY <1>2 DEF Item
<1>4. plan # <<>> => Len(plan) >= 1
    BY <1>1
<1>5. plan = <<>> => Len(plan) = 0
    BY <1>1
<1> QED
    BY <1>2, <1>3, <1>4, <1>5

\* Only the requested conversation can be the newest one, and that is live.
LEMMA PlanOlder ==
    ASSUME Typed, Chain, NEW i \in DOMAIN plan
    PROVE  plan[i].r # 3 \/ Live(3) # {}
<1>1. i \in Nat /\ i >= 1 /\ plan[i].r \in Nat /\ plan # <<>>
    BY PlanEnds DEF Rollout
<1>2. plan[i].r = 3 => i = 1
    BY <1>1 DEF Chain
<1> QED
    BY <1>1, <1>2 DEF Chain, Chosen

\* The row moves on to a newer rollout, or stays.
LEMMA RowForward ==
    ASSUME TypeOK, Storage, Ancestry, Row, Native
    PROVE  /\ sel.r <= sel'.r /\ sel.r \in {0, 2, 3} /\ sel'.r \in {0, 2, 3}
           /\ selected.r \in {0, 2, 3}
<1>1. sel.r \in {0, 2, 3} /\ sel'.r \in {0, 2, 3} /\ selected.r \in {0, 2, 3}
    BY NativeForward DEF TypeOK
<1>2. CASE sel' = sel
    BY <1>1, <1>2
<1>3. CASE Selects
    <2>1. PICK r \in Thread : /\ r = 2 => Live(3) = {}
                              /\ sel' \in [r : {r}, area : {"sessions", "archived"}]
        BY <1>3 DEF Selects
    <2>2. sel'.r = r /\ (sel.r = 3 => r = 3)
        BY <2>1 DEF Row, Thread
    <2> QED
        BY <1>1, <2>2 DEF Thread
<1> QED
    BY <1>2, <1>3, NativeForward DEF Forward

\* What Codex does leaves the argument of the exporter intact.
LEMMA NativeStep ==
    ASSUME IInv, Native, ~Ended, Recorded
    PROVE  IInv'
<1>0. TypeOK /\ Typed /\ Storage /\ Ancestry /\ Row /\ Inventory /\ Captures
      /\ Chain /\ Streamed
    BY DEF IInv
<1>1. /\ UNCHANGED <<pc, selected, found, todo, end, cur, plan, stream>>
      /\ events < MaxEvents /\ events' = events + 1
    BY <1>0, NativeFrame
<1>2. Storage' /\ inode' \in [Inode -> File] /\ dir' \in [Path -> Inode \cup {0}]
    BY <1>0, NativeStorage
<1>3. /\ Forward /\ Ancestry' /\ base' \in [Rollout -> Boundary]
      /\ sel' \in [r : {0, 2, 3}, area : {"sessions", "archived"}]
    BY <1>0, NativeForward
<1>4. TypeOK'
    <2>1. events' \in 0..MaxEvents
        BY <1>0, <1>1, Bounds DEF TypeOK
    <2>2. owed' \in {"nothing", "select", "unlink"}
        BY <1>0 DEF TypeOK, Native, AppendRecord, Move, Compress, Unlink, Migrate,
           Revert, Select
    <2>3. selected \in [r : {0, 2, 3}, area : {"sessions", "archived"}]
        BY <1>0 DEF TypeOK
    <2>4. {sel', selected'} \subseteq [r : {0, 2, 3}, area : {"sessions", "archived"}]
        BY <2>3, <1>1, <1>3
    <2> QED
        BY <1>0, <1>1, <1>2, <1>3, <2>1, <2>2, <2>4 DEF TypeOK
<1>5. /\ \A r \in Rollout : Live(r) # {} => Live(r)' # {}
      /\ \A i \in DOMAIN plan : base'[plan[i].r] = base[plan[i].r]
      /\ \A i \in Inode : inode[i].len > 0 => inode'[i].len > 0
    <2>1. \A i \in DOMAIN plan : plan[i].r \in Rollout /\ (plan[i].r # 3 \/ Live(3) # {})
        BY <1>0, PlanOlder, PlanEnds
    <2> QED
        BY <2>1, <1>3 DEF Forward
<1>6. Live(3) # {} => Live(3)' # {}
    BY <1>5 DEF Rollout
<1>7. sel.r <= sel'.r /\ sel.r \in {0, 2, 3} /\ sel'.r \in {0, 2, 3}
      /\ selected.r \in {0, 2, 3}
    BY <1>0, RowForward
<1>8. Typed'
    <2>1. rows' \subseteq {0, 2, 3}
        BY <1>0, <1>7 DEF Recorded, Typed
    <2> QED
        BY <2>1, <1>0, <1>1 DEF Typed
<1>9. Row'
    <2>1. sel'.r = 0 => sel' = NoSelection
        <3>1. CASE sel' = sel
            BY <3>1, <1>0 DEF Row
        <3>2. CASE Selects
            BY <3>2 DEF Selects, Thread
        <3> QED
            BY <3>1, <3>2, <1>3 DEF Forward
    <2>2. sel'.r = 3 => Live(3)' # {}
        <3>1. CASE sel' = sel
            BY <3>1, <1>0, <1>6 DEF Row
        <3>2. CASE Selects
            <4>1. sel'.r = 3 => Live(3) # {}
                BY <3>2 DEF Selects
            <4> QED
                BY <4>1, <1>6
        <3> QED
            BY <3>1, <3>2, <1>3 DEF Forward
    <2>3. pc \in {"idle", "export", "copying", "completed"} => rows' = rows
        BY <1>1 DEF Recorded
    <2>4. pc \in Capturing =>
              selected.r \in rows' /\ \A x \in rows' : selected.r <= x /\ x <= sel'.r
        <3> SUFFICES ASSUME pc \in Capturing
                     PROVE  selected.r \in rows' /\ \A x \in rows' : selected.r <= x /\ x <= sel'.r
            OBVIOUS
        <3>1. rows' = rows \cup {sel'.r}
            BY <1>1 DEF Recorded, Capturing
        <3>2. /\ selected.r \in rows
              /\ \A x \in rows : x \in {0, 2, 3} /\ selected.r <= x /\ x <= sel.r
            BY <1>0 DEF Row, Typed
        <3>3. \A x \in rows : x <= sel'.r
            BY <3>2, <1>7
        <3>4. selected.r <= sel'.r
            BY <3>2, <3>3
        <3> QED
            BY <3>1, <3>2, <3>3, <3>4, <1>7
    <2> QED
        BY <1>0, <1>1, <2>1, <2>2, <2>3, <2>4 DEF Row, Exporting
<1>10. Inventory'
    BY <1>0, <1>1, <1>5, OtherPaths DEF Inventory, TypeOK
<1>11. ASSUME NEW r, Chosen(r) PROVE Chosen(r)'
    <2>1. r \in Rollout
        BY <1>11 DEF Chosen, Thread, Rollout
    <2> QED
        BY <1>1, <1>5, <1>11, <2>1 DEF Chosen
<1>12. Captures'
    <2>1. plan # <<>> => base'[plan[Len(plan)].r] = base[plan[Len(plan)].r]
        BY <1>0, <1>5, PlanEnds
    <2>2. ASSUME NEW g \in Rollout, Pursued(g) PROVE Pursued(g)'
        BY <1>1, <1>11, <2>1, <2>2 DEF Pursued, Ahead
    <2>3. pc \in {"readFirst", "readRest"} => inode'[cur.ino].len > 0
        <3>1. cur.ino # 0 => cur.ino \in Inode
            BY <1>0 DEF Typed, Descriptor
        <3> QED
            BY <3>1, <1>0, <1>5 DEF Captures
    <2> QED
        BY <1>0, <1>1, <2>1, <2>2, <2>3 DEF Captures, Exporting
<1>13. Chain' /\ Streamed'
    BY <1>0, <1>1, <1>5, <1>11, PlanEnds DEF Chain, Streamed
<1> QED
    BY <1>2, <1>3, <1>4, <1>8, <1>9, <1>10, <1>12, <1>13 DEF IInv

-----------------------------------------------------------------------------
(* The exporter changes nothing of what Codex keeps.                       *)

\* The exporter leaves the home alone, and what is known of it stays true.
LEMMA SourceKept ==
    ASSUME UNCHANGED source
    PROVE  /\ UNCHANGED <<inode, dir, base, sel, owed, events>>
           /\ \A r : Live(r)' = Live(r)
           /\ Storage => Storage' /\ (Ancestry => Ancestry')
<1>1. UNCHANGED <<inode, dir, base, sel, owed, events>>
    BY DEF source
<1>2. Ancestry => Ancestry'
    BY <1>1 DEF Ancestry
<1>3. \A r : Live(r)' = Live(r)
    BY <1>1 DEF Live
<1>4. Storage => Storage'
    BY <1>1 DEF Storage
<1> QED
    BY <1>1, <1>2, <1>3, <1>4

\* There are three rollouts.
LEMMA Three == Cardinality(Rollout) = 3 /\ IsFiniteSet(Rollout)
<1>1. 1 \in Int /\ 3 \in Int
    OBVIOUS
<1>2. IsFiniteSet(1..3) /\ Cardinality(1..3) = IF 1 > 3 THEN 0 ELSE 3 - 1 + 1
    BY <1>1, FS_Interval, Zenon
<1> QED
    BY <1>2 DEF Rollout

\* The control points.
Points == {"idle", "archived", "sessions", "open", "readFirst", "readRest",
           "lineage", "recheck", "export", "copying", "completed",
           "refused", "aborted"}

\* TypeOK of a step that only adds to the capture.
LEMMA StepTyped ==
    ASSUME IInv, UNCHANGED source, pc' \in Points, Recorded,
           selected' \in {selected, sel}, found' \subseteq Path, todo' \subseteq found',
           end' \in Boundary, cur' \in Descriptor,
           plan' \in Seq(Item), stream' \in Seq(Sent),
           Len(stream') <= Len(plan'), Len(plan') <= 3
    PROVE  TypeOK' /\ Typed' /\ Storage' /\ Ancestry'
<1>0. TypeOK /\ Typed /\ Storage /\ Ancestry
    BY DEF IInv
<1>1. UNCHANGED <<inode, dir, base, sel, owed, events>> /\ Storage' /\ Ancestry'
    BY <1>0, SourceKept
<1>2. Cardinality(Rollout) = 3
    BY Three
<1>3. \A i \in DOMAIN plan' : plan'[i].len > 0
    <2>1. \A f \in Item : f.len > 0
        BY Bounds DEF Item
    <2> QED
        BY <2>1
<1>4. {sel', selected'} \subseteq [r : {0, 2, 3}, area : {"sessions", "archived"}]
    BY <1>0, <1>1 DEF TypeOK
<1>5. rows' \subseteq {0, 2, 3}
    <2>1. sel'.r \in {0, 2, 3}
        BY <1>4
    <2> QED
        BY <2>1, <1>0 DEF Recorded, Typed
<1>6. Typed'
    BY <1>5 DEF Typed
<1>7. TypeOK'
    BY <1>0, <1>1, <1>2, <1>3, <1>4 DEF TypeOK, Points
<1> QED
    BY <1>1, <1>6, <1>7

\* The row stands still during a step of the exporter.
LEMMA StepRow ==
    ASSUME IInv, UNCHANGED source, UNCHANGED selected, Recorded,
           \/ pc \in Capturing /\ pc' \in Capturing
           \/ pc \in Exporting /\ pc' \in Exporting
           \/ pc' \in {"refused", "aborted"}
    PROVE  Row'
<1>0. TypeOK /\ Typed /\ Row
    BY DEF IInv
<1>1. sel' = sel /\ selected' = selected /\ \A r : Live(r)' = Live(r)
    BY SourceKept
<1>2. /\ (selected'.r = 0 => selected' = NoSelection) /\ (sel'.r = 0 => sel' = NoSelection)
      /\ (sel'.r = 3 => Live(3)' # {})
    BY <1>0, <1>1 DEF Row
<1>3. CASE pc \in Capturing /\ pc' \in Capturing
    <2>1. rows' = rows \cup {sel.r}
        BY <1>1, <1>3 DEF Recorded, Capturing
    <2>2. /\ selected.r \in rows
          /\ \A x \in rows : x \in {0, 2, 3} /\ selected.r <= x /\ x <= sel.r
          /\ sel.r \in {0, 2, 3}
        BY <1>0, <1>3 DEF Row, Typed, TypeOK
    <2>3. selected.r \in rows' /\ \A x \in rows' : selected.r <= x /\ x <= sel.r
        BY <2>1, <2>2
    <2> QED
        BY <1>1, <1>2, <1>3, <2>3 DEF Row, Capturing, Exporting
<1>4. CASE pc \in Exporting /\ pc' \in Exporting
    <2>1. rows' = rows
        BY <1>4 DEF Recorded, Exporting
    <2> QED
        BY <1>0, <1>1, <1>2, <1>4, <2>1 DEF Row, Capturing, Exporting
<1>5. CASE pc' \in {"refused", "aborted"}
    BY <1>2, <1>5 DEF Row, Capturing, Exporting
<1> QED
    BY <1>3, <1>4, <1>5

\* What has been captured is not touched by a step that captures nothing.
LEMMA StepChain ==
    ASSUME IInv, UNCHANGED <<source, selected, plan>>
    PROVE  /\ Chain' /\ \A r : Chosen(r)' <=> Chosen(r)
           /\ found' \subseteq found => Inventory'
<1>0. Chain /\ Inventory
    BY DEF IInv
<1>1. base' = base /\ selected' = selected /\ plan' = plan /\ \A r : Live(r)' = Live(r)
    BY SourceKept
<1>2. \A r : Chosen(r)' <=> Chosen(r)
    BY <1>1 DEF Chosen
<1>3. Chain'
    BY <1>0, <1>1, <1>2 DEF Chain
<1> QED
    BY <1>0, <1>1, <1>2, <1>3 DEF Inventory

\* An end without a result.
LEMMA FailStep ==
    ASSUME IInv, UNCHANGED <<source, selected, found, end, cur, plan, stream>>,
           todo' \subseteq todo, Recorded, pc' \in {"refused", "aborted"}
    PROVE  IInv'
<1>0. TypeOK /\ Typed /\ Streamed /\ Captures
    BY DEF IInv
<1>1. /\ Len(stream) <= Len(plan) /\ Len(plan) <= 3
      /\ found \subseteq Path /\ todo \subseteq found /\ end \in Boundary
      /\ cur \in Descriptor /\ plan \in Seq(Item) /\ stream \in Seq(Sent)
    <2>1. Cardinality(Rollout) = 3
        BY Three
    <2> QED
        BY <1>0, <2>1 DEF TypeOK, Typed
<1>2. TypeOK' /\ Typed' /\ Storage' /\ Ancestry'
    BY <1>1, StepTyped DEF Points
<1>3. Row'
    BY StepRow
<1>4. Chain' /\ Inventory'
    BY StepChain
<1>5. Captures'
    BY <1>0 DEF Captures, Capturing, Reading, Exporting
<1>6. Streamed'
    BY <1>0 DEF Streamed
<1> QED
    BY <1>2, <1>3, <1>4, <1>5, <1>6 DEF IInv

-----------------------------------------------------------------------------
(* inspect.                                                                *)

\* What a step of the exporter starts from.
LEMMA Known0 ==
    ASSUME IInv
    PROVE  /\ Len(stream) <= Len(plan) /\ Len(plan) <= 3 /\ Len(plan) \in Nat
           /\ found \subseteq Path /\ todo \subseteq found /\ end \in Boundary
           /\ cur \in Descriptor /\ plan \in Seq(Item) /\ stream \in Seq(Sent)
<1>1. TypeOK /\ Typed
    BY DEF IInv
<1> QED
    BY <1>1, Three DEF TypeOK, Typed

\* The first read of the selection keeps the invariant.
LEMMA ReadSelectionStep ==
    ASSUME IInv, ReadSelection, Recorded
    PROVE  IInv'
<1>0. TypeOK /\ Typed /\ Row /\ Inventory /\ Captures /\ Chain /\ Streamed
    BY DEF IInv
<1>1. /\ pc = "idle" /\ pc' = "archived" /\ selected' = sel /\ UNCHANGED source
      /\ UNCHANGED <<stream, found, todo, end, cur, plan>>
    BY DEF ReadSelection
<1>2. sel' = sel /\ \A r : Live(r)' = Live(r)
    BY <1>1, SourceKept
<1>3. TypeOK' /\ Typed' /\ Storage' /\ Ancestry'
    BY <1>1, Known0, StepTyped DEF Points
<1>4. plan = <<>> /\ stream = <<>> /\ end = NoBase /\ todo = {}
    BY <1>0, <1>1 DEF Captures, Capturing
<1>5. Row'
    <2>1. rows' = {sel.r} /\ sel.r \in {0, 2, 3}
        BY <1>0, <1>1, <1>2 DEF Recorded, Row, TypeOK
    <2>2. selected'.r \in rows' /\ \A x \in rows' : selected'.r <= x /\ x <= sel'.r
        BY <1>1, <1>2, <2>1
    <2> QED
        BY <1>0, <1>1, <1>2, <2>2 DEF Row, Exporting
<1>6. Captures'
    BY <1>1, <1>4 DEF Captures, Reading, Exporting, Capturing
<1>7. Chain'
    BY <1>1, <1>4 DEF Chain
<1>8. Streamed' /\ Inventory'
    BY <1>0, <1>1, <1>2 DEF Streamed, Inventory
<1> QED
    BY <1>3, <1>5, <1>6, <1>7, <1>8 DEF IInv

\* Listing archived_sessions and the prerequisites keeps the invariant.
LEMMA ListArchivedStep ==
    ASSUME IInv, ListArchived, Recorded
    PROVE  IInv'
<1>0. TypeOK /\ Inventory /\ Captures /\ Streamed
    BY DEF IInv
<1>1. /\ pc = "archived" /\ pc' = "sessions" /\ UNCHANGED source
      /\ UNCHANGED <<stream, selected, todo, end, cur, plan>>
      /\ found' = {p \in Path : p.area # "sessions" /\ dir[p] # 0}
    BY DEF ListArchived, Goto
<1>2. plan = <<>> /\ stream = <<>> /\ end = NoBase /\ todo = {}
    BY <1>0, <1>1 DEF Captures, Capturing
<1>3. TypeOK' /\ Typed' /\ Storage' /\ Ancestry'
    BY <1>1, <1>2, Known0, StepTyped DEF Points
<1>4. Row'
    BY <1>1, StepRow DEF Capturing
<1>5. Chain' /\ \A r : Live(r)' = Live(r)
    BY <1>1, StepChain, SourceKept
<1>6. Inventory'
    BY <1>1, <1>5 DEF Inventory, Live
<1>7. Captures'
    BY <1>1, <1>2 DEF Captures, Reading, Exporting, Capturing
<1>8. Streamed'
    BY <1>0, <1>1 DEF Streamed
<1> QED
    BY <1>3, <1>4, <1>5, <1>6, <1>7, <1>8 DEF IInv

\* The one rollout that is left belongs to the thread and still exists.
LEMMA MainIsChosen ==
    ASSUME TypeOK, Row, Inventory,
           NEW p \in MainCandidates(found \cup {x \in Path : x.area = "sessions" /\ dir[x] # 0})
    PROVE  Chosen(p.r) /\ p.r \in Rollout /\ p \in Path /\ p.area # "prerequisite"
<1> DEFINE paths == found \cup {x \in Path : x.area = "sessions" /\ dir[x] # 0}
<1>1. p \in paths /\ paths \subseteq Path
    BY DEF MainCandidates, TypeOK
<1>2. p.r \in Rollout
    BY <1>1, OtherPaths
<1>3. ASSUME p.area # "prerequisite" PROVE Live(p.r) # {}
    <2>1. CASE p \in found
        BY <2>1, <1>3 DEF Inventory
    <2>2. CASE p \in Path /\ p.area = "sessions" /\ dir[p] # 0
        BY <2>2 DEF Live
    <2> QED
        BY <1>1, <2>1, <2>2
<1>4. CASE selected = NoSelection
    <2>1. p.r \in Thread /\ p.area # "prerequisite"
        BY <1>4 DEF MainCandidates
    <2> QED
        BY <1>1, <1>2, <1>3, <1>4, <2>1 DEF Chosen
<1>5. CASE selected # NoSelection
    <2>1. p.r = selected.r /\ p.area = selected.area
        BY <1>5 DEF MainCandidates
    <2>2. selected.r \in {0, 2, 3} /\ selected.area \in {"sessions", "archived"}
        BY DEF TypeOK
    <2>3. selected.r # 0
        BY <1>5 DEF Row
    <2> QED
        BY <1>1, <1>2, <1>3, <1>5, <2>1, <2>2, <2>3 DEF Chosen, Thread
<1> QED
    BY <1>4, <1>5

\* Listing sessions, and choosing the requested file, keeps the invariant.
LEMMA ListSessionsStep ==
    ASSUME IInv, ListSessions, Recorded
    PROVE  IInv'
<1> DEFINE paths == found \cup {x \in Path : x.area = "sessions" /\ dir[x] # 0}
           main == MainCandidates(paths)
           named == {p.r : p \in main}
<1>0. TypeOK /\ Row /\ Inventory /\ Captures /\ Streamed
    BY DEF IInv
<1>1. pc = "sessions"
    BY DEF ListSessions
<1>2. plan = <<>> /\ stream = <<>> /\ end = NoBase
    BY <1>0, <1>1 DEF Captures, Capturing
<1>3. CASE Cardinality(named) # 1
    <2>1. Fail("refused")
        BY <1>3 DEF ListSessions
    <2> QED
        BY <2>1, FailStep DEF Fail, Goto, capture
<1>4. CASE Cardinality(named) = 1
    <2>1. /\ found' = paths /\ todo' = main /\ pc' = "open" /\ UNCHANGED source
          /\ UNCHANGED <<stream, selected, end, cur, plan>>
        BY <1>4 DEF ListSessions, Goto
    <2>2. \A p \in main :
            Chosen(p.r) /\ p.r \in Rollout /\ p \in Path /\ p.area # "prerequisite"
        BY <1>0, MainIsChosen
    <2>3. main \subseteq paths /\ paths \subseteq Path
        BY <1>0 DEF MainCandidates, TypeOK
    <2>4. PICK g \in Rollout : Chosen(g) /\ \A p \in main : p.r = g
        <3>1. named \subseteq Rollout
            BY <2>2
        <3>2. IsFiniteSet(named)
            BY <3>1, Three, FS_Subset, Zenon
        <3> HIDE DEF named
        <3>3. PICK g : named = {g}
            BY <3>2, <1>4, FS_Singleton
        <3>4. \E p \in main : p.r = g
            BY <3>3 DEF named
        <3>5. \A p \in main : p.r = g
            BY <3>3 DEF named
        <3> QED
            BY <3>4, <3>5, <2>2
    <2> HIDE DEF main, paths
    <2>5. TypeOK' /\ Typed' /\ Storage' /\ Ancestry'
        BY <2>1, <2>3, Known0, StepTyped DEF Points
    <2>6. Row'
        BY <1>1, <2>1, StepRow DEF Capturing
    <2>7. Chain' /\ (\A r : Live(r)' = Live(r)) /\ \A r : Chosen(r)' <=> Chosen(r)
        BY <2>1, StepChain, SourceKept
    <2>8. Inventory'
        <3>1. \A p \in paths : p.area # "prerequisite" => Live(p.r) # {}
            BY <1>0 DEF paths, Inventory, Live
        <3> QED
            BY <2>1, <2>7, <3>1 DEF Inventory
    <2>9. Pursued(g)'
        BY <1>2, <2>1, <2>2, <2>4, <2>7 DEF Pursued, Ahead
    <2>10. Captures'
        BY <1>0, <1>2, <2>1, <2>9 DEF Captures, Reading, Exporting, Capturing
    <2>11. Streamed'
        BY <1>0, <2>1 DEF Streamed
    <2> QED
        BY <2>5, <2>6, <2>7, <2>8, <2>10, <2>11 DEF IInv
<1> QED
    BY <1>3, <1>4

\* Opening a file of the inventory keeps the invariant.
LEMMA OpenStep ==
    ASSUME IInv, Open, Recorded
    PROVE  IInv'
<1>0. TypeOK /\ Typed /\ Inventory /\ Captures /\ Streamed
    BY DEF IInv
<1>1. PICK p \in todo :
        /\ pc = "open" /\ todo' = todo \ {p}
        /\ IF Unreadable(p)
           THEN Goto("refused") /\ UNCHANGED <<selected, found, end, cur, plan>>
           ELSE /\ cur' = [ino |-> dir[p], path |-> p, first |-> 0,
                           size |-> IF end = NoBase THEN inode[dir[p]].len
                                    ELSE end.len]
                /\ Goto("readFirst")
                /\ UNCHANGED <<selected, found, end, plan>>
    BY DEF Open
<1>2. CASE Unreadable(p)
    <2>1. Goto("refused") /\ UNCHANGED <<selected, found, end, cur, plan>>
        BY <1>1, <1>2
    <2> QED
        BY <1>1, <2>1, FailStep DEF Goto
<1>3. CASE ~Unreadable(p)
    <2>1. /\ cur' = [ino |-> dir[p], path |-> p, first |-> 0,
                     size |-> IF end = NoBase THEN inode[dir[p]].len ELSE end.len]
          /\ pc' = "readFirst" /\ UNCHANGED source
          /\ UNCHANGED <<selected, found, end, plan, stream>>
        BY <1>1, <1>3 DEF Goto
    <2>2. p \in Path /\ dir[p] \in Inode /\ dir[p] # 0 /\ inode[dir[p]] \in File
        BY <1>0, <1>3 DEF TypeOK, Unreadable
    <2>3. inode[dir[p]].len \in 1..MaxLen /\ inode[dir[p]].len > 0
        BY <1>3, <2>2, Bounds DEF Unreadable, File
    <2>4. end # NoBase => end.len \in 0..MaxLen /\ end.len > 0
        BY <1>0 DEF Captures, TypeOK, Boundary
    <2>5. /\ cur' \in Descriptor /\ cur'.ino = dir[p] /\ cur'.path = p
          /\ cur'.size > 0
        <3>1. (IF end = NoBase THEN inode[dir[p]].len ELSE end.len) \in 0..MaxLen
            BY <2>3, <2>4, Bounds
        <3>2. (IF end = NoBase THEN inode[dir[p]].len ELSE end.len) > 0
            BY <2>3, <2>4
        <3> QED
            BY <2>1, <2>2, <3>1, <3>2 DEF Descriptor
    <2>6. TypeOK' /\ Typed' /\ Storage' /\ Ancestry'
        <3>1. todo' \subseteq found'
            BY <1>1, <2>1, Known0
        <3> QED
            BY <2>1, <2>5, <3>1, Known0, StepTyped DEF Points
    <2>7. Row'
        BY <1>1, <2>1, StepRow DEF Capturing
    <2>8. Chain' /\ Inventory' /\ (\A r : Chosen(r)' <=> Chosen(r)) /\ inode' = inode
          /\ base' = base
        BY <2>1, StepChain, SourceKept
    <2>9. PICK g \in Rollout : Pursued(g)
        BY <1>0, <1>1 DEF Captures, Reading
    <2>10. Pursued(g)'
        <3>1. Ahead' = Ahead
            BY <1>1, <2>1, <2>5 DEF Ahead
        <3> QED
            BY <1>1, <2>1, <2>8, <2>9, <3>1 DEF Pursued
    <2>11. Captures'
        BY <1>0, <1>1, <2>1, <2>2, <2>3, <2>5, <2>8, <2>10
        DEF Captures, Reading, Exporting, Capturing
    <2>12. Streamed'
        BY <1>0, <2>1 DEF Streamed
    <2> QED
        BY <2>6, <2>7, <2>8, <2>11, <2>12 DEF IInv
<1> QED
    BY <1>2, <1>3

\* The first half of a read keeps the invariant.
LEMMA ReadFirstStep ==
    ASSUME IInv, ReadFirst, Recorded
    PROVE  IInv'
<1>0. TypeOK /\ Typed /\ Captures /\ Streamed
    BY DEF IInv
<1>1. /\ pc = "readFirst" /\ pc' = "readRest" /\ UNCHANGED source
      /\ cur' = [cur EXCEPT !.first = inode[cur.ino].ver]
      /\ UNCHANGED <<selected, found, todo, end, plan, stream>>
    BY DEF ReadFirst, Goto
<1>2. cur \in Descriptor /\ cur.ino # 0 /\ cur.size > 0 /\ inode[cur.ino].len > 0
    BY <1>0, <1>1 DEF Captures, Typed
<1>3. inode[cur.ino].ver \in Nat
    BY <1>0, <1>2 DEF TypeOK, File, Descriptor
<1>4. /\ cur' \in Descriptor /\ cur'.ino = cur.ino /\ cur'.path = cur.path
      /\ cur'.size = cur.size
    BY <1>1, <1>2, <1>3 DEF Descriptor
<1>5. TypeOK' /\ Typed' /\ Storage' /\ Ancestry'
    BY <1>1, <1>4, Known0, StepTyped DEF Points
<1>6. Row'
    BY <1>1, StepRow DEF Capturing
<1>7. Chain' /\ Inventory' /\ (\A r : Chosen(r)' <=> Chosen(r)) /\ inode' = inode
      /\ base' = base
    BY <1>1, StepChain, SourceKept
<1>8. PICK g \in Rollout : Pursued(g)
    BY <1>0, <1>1 DEF Captures, Reading
<1>9. Pursued(g)'
    <2>1. Ahead' = Ahead
        BY <1>1, <1>4 DEF Ahead
    <2> QED
        BY <1>1, <1>7, <1>8, <2>1 DEF Pursued
<1>10. Captures'
    BY <1>0, <1>1, <1>2, <1>4, <1>7, <1>9 DEF Captures, Reading, Exporting, Capturing
<1>11. Streamed'
    BY <1>0, <1>1 DEF Streamed
<1> QED
    BY <1>5, <1>6, <1>7, <1>10, <1>11 DEF IInv

\* The shorter of two lengths.
LEMMA Shorter ==
    ASSUME NEW a \in Nat, NEW b \in Nat
    PROVE  Min({a, b}) = IF a <= b THEN a ELSE b
<1>1. CASE a <= b
    <2>1. \A x \in {a, b} : (\A y \in {a, b} : x <= y) => x = a
        BY <1>1
    <2>2. \A y \in {a, b} : a <= y
        BY <1>1
    <2> QED
        BY <1>1, <2>1, <2>2 DEF Min
<1>2. CASE ~(a <= b)
    <2>1. \A x \in {a, b} : (\A y \in {a, b} : x <= y) => x = b
        BY <1>2
    <2>2. \A y \in {a, b} : b <= y
        BY <1>2
    <2> QED
        BY <1>2, <2>1, <2>2 DEF Min
<1> QED
    BY <1>1, <1>2

\* What is read is a file with at least one record.
LEMMA CapturedTyped ==
    ASSUME IInv, pc = "readRest"
    PROVE  /\ Captured \in Item /\ Captured.r = cur.path.r /\ Captured.ino = cur.ino
           /\ Captured.len = (IF cur.size <= inode[cur.ino].len
                              THEN cur.size ELSE inode[cur.ino].len)
           /\ Captured.first = cur.first /\ Captured.rest \in {cur.first, inode[cur.ino].ver}
           /\ (Captured.len # 1 => Captured.rest = inode[cur.ino].ver)
           /\ (Captured.len = 1 => Captured.rest = cur.first)
<1> DEFINE f == inode[cur.ino]
           n == IF cur.size <= f.len THEN cur.size ELSE f.len
<1>0. TypeOK /\ Typed /\ Captures
    BY DEF IInv
<1>1. /\ cur.ino \in Inode /\ cur.path \in Path /\ cur.size \in 0..MaxLen /\ cur.size > 0
      /\ cur.first \in Nat
    BY <1>0 DEF Captures, Typed, Descriptor
<1>2. f.len \in 0..MaxLen /\ f.len > 0 /\ f.ver \in Nat
    BY <1>0, <1>1 DEF TypeOK, File, Captures
<1>3. n \in 1..MaxLen /\ Min({cur.size, f.len}) = n
    BY <1>1, <1>2, Shorter, Bounds
<1>4. cur.path.r \in Rollout /\ cur.path.zst \in BOOLEAN
    BY <1>1, OtherPaths
<1>5. Captured = [r |-> cur.path.r, ino |-> cur.ino, len |-> n, first |-> cur.first,
                  rest |-> IF n = 1 THEN cur.first ELSE f.ver,
                  zst |-> cur.path.zst, prefix |-> end # NoBase]
    BY <1>3 DEF Captured, Rest
<1>6. (IF n = 1 THEN cur.first ELSE f.ver) \in Nat
    BY <1>1, <1>2
<1> HIDE DEF n, f
<1>7. Captured \in Item
    BY <1>1, <1>3, <1>4, <1>5, <1>6 DEF Item
<1> QED
    BY <1>5, <1>7 DEF n, f

\* A file is appended only if it is what the last one inherits.
LEMMA Extends ==
    ASSUME IInv, pc = "readRest", NEW g \in Rollout, Pursued(g), plan # <<>>,
           plan[Len(plan)].r # g
    PROVE  /\ end # NoBase /\ end = base[plan[Len(plan)].r] /\ end.r = g
           /\ g = plan[Len(plan)].r - 1 /\ g + (Len(plan) + 1) <= 4 /\ Len(plan) + 1 <= 3
<1> DEFINE last == plan[Len(plan)].r
<1>0. Typed /\ Ancestry /\ Chain
    BY DEF IInv
<1>1. /\ Len(plan) \in DOMAIN plan /\ last \in Rollout /\ Len(plan) \in Nat
    BY <1>0, PlanEnds
<1>2. end # NoBase /\ end = base[last] /\ end.r = g
    BY DEF Pursued
<1>3. last + Len(plan) <= 4 /\ last \in 1..3 /\ g \in 1..3
    BY <1>0, <1>1 DEF Chain, Rollout
<1>4. g = last - 1
    <2>1. last # 1
        BY <1>0, <1>2 DEF Ancestry
    <2>2. last = 2 => g = 1
        BY <1>0, <1>2 DEF Ancestry
    <2>3. last = 3 => g = 2
        BY <1>0, <1>2 DEF Ancestry
    <2> QED
        BY <2>1, <2>2, <2>3, <1>3
<1> HIDE DEF last
<1>5. g + (Len(plan) + 1) <= 4 /\ Len(plan) + 1 <= 3
    BY <1>1, <1>3, <1>4
<1> QED
    BY <1>2, <1>4, <1>5 DEF last

\* The second half of a read, which captures the file, keeps the invariant.
LEMMA ReadRestStep ==
    ASSUME IInv, ReadRest, Recorded
    PROVE  IInv'
<1>0. TypeOK /\ Typed /\ Inventory /\ Captures /\ Streamed /\ Chain
    BY DEF IInv
<1>1. pc = "readRest" /\ stream = <<>> /\ Len(stream) = 0
    BY <1>0 DEF ReadRest, Captures, Capturing
<1> DEFINE bad == \/ end # NoBase /\ Captured.len # end.len
                  \/ inode[cur.ino].tail /\ inode[cur.ino].len < cur.size
                  \/ Known /\ ~Same(plan[Len(plan)], Captured)
<1>2. CASE bad
    <2>1. Fail("refused")
        BY <1>2 DEF ReadRest
    <2> QED
        BY <2>1, FailStep DEF Fail, Goto, capture
<1>3. CASE ~bad
    <2>1. /\ plan' = IF Known THEN plan ELSE Append(plan, Captured)
          /\ pc' = IF todo # {} THEN "open" ELSE "lineage"
          /\ UNCHANGED source /\ UNCHANGED <<stream, selected, found, todo, end, cur>>
        BY <1>3 DEF ReadRest, Goto
    <2>2. end # NoBase => Captured.len = end.len
        BY <1>3
    <2> HIDE DEF bad
    <2>3. PICK g \in Rollout : Pursued(g)
        BY <1>0, <1>1 DEF Captures, Reading
    <2>4. cur.path.r = g /\ \A p \in todo : p.r = g
        BY <1>1, <2>3 DEF Pursued, Ahead
    <2>5. Captured \in Item /\ Captured.r = g
        BY <1>1, <2>4, CapturedTyped
    <2>6. /\ Len(plan) \in Nat /\ DOMAIN plan = 1..Len(plan) /\ plan \in Seq(Item)
          /\ (plan = <<>> => Len(plan) = 0) /\ (plan # <<>> => Len(plan) >= 1)
          /\ \A i \in DOMAIN plan : plan[i].r \in Rollout
        BY <1>0, PlanEnds DEF Typed
    <2>7. /\ \A r : Live(r)' = Live(r)
          /\ base' = base /\ inode' = inode
          /\ \A r : Chosen(r)' <=> Chosen(r)
        BY <2>1, SourceKept DEF Chosen
    <2>8. /\ plan' \in Seq(Item) /\ plan' # <<>> /\ Len(plan') <= 3 /\ Len(plan') \in Nat
          /\ plan'[Len(plan')].r = g /\ Chain'
        <3>1. CASE Known
            <4>1. plan' = plan /\ plan # <<>> /\ plan[Len(plan)].r = g
                BY <2>1, <2>4, <3>1 DEF Known
            <4>2. Chain'
                BY <1>0, <4>1, <2>7 DEF Chain
            <4> QED
                BY <4>1, <4>2, <2>6, Known0
        <3>2. CASE ~Known
            <4>1. /\ plan' = Append(plan, Captured) /\ plan' \in Seq(Item)
                  /\ Len(plan') = Len(plan) + 1 /\ DOMAIN plan' = 1..(Len(plan) + 1)
                  /\ plan'[Len(plan) + 1] = Captured
                  /\ \A i \in 1..Len(plan) : plan'[i] = plan[i]
                BY <2>1, <2>5, <2>6, <3>2
            <4>2. CASE plan = <<>>
                <5>1. Len(plan) = 0 /\ Chosen(g)
                    BY <2>6, <2>3, <4>2 DEF Pursued
                <5>2. Len(plan') = 1 /\ DOMAIN plan' = {1} /\ plan'[1].r = g
                    BY <5>1, <4>1, <2>5
                <5>3. g + 1 <= 4
                    BY DEF Rollout
                <5>4. Chain'
                    BY <5>1, <5>2, <5>3, <2>7 DEF Chain
                <5> QED
                    BY <4>1, <5>2, <5>4
            <4>3. CASE plan # <<>>
                <5>1. plan[Len(plan)].r # g
                    BY <2>4, <3>2, <4>3 DEF Known
                <5>2. /\ end # NoBase /\ end = base[plan[Len(plan)].r] /\ end.r = g
                      /\ g + (Len(plan) + 1) <= 4 /\ Len(plan) + 1 <= 3
                    BY <1>1, <2>3, <4>3, <5>1, Extends
                <5>3. end = [r |-> g, len |-> Captured.len]
                    BY <1>0, <2>2, <5>2 DEF TypeOK, Boundary
                <5>4. Chosen(plan[1].r)'
                    <6>1. plan'[1] = plan[1] /\ Chosen(plan[1].r)
                        BY <1>0, <2>6, <4>1, <4>3 DEF Chain
                    <6> QED
                        BY <6>1, <2>1, <2>7 DEF Chosen
                <5>5. \A i \in DOMAIN plan' : plan'[i].r + i <= 4
                    BY <1>0, <2>5, <2>6, <4>1, <5>2 DEF Chain
                <5>6. \A i \in DOMAIN plan' : i < Len(plan') =>
                          base'[plan'[i].r] = [r |-> plan'[i + 1].r, len |-> plan'[i + 1].len]
                    <6> SUFFICES ASSUME NEW i \in 1..Len(plan)
                                 PROVE  base[plan'[i].r] =
                                          [r |-> plan'[i + 1].r, len |-> plan'[i + 1].len]
                        BY <2>6, <2>7, <4>1
                    <6>1. CASE i < Len(plan)
                        <7>1. i + 1 \in 1..Len(plan) /\ i \in 1..Len(plan)
                            BY <6>1, <2>6
                        <7>2. base[plan[i].r] = [r |-> plan[i + 1].r, len |-> plan[i + 1].len]
                            BY <6>1, <1>0, <2>6 DEF Chain
                        <7> QED
                            BY <7>1, <7>2, <4>1
                    <6>2. CASE i = Len(plan)
                        BY <6>2, <4>1, <5>2, <5>3, <2>5
                    <6> QED
                        BY <6>1, <6>2, <2>6
                <5>7. Chain'
                    BY <5>4, <5>5, <5>6 DEF Chain
                <5>8. Len(plan') <= 3 /\ Len(plan') \in Nat /\ plan' # <<>>
                    BY <2>6, <4>1, <5>2
                <5> QED
                    BY <4>1, <5>7, <5>8, <2>5
            <4> QED
                BY <4>2, <4>3
        <3> QED
            BY <3>1, <3>2
    <2>9. TypeOK' /\ Typed' /\ Storage' /\ Ancestry'
        <3>1. pc' \in Points /\ Len(stream') <= Len(plan')
            BY <1>1, <2>1, <2>8 DEF Points
        <3> QED
            BY <2>1, <2>8, <3>1, Known0, StepTyped
    <2>10. Row'
        BY <1>1, <2>1, StepRow DEF Capturing
    <2>11. Inventory'
        BY <1>0, <2>1, <2>7 DEF Inventory
    <2>12. Captures'
        <3>1. pc' \in Reading => Pursued(g)'
            BY <2>1, <2>4, <2>8 DEF Reading, Pursued, Ahead
        <3> QED
            BY <1>0, <1>1, <2>1, <2>8, <3>1 DEF Captures, Reading, Capturing, Exporting
    <2>13. Streamed'
        <3>1. Len(stream') <= Len(plan') /\ DOMAIN stream' = {}
            BY <1>1, <2>1, <2>8
        <3>2. pc' # "copying" /\ pc' # "completed"
            BY <2>1
        <3> QED
            BY <3>1, <3>2 DEF Streamed
    <2> QED
        BY <2>8, <2>9, <2>10, <2>11, <2>12, <2>13 DEF IInv
<1> QED
    BY <1>2, <1>3

\* Following the inherited history keeps the invariant.
LEMMA LineageStep ==
    ASSUME IInv, Lineage, Recorded
    PROVE  IInv'
<1> DEFINE b == base[plan[Len(plan)].r]
           next == {p \in found : p.r = b.r}
<1>0. TypeOK /\ Typed /\ Ancestry /\ Inventory /\ Captures /\ Streamed
    BY DEF IInv
<1>1. pc = "lineage" /\ plan # <<>> /\ stream = <<>> /\ (end # NoBase => end.len > 0)
    BY <1>0 DEF Lineage, Captures, Capturing
<1>2. Len(plan) \in DOMAIN plan /\ plan[Len(plan)].r \in Rollout
    BY <1>0, <1>1, PlanEnds
<1>3. CASE b = NoBase
    <2>1. /\ pc' = "recheck" /\ UNCHANGED source
          /\ UNCHANGED <<stream, selected, found, todo, end, cur, plan>>
        BY <1>3 DEF Lineage, Goto, capture
    <2>2. TypeOK' /\ Typed' /\ Storage' /\ Ancestry'
        BY <2>1, Known0, StepTyped DEF Points
    <2>3. Row'
        BY <1>1, <2>1, StepRow DEF Capturing
    <2>4. Chain' /\ Inventory' /\ base' = base
        BY <2>1, StepChain, SourceKept
    <2>5. Captures'
        BY <1>1, <1>3, <2>1, <2>4 DEF Captures, Reading, Exporting, Capturing
    <2>6. Streamed'
        BY <1>0, <2>1 DEF Streamed
    <2> QED
        BY <2>2, <2>3, <2>4, <2>5, <2>6 DEF IInv
<1>4. CASE b # NoBase /\ next = {}
    <2>1. Fail("refused")
        BY <1>4 DEF Lineage
    <2> QED
        BY <2>1, FailStep DEF Fail, Goto, capture
<1>5. CASE b # NoBase /\ next # {}
    <2>1. /\ end' = b /\ todo' = next /\ pc' = "open" /\ UNCHANGED source
          /\ UNCHANGED <<stream, selected, found, cur, plan>>
        BY <1>5 DEF Lineage, Goto
    <2>2. b \in Boundary
        BY <1>0, <1>2 DEF TypeOK
    <2>3. b.r \in Rollout /\ b.len > 0
        <3>1. plan[Len(plan)].r \in {1, 2, 3}
            BY <1>2 DEF Rollout
        <3>2. b.len > 0
            BY <1>0, <1>2, <1>5 DEF Ancestry
        <3>3. b.r \in {1, 2}
            BY <1>0, <1>5, <3>1 DEF Ancestry
        <3> QED
            BY <3>2, <3>3 DEF Rollout
    <2>4. next \subseteq found /\ \A p \in next : p.r = b.r
        OBVIOUS
    <2> HIDE DEF next
    <2>5. TypeOK' /\ Typed' /\ Storage' /\ Ancestry'
        BY <2>1, <2>2, <2>4, Known0, StepTyped DEF Points
    <2>6. Row'
        BY <1>1, <2>1, StepRow DEF Capturing
    <2>7. Chain' /\ Inventory' /\ base' = base
        BY <2>1, StepChain, SourceKept
    <2>0. PICK g \in Rollout : g = b.r
        BY <2>3
    <2>8. Pursued(g)'
        <3>1. \A p \in Ahead' : p.r = g
            BY <2>0, <2>1, <2>4 DEF Ahead
        <3>2. /\ plan' # <<>> /\ end' # NoBase /\ end' = base'[plan'[Len(plan')].r]
              /\ end'.r = g
            BY <1>1, <1>5, <2>0, <2>1, <2>7
        <3> QED
            BY <3>1, <3>2 DEF Pursued
    <2>9. Captures'
        <3> HIDE DEF b
        <3> QED
            BY <1>1, <2>1, <2>3, <2>8 DEF Captures, Reading, Exporting, Capturing
    <2>10. Streamed'
        BY <1>0, <2>1 DEF Streamed
    <2> QED
        BY <2>5, <2>6, <2>7, <2>9, <2>10 DEF IInv
<1> QED
    BY <1>3, <1>4, <1>5

\* The second read of the selection keeps the invariant.
LEMMA RecheckStep ==
    ASSUME IInv, Recheck, Recorded
    PROVE  IInv'
<1>0. TypeOK /\ Typed /\ Row /\ Captures /\ Streamed
    BY DEF IInv
<1>1. /\ pc = "recheck" /\ pc' = (IF SelectionHolds THEN "export" ELSE "refused")
      /\ UNCHANGED source
      /\ UNCHANGED <<stream, selected, found, todo, end, cur, plan>>
    BY DEF Recheck, Fail, Goto, capture
<1>2. CASE ~SelectionHolds
    BY <1>1, <1>2, FailStep
<1>3. CASE SelectionHolds
    <2>1. sel = selected /\ pc' = "export" /\ sel' = sel
        BY <1>1, <1>3, SourceKept DEF SelectionHolds
    <2>2. TypeOK' /\ Typed' /\ Storage' /\ Ancestry'
        BY <1>1, <2>1, Known0, StepTyped DEF Points
    <2>3. Row'
        <3>1. rows' = rows
            BY <2>1 DEF Recorded
        <3>2. /\ selected.r \in rows /\ rows \subseteq {0, 2, 3}
              /\ \A x \in rows : selected.r <= x /\ x <= selected.r
            BY <1>0, <1>1, <2>1 DEF Row, Typed, Capturing
        <3>3. rows = {selected.r}
            <4>1. selected.r \in {0, 2, 3} /\ \A x \in rows : x \in {0, 2, 3}
                BY <3>2
            <4>2. \A x \in rows : x = selected.r
                BY <3>2, <4>1
            <4> QED
                BY <3>2, <4>2
        <3>4. \A r : Live(r)' = Live(r)
            BY <1>1, SourceKept
        <3> QED
            BY <1>0, <1>1, <2>1, <3>1, <3>3, <3>4 DEF Row, Capturing
    <2>4. Chain' /\ Inventory' /\ base' = base
        BY <1>1, StepChain, SourceKept
    <2>5. Captures'
        BY <1>0, <1>1, <2>1, <2>4 DEF Captures, Reading, Exporting, Capturing
    <2>6. Streamed'
        BY <1>0, <1>1, <2>1 DEF Streamed
    <2> QED
        BY <2>2, <2>3, <2>4, <2>5, <2>6 DEF IInv
<1> QED
    BY <1>2, <1>3

-----------------------------------------------------------------------------
(* Export.                                                                 *)

\* The file being sent is one of the plan.
LEMMA SendingIs ==
    ASSUME IInv, Len(stream) < Len(plan)
    PROVE  /\ Len(plan) - Len(stream) \in DOMAIN plan /\ Sending \in Item
           /\ Sending.ino \in Inode /\ inode[Sending.ino].ver \in Nat
           /\ Sending.r \in Rollout /\ Sending.len \in 1..MaxLen
<1>0. TypeOK /\ Typed
    BY DEF IInv
<1>1. Len(plan) - Len(stream) \in DOMAIN plan
    BY <1>0, PlanEnds
<1>2. Sending \in Item
    BY <1>0, <1>1, PlanEnds DEF Sending
<1>3. Sending.ino \in Inode /\ Sending.r \in Rollout /\ Sending.len \in 1..MaxLen
    BY <1>2 DEF Item
<1>4. inode[Sending.ino].ver \in Nat
    BY <1>0, <1>3 DEF TypeOK, File
<1> QED
    BY <1>1, <1>2, <1>3, <1>4

\* Sending the first half of a file keeps the invariant.
LEMMA CopyFirstStep ==
    ASSUME IInv, CopyFirst, Recorded
    PROVE  IInv'
<1>0. Typed /\ Captures /\ Streamed
    BY DEF IInv
<1>1. /\ pc = "export" /\ pc' = "copying" /\ Len(stream) < Len(plan)
      /\ cur' = [cur EXCEPT !.first = inode[Sending.ino].ver] /\ UNCHANGED source
      /\ UNCHANGED <<stream, selected, found, todo, end, plan>>
    BY DEF CopyFirst, Goto
<1>2. cur' \in Descriptor
    BY <1>0, <1>1, SendingIs DEF Typed, Descriptor
<1>3. TypeOK' /\ Typed' /\ Storage' /\ Ancestry'
    BY <1>1, <1>2, Known0, StepTyped DEF Points
<1>4. Row'
    BY <1>1, StepRow DEF Exporting
<1>5. Chain' /\ Inventory' /\ base' = base
    BY <1>1, StepChain, SourceKept
<1>6. Captures'
    BY <1>0, <1>1, <1>5 DEF Captures, Reading, Exporting, Capturing
<1>7. Streamed'
    BY <1>0, <1>1 DEF Streamed
<1> QED
    BY <1>3, <1>4, <1>5, <1>6, <1>7 DEF IInv

\* Sending the rest, and comparing it with the capture, keeps the invariant.
LEMMA CopyRestStep ==
    ASSUME IInv, CopyRest, Recorded
    PROVE  IInv'
<1>0. Typed /\ Captures /\ Streamed
    BY DEF IInv
<1>1. /\ pc = "copying" /\ Len(stream) < Len(plan) /\ UNCHANGED source
      /\ UNCHANGED <<selected, found, todo, end, cur, plan>>
    BY <1>0 DEF CopyRest, Streamed, capture
<1>2. CASE ~Verified(Sending)
    <2>1. pc' = "aborted" /\ UNCHANGED stream
        BY <1>2 DEF CopyRest
    <2> QED
        BY <1>1, <2>1, FailStep
<1>3. CASE Verified(Sending)
    <2> DEFINE e == [r |-> Sending.r, len |-> Sending.len, first |-> cur.first,
                     rest |-> Rest(Sending.len, inode[Sending.ino])]
    <2>1. pc' = "export" /\ stream' = Append(stream, e)
        BY <1>3 DEF CopyRest
    <2>2. /\ e.r = Sending.r /\ e.len = Sending.len /\ e.first = Sending.first
          /\ e.rest = Sending.rest
        BY <1>3 DEF Verified
    <2>3. e \in Sent
        <3>1. cur.first \in Nat /\ Rest(Sending.len, inode[Sending.ino]) \in Nat
            BY <1>0, <1>1, SendingIs DEF Typed, Descriptor, Rest
        <3> QED
            BY <1>1, <3>1, SendingIs DEF Sent
    <2> HIDE DEF e
    <2>4. /\ Len(stream) \in Nat /\ Len(plan) \in Nat /\ stream \in Seq(Sent)
          /\ DOMAIN stream = 1..Len(stream)
        BY <1>0, PlanEnds DEF Typed
    <2>5. /\ stream' \in Seq(Sent) /\ Len(stream') = Len(stream) + 1
          /\ DOMAIN stream' = 1..(Len(stream) + 1) /\ stream'[Len(stream) + 1] = e
          /\ \A i \in 1..Len(stream) : stream'[i] = stream[i]
        BY <2>1, <2>3, <2>4
    <2>6. Len(stream') <= Len(plan')
        BY <1>1, <2>4, <2>5
    <2>7. TypeOK' /\ Typed' /\ Storage' /\ Ancestry'
        BY <1>1, <2>1, <2>5, <2>6, Known0, StepTyped DEF Points
    <2>8. Row'
        BY <1>1, <2>1, StepRow DEF Exporting
    <2>9. Chain' /\ Inventory' /\ base' = base
        BY <1>1, StepChain, SourceKept
    <2>10. Captures'
        BY <1>0, <1>1, <2>1, <2>9 DEF Captures, Reading, Exporting, Capturing
    <2>11. Streamed'
        <3>1. ASSUME NEW i \in DOMAIN stream'
              PROVE  LET f == plan'[Len(plan') + 1 - i] IN
                     /\ stream'[i].r = f.r /\ stream'[i].len = f.len
                     /\ stream'[i].first = f.first /\ stream'[i].rest = f.rest
            <4>1. CASE i \in 1..Len(stream)
                BY <4>1, <1>0, <1>1, <2>4, <2>5 DEF Streamed
            <4>2. CASE i = Len(stream) + 1
                <5>1. Len(plan) + 1 - i = Len(plan) - Len(stream)
                    BY <4>2, <2>4
                <5> QED
                    BY <4>2, <5>1, <1>1, <2>2, <2>5 DEF Sending
            <4> QED
                BY <2>4, <2>5, <4>1, <4>2
        <3> QED
            BY <2>1, <2>6, <3>1 DEF Streamed
    <2> QED
        BY <2>7, <2>8, <2>9, <2>10, <2>11 DEF IInv
<1> QED
    BY <1>2, <1>3

\* The end of the stream keeps the invariant.
LEMMA CompleteStep ==
    ASSUME IInv, Complete, Recorded
    PROVE  IInv'
<1>0. Captures /\ Streamed
    BY DEF IInv
<1>1. /\ pc = "export" /\ pc' = "completed" /\ Len(stream) = Len(plan) /\ UNCHANGED source
      /\ UNCHANGED <<stream, selected, found, todo, end, cur, plan>>
    BY DEF Complete, Fail, Goto, capture
<1>2. TypeOK' /\ Typed' /\ Storage' /\ Ancestry'
    BY <1>1, Known0, StepTyped DEF Points
<1>3. Row'
    BY <1>1, StepRow DEF Exporting
<1>4. Chain' /\ Inventory' /\ base' = base
    BY <1>1, StepChain, SourceKept
<1>5. Captures'
    BY <1>0, <1>1, <1>4 DEF Captures, Reading, Exporting, Capturing
<1>6. Streamed'
    BY <1>0, <1>1 DEF Streamed
<1> QED
    BY <1>2, <1>3, <1>4, <1>5, <1>6 DEF IInv

-----------------------------------------------------------------------------
(* Theorems.                                                               *)

\* The invariant holds of a home on which no export has begun.
LEMMA InitIInv ==
    ASSUME Init
    PROVE  IInv
<1>1. PICK m \in {0, MaxLen - 1}, b \in {1, MaxLen - 1} :
        /\ inode = [i \in Inode |->
              CASE i = 1 -> [len |-> MaxLen - 1, ver |-> 1, tail |-> TRUE]
                [] i = 2 -> [len |-> m, ver |-> 1, tail |-> m = 0]
                [] i = 3 -> [len |-> b, ver |-> 1, tail |-> FALSE]
                [] i = 4 -> [len |-> 1, ver |-> 1, tail |-> FALSE]
                [] OTHER -> NoFile]
        /\ base = [r \in Rollout |->
              IF r = 2 THEN [r |-> 1, len |-> b] ELSE NoBase]
    BY DEF Init
<1>2. PICK parent \in {{1}, {3}, {1, 3}}, copy \in BOOLEAN :
        dir = [p \in Path |->
              CASE p = Plain("sessions", 1) /\ 1 \in parent -> 1
                [] p = Plain("prerequisite", 1) /\ 3 \in parent -> 3
                [] p = Plain("sessions", 2) -> 2
                [] p = Plain("prerequisite", 2) /\ copy -> 4
                [] OTHER -> 0]
    BY DEF Init
<1>3. /\ m \in 0..MaxLen /\ b \in 0..MaxLen /\ b > 0 /\ MaxLen - 1 \in 0..MaxLen
      /\ 1 \in 0..MaxLen /\ 0 \in 0..MaxLen
      /\ {1, 2, 3, 4} \subseteq Inode /\ \A i \in Inode : i \in Nat /\ i >= 1
    BY Bounds DEF Inode
<1>4. inode \in [Inode -> File]
    <2>1. ASSUME NEW i \in Inode PROVE inode[i] \in File
        <3>1. /\ [len |-> MaxLen - 1, ver |-> 1, tail |-> TRUE] \in File
              /\ [len |-> m, ver |-> 1, tail |-> m = 0] \in File
              /\ [len |-> b, ver |-> 1, tail |-> FALSE] \in File
              /\ [len |-> 1, ver |-> 1, tail |-> FALSE] \in File
              /\ NoFile \in File
            BY <1>3 DEF File, NoFile
        <3> QED
            BY <1>1, <3>1
    <2> QED
        BY <1>1, <2>1
<1>5. \A p \in Path : dir[p] \in {0, 1, 2, 3, 4}
    BY <1>2
<1>6. dir \in [Path -> Inode \cup {0}]
    BY <1>2, <1>3, <1>5
<1>7. base \in [Rollout -> Boundary]
    BY <1>1, <1>3 DEF Boundary, NoBase, Rollout
<1>8. /\ sel \in {NoSelection, [r |-> 2, area |-> "sessions"]} /\ owed = "nothing"
      /\ events = 0 /\ pc = "idle" /\ selected = NoSelection /\ found = {} /\ todo = {}
      /\ end = NoBase /\ cur = NoDescriptor /\ plan = <<>> /\ stream = <<>> /\ rows = {}
    BY DEF Init
<1>9. TypeOK
    <2>1. {sel, selected} \subseteq [r : {0, 2, 3}, area : {"sessions", "archived"}]
        BY <1>8 DEF NoSelection
    <2>2. end \in Boundary /\ 0 \in 0..MaxEvents
        BY <1>3, <1>8, Bounds DEF NoBase, Boundary
    <2>3. Len(stream) <= Len(plan) /\ Len(plan) <= Cardinality(Rollout)
          /\ DOMAIN plan = {}
        BY <1>8, Three
    <2> QED
        BY <1>4, <1>6, <1>7, <1>8, <2>1, <2>2, <2>3 DEF TypeOK
<1>10. Typed
    <2>1. cur \in Descriptor
        <3>1. Plain("sessions", 1) \in Path
            BY DEF Plain, Path, Area, Rollout
        <3> QED
            BY <1>3, <1>8, <3>1 DEF NoDescriptor, Descriptor
    <2> QED
        BY <1>8, <2>1 DEF Typed
<1>11. Storage
    <2>1. \A i \in Inode : IF i <= 4 THEN inode[i].ver = 1 ELSE inode[i] = NoFile
        BY <1>1, <1>3
    <2>2. \A i \in Inode : inode[i].ver \in {0, 1}
        BY <2>1, <1>3 DEF NoFile
    <2>3. \A i \in {1, 2, 3, 4} : inode[i].ver = 1
        BY <2>1, <1>3
    <2> QED
        BY <1>5, <1>8, <2>1, <2>2, <2>3 DEF Storage
<1>12. Ancestry
    BY <1>1, <1>3 DEF Ancestry, Rollout, NoBase
<1>13. Row
    BY <1>8 DEF Row, NoSelection, Capturing, Exporting
<1>14. Inventory /\ Captures /\ Streamed
    BY <1>8 DEF Inventory, Captures, Streamed, Capturing, Reading, Exporting
<1>15. Chain
    BY <1>8 DEF Chain
<1> QED
    BY <1>9, <1>10, <1>11, <1>12, <1>13, <1>14, <1>15 DEF IInv

\* The steps of the exporter.
LEMMA ExporterStep ==
    ASSUME IInv, Exporter, Recorded
    PROVE  IInv'
BY ReadSelectionStep, ListArchivedStep, ListSessionsStep, OpenStep, ReadFirstStep,
   ReadRestStep, LineageStep, RecheckStep, CopyFirstStep, CopyRestStep, CompleteStep
DEF Exporter

\* Every step keeps the invariant.
LEMMA NextIInv ==
    ASSUME IInv, [Next]_vars
    PROVE  IInv'
<1>1. CASE Native /\ ~Ended /\ Recorded
    BY <1>1, NativeStep
<1>2. CASE Exporter /\ ~Ended /\ Recorded
    BY <1>2, ExporterStep
<1>3. CASE UNCHANGED vars
    <2>1. /\ UNCHANGED source /\ UNCHANGED <<inode, dir, base, sel, owed, events>>
          /\ UNCHANGED <<pc, selected, found, todo, end, cur, plan, stream, rows>>
        BY <1>3 DEF vars, source, capture, history
    <2>2. \A r : Live(r)' = Live(r)
        BY <2>1, SourceKept
    <2>3. Chain' /\ Inventory' /\ (\A r : Chosen(r)' <=> Chosen(r)) /\ Storage' /\ Ancestry'
        BY <2>1, StepChain, SourceKept DEF IInv
    <2>4. TypeOK'
        BY <2>1 DEF TypeOK, IInv
    <2>5. Row' /\ Streamed' /\ Typed'
        BY <2>1, <2>2 DEF Row, Streamed, Typed, IInv
    <2>6. Captures'
        <3>1. ASSUME NEW g \in Rollout, Pursued(g) PROVE Pursued(g)'
            BY <2>1, <2>3, <3>1 DEF Pursued, Ahead
        <3> QED
            BY <2>1, <3>1 DEF Captures, IInv
    <2> QED
        BY <2>3, <2>4, <2>5, <2>6 DEF IInv
<1> QED
    BY <1>1, <1>2, <1>3, StepKinds

\* IInv is an invariant.
THEOREM Invariance == Spec => []IInv
<1>1. Init => IInv
    BY InitIInv
<1>2. IInv /\ [Next]_vars => IInv'
    BY NextIInv
<1> QED
    BY <1>1, <1>2, PTL DEF Spec

\* The variables keep their types, whatever Codex does meanwhile.
THEOREM TypeCorrect == Spec => []TypeOK
<1>1. IInv => TypeOK
    BY DEF IInv
<1> QED
    BY <1>1, Invariance, PTL

\* Every file of a completed export meets what the next one inherits, and the
\* first one inherits nothing (captureLineage and the order of ExportSnapshot):
\* the receiving validateLineage has nothing to object to.
THEOREM LineagesComplete == Spec => []LineageComplete
<1>1. ASSUME IInv PROVE LineageComplete
    <2>0. Typed /\ Captures /\ Chain /\ Streamed
        BY <1>1 DEF IInv
    <2> SUFFICES ASSUME pc = "completed"
                 PROVE  /\ base[stream[1].r] = NoBase
                        /\ \A i \in DOMAIN stream : i > 1 =>
                             base[stream[i].r] = [r |-> stream[i-1].r, len |-> stream[i-1].len]
        BY DEF LineageComplete
    <2> DEFINE n == Len(plan)
    <2>1. /\ plan # <<>> /\ Len(stream) = n /\ base[plan[n].r] = NoBase
        BY <2>0 DEF Captures, Streamed, Exporting
    <2>2. /\ n \in Nat /\ n >= 1 /\ DOMAIN plan = 1..n /\ DOMAIN stream = 1..n
        BY <2>0, <2>1, PlanEnds
    <2>3. \A i \in 1..n : stream[i].r = plan[n + 1 - i].r /\ stream[i].len = plan[n + 1 - i].len
        BY <2>0, <2>2 DEF Streamed
    <2> HIDE DEF n
    <2>4. base[stream[1].r] = NoBase
        <3>1. 1 \in 1..n /\ n + 1 - 1 = n
            BY <2>2
        <3> QED
            BY <2>1, <2>3, <3>1
    <2>5. ASSUME NEW i \in DOMAIN stream, i > 1
          PROVE  base[stream[i].r] = [r |-> stream[i-1].r, len |-> stream[i-1].len]
        <3> DEFINE k == n + 1 - i
        <3>1. /\ i \in 1..n /\ i - 1 \in 1..n /\ k \in 1..n /\ k < n
              /\ k + 1 = n + 1 - (i - 1)
            BY <2>2, <2>5
        <3>2. stream[i].r = plan[k].r
            BY <2>3, <3>1
        <3>3. stream[i - 1].r = plan[n + 1 - (i - 1)].r /\ stream[i - 1].len = plan[n + 1 - (i - 1)].len
            BY <2>3, <3>1
        <3>4. base[plan[k].r] = [r |-> plan[k + 1].r, len |-> plan[k + 1].len]
            BY <2>0, <2>2, <3>1 DEF Chain, n
        <3> QED
            BY <3>1, <3>2, <3>3, <3>4
    <2> QED
        BY <2>4, <2>5
<1> QED
    BY <1>1, Invariance, PTL

\* A completed export ends with the rollout that the row named all the while it
\* was captured (the second selection read of inspect): a row that had moved on
\* and come back would go unnoticed, and Codex never moves it back.
THEOREM SelectionsHeld == Spec => []SelectionHeld
<1>1. ASSUME IInv PROVE SelectionHeld
    <2>0. TypeOK /\ Typed /\ Captures /\ Chain /\ Streamed /\ Row
        BY <1>1 DEF IInv
    <2> SUFFICES ASSUME pc = "completed"
                 PROVE  rows = {0} \/ rows = {stream[Len(stream)].r}
        BY DEF SelectionHeld
    <2>1. /\ plan # <<>> /\ Len(stream) = Len(plan) /\ rows = {selected.r}
        BY <2>0 DEF Captures, Streamed, Exporting, Row
    <2>2. Len(plan) \in DOMAIN stream /\ Len(plan) + 1 - Len(plan) = 1
        BY <2>0, <2>1, PlanEnds
    <2>3. stream[Len(stream)].r = plan[1].r
        BY <2>0, <2>1, <2>2 DEF Streamed
    <2>4. selected # NoSelection => plan[1].r = selected.r
        BY <2>0, <2>1 DEF Chain, Chosen
    <2> QED
        BY <2>1, <2>3, <2>4 DEF NoSelection
<1> QED
    BY <1>1, Invariance, PTL

-----------------------------------------------------------------------------
(* Versions.                                                               *)

\* A step of Codex that changes a file in use goes through one of its paths, and
\* changes the version only when it rewrites the file in place.
LEMMA NativeTouch ==
    ASSUME TypeOK, Storage, Native, NEW i \in Inode, inode[i].len > 0,
           inode'[i] # inode[i]
    PROVE  /\ \E p \in Path : p.area # "prerequisite" /\ dir[p] = i /\ dir'[p] = i
           /\ \/ inode'[i].ver = inode[i].ver
              \/ pc \notin {"export", "copying"} => "rewrite" \in during'
<1>0. /\ inode \in [Inode -> File] /\ dir \in [Path -> Inode \cup {0}]
      /\ FreeInode \in Inode /\ FreeInode # i /\ 0 \notin Inode
    BY NativeFrame, Allocate DEF TypeOK, NoFile, Inode
<1>1. CASE AppendRecord
    <2>1. PICK p \in Path :
            /\ p.area = "sessions" /\ dir[p] # 0
            /\ inode' = [inode EXCEPT ![dir[p]] =
                  IF inode[dir[p]].tail THEN [inode[dir[p]] EXCEPT !.len = @ + 1, !.tail = FALSE]
                  ELSE [inode[dir[p]] EXCEPT !.tail = TRUE]]
        BY <1>1 DEF AppendRecord
    <2>2. dir' = dir
        BY <1>1 DEF AppendRecord
    <2>3. dir[p] = i /\ inode[i] \in File
        BY <1>0, <2>1
    <2>4. inode'[i] = IF inode[i].tail THEN [inode[i] EXCEPT !.len = @ + 1, !.tail = FALSE]
                      ELSE [inode[i] EXCEPT !.tail = TRUE]
        BY <1>0, <2>1, <2>3
    <2>5. inode'[i].ver = inode[i].ver
        BY <2>3, <2>4 DEF File
    <2> QED
        BY <2>1, <2>2, <2>3, <2>5
<1>2. CASE Migrate
    <2>1. PICK p \in Path, len \in 1..MaxLen :
            LET new == [len |-> len, ver |-> events + 2, tail |-> FALSE] IN
            /\ p.area # "prerequisite" /\ dir[p] # 0
            /\ \/ /\ Note("rewrite")
                  /\ inode' = [inode EXCEPT ![dir[p]] = new]
                  /\ UNCHANGED dir
               \/ inode' = [inode EXCEPT ![FreeInode] = new]
        BY <1>2 DEF Migrate
    <2>2. /\ Note("rewrite") /\ dir' = dir
          /\ \E new : inode' = [inode EXCEPT ![dir[p]] = new]
        BY <1>0, <2>1
    <2>3. dir[p] = i
        BY <1>0, <2>2
    <2> QED
        BY <2>1, <2>2, <2>3 DEF Note
<1>3. CASE Compress
    <2>1. \E f : inode' = [inode EXCEPT ![FreeInode] = f]
        BY <1>3 DEF Compress
    <2> QED
        BY <2>1, <1>0
<1>4. CASE Revert
    <2>1. \E f : inode' = [inode EXCEPT ![FreeInode] = f]
        BY <1>4 DEF Revert
    <2> QED
        BY <2>1, <1>0
<1> QED
    BY <1>1, <1>2, <1>3, <1>4 DEF Native, Move, Unlink, Select

\* No step of Codex makes two rollouts share a file.
LEMMA NativeApart ==
    ASSUME IInv, Apart, Native
    PROVE  Apart'
<1>0. TypeOK /\ Typed /\ Storage /\ Captures
    BY DEF IInv
<1>1. /\ dir \in [Path -> Inode \cup {0}] /\ dir' \in [Path -> Inode \cup {0}]
      /\ UNCHANGED <<pc, cur>> /\ 0 \notin Inode
      /\ FreeInode \in Inode /\ inode[FreeInode] = NoFile
    BY <1>0, NativeFrame, Allocate, NativeStorage DEF TypeOK, Inode
<1>2. \A p \in Path : dir[p] # FreeInode
    BY <1>0, <1>1 DEF Storage, NoFile
<1>3. pc \in {"readFirst", "readRest"} => cur.ino # FreeInode /\ cur.ino # 0
    BY <1>0, <1>1 DEF Captures, NoFile
<1>4. ASSUME NEW p \in Path, NEW f \in File, Creates(p, f) PROVE Apart'
    <2>1. \A q \in Path : dir'[q] = IF q = p THEN FreeInode ELSE dir[q]
        BY <1>1, <1>4 DEF Creates
    <2> QED
        BY <2>1, <1>1, <1>2, <1>3 DEF Apart
<1>5. ASSUME \A q \in Path : dir'[q] # 0 => \E p \in Path : dir'[q] = dir[p] /\ p.r = q.r
      PROVE  Apart'
    <2>1. ASSUME NEW p \in Path, NEW q \in Path, dir'[p] # 0, dir'[p] = dir'[q]
          PROVE  p.r = q.r
        <3>1. PICK x \in Path : dir'[p] = dir[x] /\ x.r = p.r
            BY <1>5, <2>1
        <3>2. PICK y \in Path : dir'[q] = dir[y] /\ y.r = q.r
            BY <1>5, <2>1
        <3> QED
            BY <2>1, <3>1, <3>2 DEF Apart
    <2>2. ASSUME pc \in {"readFirst", "readRest"}, NEW p \in Path, dir'[p] = cur.ino
          PROVE  p.r = cur.path.r
        <3>1. PICK x \in Path : dir'[p] = dir[x] /\ x.r = p.r
            BY <1>3, <1>5, <2>2
        <3> QED
            BY <2>2, <3>1 DEF Apart
    <2> QED
        BY <1>1, <2>1, <2>2 DEF Apart
<1>6. ASSUME NEW p \in Path, NEW q \in Path, Moves(p, q) PROVE Apart'
    <2>1. \A x \in Path : dir'[x] = IF x = q THEN dir[p] ELSE IF x = p THEN 0 ELSE dir[x]
        BY <1>1, <1>6 DEF Moves
    <2>2. q.r = p.r
        BY <1>6 DEF Moves
    <2> QED
        BY <1>5, <2>1, <2>2
<1>7. CASE dir' = dir
    BY <1>5, <1>7
<1>8. CASE Unlink
    <2>1. \A x \in Path : dir'[x] \in {0, dir[x]}
        BY <1>8 DEF Unlink
    <2> QED
        BY <1>5, <2>1
<1>9. Plain("sessions", 3) \in Path
    BY DEF Plain, Path, Area, Rollout
<1> QED
    BY <1>0, <1>4, <1>6, <1>7, <1>8, <1>9, NativeKinds DEF Touches, Selects

\* Versions only grow.
LEMMA NativeVersions ==
    ASSUME IInv, Versions, Native
    PROVE  Versions'
<1>0. TypeOK /\ Typed /\ Storage /\ Ancestry /\ Captures /\ Streamed
    BY DEF IInv
<1>1. UNCHANGED <<pc, selected, found, todo, end, cur, plan, stream>>
    BY <1>0, NativeFrame
<1>2. \A i \in Inode : /\ inode[i].len > 0 => inode'[i].len > 0
                       /\ inode[i].ver <= inode'[i].ver
                       /\ inode[i].ver \in Nat /\ inode'[i].ver \in Nat
    <2>1. inode \in [Inode -> File] /\ inode' \in [Inode -> File]
        BY <1>0, NativeStorage DEF TypeOK
    <2> QED
        BY <1>0, <2>1, NativeForward DEF Forward, File
<1>3. ASSUME NEW i \in DOMAIN plan
      PROVE  /\ plan'[i].first <= plan'[i].rest
             /\ plan'[i].rest <= inode'[plan'[i].ino].ver
             /\ inode'[plan'[i].ino].len > 0
    <2>1. plan[i].ino \in Inode /\ plan[i].rest \in Nat
        BY <1>0, PlanEnds DEF Item
    <2> QED
        BY <1>1, <1>2, <2>1 DEF Versions
<1>4. pc = "readRest" => cur.first <= inode'[cur.ino].ver
    <2>1. pc = "readRest" => cur.ino \in Inode /\ cur.first \in Nat
        BY <1>0 DEF Captures, Typed, Descriptor
    <2> QED
        BY <1>2, <2>1 DEF Versions
<1>5. pc = "copying" => cur.first <= inode'[Sending.ino].ver
    <2>1. pc = "copying" => Sending.ino \in Inode /\ cur.first \in Nat
        BY <1>0, SendingIs DEF Streamed, Typed, Descriptor
    <2> QED
        BY <1>2, <2>1 DEF Versions
<1>6. Sending' = Sending
    BY <1>1 DEF Sending
<1> QED
    BY <1>1, <1>3, <1>4, <1>5, <1>6 DEF Versions

\* What is recorded at every step.
LEMMA SavedGrows ==
    ASSUME TypeOK', Recorded, History
    PROVE  /\ saved' \subseteq [r : Rollout, len : 0..MaxLen, ver : Nat]
           /\ pc' # "idle" => saved \subseteq saved' /\ Conversation' \subseteq saved'
<1>1. Conversation' \subseteq [r : Rollout, len : 0..MaxLen, ver : Nat]
    <2> SUFFICES ASSUME NEW c \in Conversation'
                 PROVE  c \in [r : Rollout, len : 0..MaxLen, ver : Nat]
        OBVIOUS
    <2>1. PICK p \in Path : /\ dir'[p] # 0
                            /\ c = [r |-> p.r, len |-> inode'[dir'[p]].len,
                                    ver |-> inode'[dir'[p]].ver]
        BY DEF Conversation, Live
    <2>2. dir'[p] \in Inode /\ inode'[dir'[p]] \in File
        BY <2>1 DEF TypeOK
    <2>3. inode'[dir'[p]].len \in 0..MaxLen /\ inode'[dir'[p]].ver \in Nat
        BY <2>2 DEF File
    <2> QED
        BY <2>1, <2>3, OtherPaths
<1> QED
    BY <1>1 DEF Recorded, History

\* A live file of the chosen rollout is the conversation, while the row holds.
LEMMA InConversation ==
    ASSUME TypeOK', Row', sel'.r = selected'.r, NEW p \in Path, p.area # "prerequisite",
           dir'[p] # 0, p.r \in Thread, selected' # NoSelection => p.r = selected'.r
    PROVE  [r |-> p.r, len |-> inode'[dir'[p]].len, ver |-> inode'[dir'[p]].ver]
               \in Conversation'
<1>1. p \in Live(p.r)'
    BY DEF Live
<1>2. sel' # NoSelection => p.r = sel'.r
    <2>1. sel' # NoSelection => selected'.r # 0
        BY DEF Row
    <2> QED
        BY <2>1 DEF NoSelection
<1>3. p.r \in (IF sel' = NoSelection THEN Thread ELSE {sel'.r})
    BY <1>2
<1> QED
    BY <1>1, <1>3 DEF Conversation

\* The rollout being read first is the one that was chosen.
LEMMA ReadingChosen ==
    ASSUME IInv, pc \in {"readFirst", "readRest"}, plan = <<>>
    PROVE  /\ cur.path.r \in Thread /\ (selected # NoSelection => cur.path.r = selected.r)
           /\ cur.ino \in Inode /\ inode[cur.ino].len > 0 /\ end = NoBase
           /\ cur.path \in Path /\ cur.size \in Nat
<1>1. Captures /\ Typed
    BY DEF IInv
<1>2. PICK g \in Rollout : Pursued(g)
    BY <1>1 DEF Captures, Reading
<1>3. cur.path.r = g /\ Chosen(g) /\ end = NoBase
    BY <1>2 DEF Pursued, Ahead
<1>4. cur.ino \in Inode /\ inode[cur.ino].len > 0 /\ cur.path \in Path /\ cur.size \in Nat
    BY <1>1 DEF Captures, Typed, Descriptor
<1> QED
    BY <1>3, <1>4 DEF Chosen

\* While the row holds, every state of the conversation is recorded.
LEMMA NativeHistory ==
    ASSUME FInv, Native, ~Ended, Recorded
    PROVE  History'
<1>0. /\ IInv /\ Apart /\ History /\ TypeOK /\ Typed /\ Storage /\ Ancestry /\ Row
      /\ Captures
    BY DEF FInv, IInv
<1>1. TypeOK' /\ Row'
    BY <1>0, NativeStep DEF IInv
<1>2. /\ UNCHANGED <<pc, selected, found, todo, end, cur, plan, stream>>
      /\ during \subseteq during'
    BY <1>0, NativeFrame
<1>3. /\ saved' \subseteq [r : Rollout, len : 0..MaxLen, ver : Nat]
      /\ pc' # "idle" => saved \subseteq saved' /\ Conversation' \subseteq saved'
    BY <1>0, <1>1, SavedGrows
<1>4. Holding' => Holding /\ pc' # "idle"
    <2>1. pc \in Capturing /\ sel'.r = selected.r => sel.r = selected.r
        <3>1. pc \in Capturing => selected.r <= sel.r
            <4>1. pc \in Capturing =>
                    selected.r \in rows /\ \A x \in rows : selected.r <= x /\ x <= sel.r
                BY <1>0 DEF Row
            <4> QED
                BY <4>1
        <3>2. sel.r <= sel'.r /\ sel.r \in {0, 2, 3} /\ selected.r \in {0, 2, 3}
            BY <1>0, RowForward
        <3> QED
            BY <3>1, <3>2
    <2> QED
        BY <1>2, <2>1 DEF Holding, Capturing, Exporting
<1>5. ASSUME Holding', plan' # <<>>
      PROVE  AsSaved(plan[1].r, plan[1].len, plan[1].rest)'
    <2>1. AsSaved(plan[1].r, plan[1].len, plan[1].rest) /\ saved \subseteq saved'
        BY <1>0, <1>2, <1>3, <1>4, <1>5 DEF History
    <2> QED
        BY <1>2, <2>1 DEF AsSaved
<1>6. ASSUME Holding', plan' = <<>>, pc' \in {"readFirst", "readRest"}
      PROVE  ReadAsSaved'
    <2>1. ReadAsSaved /\ saved \subseteq saved' /\ Conversation' \subseteq saved'
        BY <1>0, <1>2, <1>3, <1>4, <1>6 DEF History
    <2>2. /\ cur.path.r \in Thread /\ (selected # NoSelection => cur.path.r = selected.r)
          /\ cur.ino \in Inode /\ inode[cur.ino].len > 0
        BY <1>0, <1>2, <1>6, ReadingChosen
    <2>3. CASE inode'[cur.ino] = inode[cur.ino]
        BY <1>2, <2>1, <2>3 DEF ReadAsSaved, Saved
    <2>4. CASE inode'[cur.ino] # inode[cur.ino]
        <3>1. PICK p \in Path : p.area # "prerequisite" /\ dir[p] = cur.ino /\ dir'[p] = cur.ino
            BY <1>0, <2>2, <2>4, NativeTouch
        <3>2. inode'[cur.ino].ver = inode[cur.ino].ver \/ "rewrite" \in during'
            BY <1>0, <1>2, <1>6, <2>2, <2>4, NativeTouch
        <3>3. p.r = cur.path.r
            BY <1>0, <1>2, <1>6, <3>1 DEF Apart
        <3>4. sel'.r = selected'.r
            BY <1>6 DEF Holding, Exporting
        <3>5. 0 \notin Inode
            BY DEF Inode
        <3>6. [r |-> p.r, len |-> inode'[dir'[p]].len, ver |-> inode'[dir'[p]].ver]
                 \in Conversation'
            BY <1>1, <1>2, <2>2, <3>1, <3>3, <3>4, <3>5, InConversation
        <3>7. Saved(cur.path.r, inode[cur.ino].len, inode[cur.ino].ver)'
            BY <1>2, <2>1, <3>1, <3>3, <3>6 DEF Saved
        <3> QED
            BY <1>2, <2>1, <3>2, <3>7 DEF ReadAsSaved, Saved
    <2> QED
        BY <2>3, <2>4
<1> QED
    BY <1>3, <1>5, <1>6 DEF History

-----------------------------------------------------------------------------
(* The exporter.                                                           *)

\* No step of the exporter changes a file.
LEMMA ExporterFrame ==
    ASSUME Exporter
    PROVE  /\ UNCHANGED source /\ UNCHANGED <<inode, dir, base, sel>>
           /\ pc' # "idle"
           /\ "rewrite" \in during => "rewrite" \in during'
<1>1. UNCHANGED source /\ pc' # "idle" /\ ("rewrite" \in during => "rewrite" \in during')
    BY DEF Exporter, ReadSelection, ListArchived, ListSessions, Open, ReadFirst,
       ReadRest, Lineage, Recheck, CopyFirst, CopyRest, Complete, Fail, Goto
<1> QED
    BY <1>1 DEF source

\* What the exporter opens belongs to one rollout.
LEMMA ExporterApart ==
    ASSUME IInv, Apart, Exporter
    PROVE  Apart'
<1>1. dir' = dir
    BY ExporterFrame
<1>2. CASE Open
    <2>1. PICK p \in todo : pc' = "readFirst" => cur'.ino = dir[p] /\ cur'.path = p
        <3>1. PICK p \in todo :
                IF Unreadable(p)
                THEN Goto("refused") /\ UNCHANGED <<selected, found, end, cur, plan>>
                ELSE cur' = [ino |-> dir[p], path |-> p, first |-> 0,
                             size |-> IF end = NoBase THEN inode[dir[p]].len
                                      ELSE end.len]
            BY <1>2 DEF Open
        <3> QED
            BY <3>1 DEF Goto
    <2>2. pc' # "readRest"
        BY <1>2 DEF Open, Goto
    <2>3. p \in Path
        BY DEF IInv, TypeOK
    <2>4. pc' = "readFirst" => dir[p] # 0
        BY <1>2, <2>1 DEF Open, Goto, Unreadable
    <2> QED
        BY <1>1, <2>1, <2>2, <2>3, <2>4 DEF Apart
<1>3. CASE ReadFirst
    <2>1. pc = "readFirst" /\ cur' = [cur EXCEPT !.first = inode[cur.ino].ver]
        BY <1>3 DEF ReadFirst
    <2>2. cur'.ino = cur.ino /\ cur'.path = cur.path
        BY <2>1 DEF IInv, Typed, Descriptor
    <2> QED
        BY <1>1, <2>1, <2>2 DEF Apart
<1>4. CASE pc' \notin {"readFirst", "readRest"}
    BY <1>1, <1>4 DEF Apart
<1> QED
    BY <1>2, <1>3, <1>4 DEF Exporter, ReadSelection, ListArchived, ListSessions, ReadRest,
       Lineage, Recheck, CopyFirst, CopyRest, Complete, Fail, Goto

\* The exporter captures no newer version before an older one, and sends one.
LEMMA ExporterVersions ==
    ASSUME IInv, Versions, Exporter
    PROVE  Versions'
<1>0. TypeOK /\ Typed /\ Captures /\ Streamed
    BY DEF IInv
<1>1. inode' = inode
    BY ExporterFrame
<1>2. ASSUME UNCHANGED <<plan, stream>>, pc' \notin {"readRest", "copying"} PROVE Versions'
    BY <1>1, <1>2 DEF Versions
<1>3. CASE ReadFirst
    <2>1. /\ pc = "readFirst" /\ pc' = "readRest" /\ UNCHANGED <<plan, stream>>
          /\ cur' = [cur EXCEPT !.first = inode[cur.ino].ver]
        BY <1>3 DEF ReadFirst, Goto
    <2>2. cur'.ino = cur.ino /\ cur'.first = inode[cur.ino].ver
        BY <1>0, <2>1 DEF Typed, Descriptor
    <2>3. inode[cur.ino].ver \in Nat
        BY <1>0, <2>1 DEF Captures, Typed, Descriptor, TypeOK, File
    <2>4. pc' = "readRest" => cur'.first <= inode'[cur'.ino].ver
        BY <1>1, <2>2, <2>3
    <2> QED
        BY <1>1, <2>1, <2>4 DEF Versions
<1>4. CASE ReadRest
    <2>1. pc = "readRest" /\ UNCHANGED stream /\ pc' \in {"refused", "open", "lineage"}
          /\ (plan' = plan \/ plan' = Append(plan, Captured))
        BY <1>4 DEF ReadRest, Fail, Goto, capture
    <2>2. CASE plan' = plan
        BY <1>2, <2>1, <2>2
    <2>3. CASE plan' = Append(plan, Captured)
        <3>1. /\ Captured \in Item /\ Captured.ino = cur.ino /\ Captured.first = cur.first
              /\ Captured.rest \in {cur.first, inode[cur.ino].ver}
            BY <2>1, CapturedTyped
        <3>2. /\ cur.first <= inode[cur.ino].ver /\ cur.first \in Nat
              /\ inode[cur.ino].ver \in Nat /\ inode[cur.ino].len > 0
            BY <1>0, <2>1 DEF Versions, Captures, Typed, Descriptor, TypeOK, File
        <3>3. /\ Captured.first <= Captured.rest
              /\ Captured.rest <= inode[Captured.ino].ver
              /\ inode[Captured.ino].len > 0
            BY <3>1, <3>2
        <3>4. plan \in Seq(Item) /\ Len(plan) \in Nat /\ DOMAIN plan = 1..Len(plan)
            BY <1>0, PlanEnds DEF Typed
        <3>5. /\ DOMAIN plan' = 1..(Len(plan) + 1) /\ plan'[Len(plan) + 1] = Captured
              /\ \A i \in 1..Len(plan) : plan'[i] = plan[i]
            BY <2>3, <3>1, <3>4
        <3>6. ASSUME NEW i \in DOMAIN plan'
              PROVE  /\ plan'[i].first <= plan'[i].rest
                     /\ plan'[i].rest <= inode'[plan'[i].ino].ver
                     /\ inode'[plan'[i].ino].len > 0
            <4>1. CASE i \in 1..Len(plan)
                BY <4>1, <1>1, <3>4, <3>5 DEF Versions
            <4>2. CASE i = Len(plan) + 1
                BY <4>2, <1>1, <3>3, <3>5
            <4> QED
                BY <4>1, <4>2, <3>4, <3>5
        <3> QED
            BY <2>1, <3>6 DEF Versions
    <2> QED
        BY <2>1, <2>2, <2>3
<1>5. CASE CopyFirst
    <2>1. /\ pc' = "copying" /\ Len(stream) < Len(plan) /\ UNCHANGED <<plan, stream>>
          /\ cur' = [cur EXCEPT !.first = inode[Sending.ino].ver]
        BY <1>5 DEF CopyFirst, Goto
    <2>2. cur'.first = inode[Sending.ino].ver /\ Sending' = Sending
        BY <1>0, <2>1 DEF Typed, Descriptor, Sending
    <2>3. Len(plan) - Len(stream) \in DOMAIN plan /\ inode[Sending.ino].ver \in Nat
        BY <2>1, SendingIs
    <2>4. Sending.rest <= inode[Sending.ino].ver
        BY <2>3 DEF Versions, Sending
    <2> QED
        BY <1>1, <2>1, <2>2, <2>3, <2>4 DEF Versions
<1>6. CASE CopyRest
    <2>1. pc = "copying" /\ Len(stream) < Len(plan) /\ plan' = plan
        BY <1>0, <1>6 DEF CopyRest, Streamed, capture
    <2>2. CASE ~Verified(Sending)
        <3>1. pc' = "aborted" /\ UNCHANGED stream
            BY <1>6, <2>2 DEF CopyRest
        <3> QED
            BY <1>2, <2>1, <3>1
    <2>3. CASE Verified(Sending)
        <3> DEFINE e == [r |-> Sending.r, len |-> Sending.len, first |-> cur.first,
                         rest |-> Rest(Sending.len, inode[Sending.ino])]
        <3>1. pc' = "export" /\ stream' = Append(stream, e)
            BY <1>6, <2>3 DEF CopyRest
        <3>2. e.first = Sending.first /\ e.first = cur.first /\ e.rest = Sending.rest
            BY <2>3 DEF Verified
        <3>3. /\ Sending.first \in Nat /\ Sending.rest \in Nat
              /\ Sending.first <= Sending.rest /\ Sending.rest <= cur.first
            <4>1. Len(plan) - Len(stream) \in DOMAIN plan /\ Sending \in Item
                BY <2>1, SendingIs
            <4> QED
                BY <2>1, <4>1 DEF Versions, Item, Sending
        <3>4. e.first = e.rest
            <4> HIDE DEF e
            <4> QED
                BY <3>2, <3>3
        <3> HIDE DEF e
        <3>5. stream \in Seq(Sent) /\ Len(stream) \in Nat /\ DOMAIN stream = 1..Len(stream)
            BY <1>0, PlanEnds DEF Typed
        <3>6. \A i \in DOMAIN stream' : stream'[i].first = stream'[i].rest
            BY <3>1, <3>4, <3>5 DEF Versions
        <3> QED
            BY <1>1, <2>1, <3>1, <3>6 DEF Versions
    <2> QED
        BY <2>2, <2>3
<1>7. CASE ReadSelection \/ ListArchived \/ ListSessions \/ Open \/ Lineage \/ Recheck \/ Complete
    <2>1. UNCHANGED <<plan, stream>> /\ pc' \notin {"readRest", "copying"}
        BY <1>7 DEF ReadSelection, ListArchived, ListSessions, Open, Lineage, Recheck,
           Complete, Fail, Goto, capture
    <2> QED
        BY <1>2, <2>1
<1> QED
    BY <1>3, <1>4, <1>5, <1>6, <1>7 DEF Exporter

\* What is read of the conversation was saved at one moment.
LEMMA CapturedAsSaved ==
    ASSUME FInv, pc = "readRest", plan = <<>>, Holding
    PROVE  AsSaved(Captured.r, Captured.len, Captured.rest)
<1> DEFINE f == inode[cur.ino]
           n == IF cur.size <= f.len THEN cur.size ELSE f.len
<1>0. IInv /\ History /\ TypeOK /\ Typed
    BY DEF FInv, IInv
<1>1. ReadAsSaved
    BY <1>0 DEF History
<1>2. cur.ino \in Inode /\ cur.size \in Nat
    BY <1>0, ReadingChosen
<1>3. f.len \in Nat
    BY <1>0, <1>2, Bounds DEF TypeOK, File
<1>4. /\ Captured.r = cur.path.r /\ Captured.len = n
      /\ (n # 1 => Captured.rest = f.ver) /\ (n = 1 => Captured.rest = cur.first)
    BY <1>0, CapturedTyped
<1>5. /\ Saved(cur.path.r, f.len, f.ver)
      /\ "rewrite" \in during \/ Saved(cur.path.r, cur.size, f.ver)
      /\ "rewrite" \in during \/ cur.first = f.ver
    BY <1>1 DEF ReadAsSaved
<1>6. PICK s \in saved : s.r = cur.path.r /\ s.ver = cur.first /\ s.len >= 1
    BY <1>1 DEF ReadAsSaved
<1>7. s.len \in Nat
    BY <1>0, Bounds DEF History
<1>8. n \in Nat /\ n <= f.len /\ n \in {f.len, cur.size}
    BY <1>2, <1>3
<1> HIDE DEF f, n
<1>9. CASE Captured.rest = f.ver
    <2>1. CASE n = f.len
        BY <1>4, <1>5, <1>9, <2>1 DEF Saved, AsSaved
    <2>2. CASE n # f.len /\ "rewrite" \in during
        <3>1. n < f.len
            BY <1>3, <1>8, <2>2
        <3> DEFINE t == [r |-> cur.path.r, len |-> f.len, ver |-> f.ver]
        <3>2. t \in saved /\ t.r = cur.path.r /\ t.len = f.len /\ t.ver = f.ver
            BY <1>5 DEF Saved
        <3> HIDE DEF t
        <3> QED
            BY <1>4, <1>9, <2>2, <3>1, <3>2 DEF AsSaved
    <2>3. CASE n # f.len /\ "rewrite" \notin during
        <3>1. n = cur.size /\ Saved(cur.path.r, cur.size, f.ver)
            BY <1>5, <1>8, <2>3
        <3> QED
            BY <1>4, <1>9, <3>1 DEF Saved, AsSaved
    <2> QED
        BY <2>1, <2>2, <2>3
<1>10. CASE Captured.rest # f.ver
    <2>1. n = 1 /\ Captured.rest = cur.first /\ "rewrite" \in during
        BY <1>4, <1>5, <1>10
    <2>2. s.len = n \/ n < s.len
        BY <1>6, <1>7, <2>1
    <2> QED
        BY <1>4, <1>6, <2>1, <2>2 DEF AsSaved
<1> QED
    BY <1>9, <1>10

\* What the exporter captures was saved since it began.
LEMMA ExporterHistory ==
    ASSUME FInv, Exporter, ~Ended, Recorded
    PROVE  History'
<1>0. IInv /\ History /\ TypeOK /\ Typed /\ Row /\ Captures
    BY DEF FInv, IInv
<1>1. IInv' /\ TypeOK' /\ Row'
    <2>1. IInv'
        BY <1>0, ExporterStep
    <2> QED
        BY <2>1 DEF IInv
<1>2. /\ UNCHANGED <<inode, dir, base, sel>> /\ pc' # "idle"
      /\ ("rewrite" \in during => "rewrite" \in during')
    BY ExporterFrame
<1>3. /\ saved' \subseteq [r : Rollout, len : 0..MaxLen, ver : Nat]
      /\ saved \subseteq saved' /\ Conversation' \subseteq saved'
    BY <1>0, <1>1, <1>2, SavedGrows
<1>4. pc # "idle" => selected' = selected
    BY DEF Exporter, ReadSelection, ListArchived, ListSessions, Open, ReadFirst,
       ReadRest, Lineage, Recheck, CopyFirst, CopyRest, Complete, Fail, Goto, capture
<1>5. pc = "idle" => pc' = "archived" /\ plan' = <<>>
    BY <1>0 DEF Captures, Exporter, ReadSelection, ListArchived, ListSessions, Open,
       ReadFirst, ReadRest, Lineage, Recheck, CopyFirst, CopyRest, Complete
<1>6. Holding' /\ pc # "idle" => Holding
    <2>1. CASE Recheck
        BY <1>2, <1>4, <2>1 DEF Recheck, Fail, Goto, SelectionHolds, Holding, Capturing,
           Exporting
    <2>2. CASE CopyFirst \/ CopyRest \/ Complete
        BY <2>2 DEF CopyFirst, CopyRest, Complete, Holding, Exporting
    <2>3. CASE ListArchived \/ ListSessions \/ Open \/ ReadFirst \/ ReadRest \/ Lineage
        <3>1. pc \in Capturing /\ pc' \notin Exporting
            BY <2>3 DEF ListArchived, ListSessions, Open, ReadFirst, ReadRest, Lineage,
               Fail, Goto, Capturing, Exporting
        <3> QED
            BY <1>2, <1>4, <3>1 DEF Holding, Capturing
    <2>4. CASE ReadSelection
        BY <2>4 DEF ReadSelection
    <2> QED
        BY <2>1, <2>2, <2>3, <2>4 DEF Exporter
<1>7. plan' = plan \/ (ReadRest /\ plan' = Append(plan, Captured))
    BY DEF Exporter, ReadSelection, ListArchived, ListSessions, Open, ReadFirst,
       ReadRest, Lineage, Recheck, CopyFirst, CopyRest, Complete, Fail, Goto, capture
<1>8. ASSUME Holding', plan' # <<>>
      PROVE  AsSaved(plan[1].r, plan[1].len, plan[1].rest)'
    <2>1. pc # "idle" /\ Holding
        BY <1>5, <1>6, <1>8
    <2>2. CASE plan # <<>>
        <3>1. AsSaved(plan[1].r, plan[1].len, plan[1].rest)
            BY <1>0, <2>1, <2>2 DEF History
        <3>2. plan'[1] = plan[1]
            <4>1. plan \in Seq(Item) /\ Len(plan) \in Nat /\ Len(plan) >= 1
                BY <1>0, <2>2, PlanEnds DEF Typed
            <4> QED
                BY <1>7, <4>1
        <3> QED
            BY <1>2, <1>3, <3>1, <3>2 DEF AsSaved
    <2>3. CASE plan = <<>>
        <3>1. ReadRest /\ plan' = Append(plan, Captured)
            BY <1>7, <1>8, <2>3
        <3>2. pc = "readRest"
            BY <3>1 DEF ReadRest
        <3>3. plan'[1] = Captured
            BY <2>3, <3>1
        <3>4. AsSaved(Captured.r, Captured.len, Captured.rest)
            BY <2>1, <2>3, <3>2, CapturedAsSaved
        <3> QED
            BY <1>2, <1>3, <3>3, <3>4 DEF AsSaved
    <2> QED
        BY <2>2, <2>3
<1>9. ASSUME Holding', plan' = <<>>, pc' \in {"readFirst", "readRest"}
      PROVE  ReadAsSaved'
    <2>1. plan = <<>>
        <3>1. plan \in Seq(Item)
            BY <1>0 DEF Typed
        <3>2. CASE plan' = plan
            BY <1>9, <3>2
        <3>3. CASE ReadRest
            BY <1>9, <3>3 DEF ReadRest, Fail, Goto
        <3> QED
            BY <1>7, <3>2, <3>3
    <2>2. sel'.r = selected'.r
        BY <1>9 DEF Holding, Exporting
    <2>3. CASE Open
        <3>1. PICK p \in todo :
                /\ ~Unreadable(p)
                /\ cur' = [ino |-> dir[p], path |-> p, first |-> 0,
                           size |-> IF end = NoBase THEN inode[dir[p]].len ELSE end.len]
                /\ pc' = "readFirst" /\ UNCHANGED selected
            BY <1>9, <2>3 DEF Open, Goto
        <3>2. pc = "open"
            BY <2>3 DEF Open
        <3>3. PICK g \in Rollout : Pursued(g)
            BY <1>0, <3>2 DEF Captures, Reading
        <3>4. end = NoBase /\ Chosen(g) /\ p.r = g /\ p.area # "prerequisite"
            BY <2>1, <3>3 DEF Pursued, Ahead
        <3>5. p \in Path /\ dir[p] # 0
            BY <1>0, <3>1 DEF TypeOK, Unreadable
        <3>6. [r |-> p.r, len |-> inode'[dir'[p]].len, ver |-> inode'[dir'[p]].ver]
                 \in Conversation'
            BY <1>1, <1>2, <2>2, <3>1, <3>4, <3>5, InConversation DEF Chosen
        <3>7. /\ cur'.ino = dir[p] /\ cur'.path = p /\ cur'.size = inode[dir[p]].len
            BY <3>1, <3>4
        <3>8. [r |-> p.r, len |-> inode[dir[p]].len, ver |-> inode[dir[p]].ver] \in saved'
            BY <1>2, <1>3, <3>6
        <3> QED
            BY <1>2, <3>1, <3>7, <3>8 DEF ReadAsSaved, Saved
    <2>4. CASE ReadFirst
        <3>1. /\ pc = "readFirst" /\ pc' = "readRest"
              /\ cur' = [cur EXCEPT !.first = inode[cur.ino].ver]
            BY <2>4 DEF ReadFirst, Goto
        <3>2. /\ cur'.ino = cur.ino /\ cur'.path = cur.path /\ cur'.size = cur.size
              /\ cur'.first = inode[cur.ino].ver
            BY <1>0, <3>1 DEF Typed, Descriptor
        <3>3. ReadAsSaved
            BY <1>0, <1>6, <1>9, <2>1, <3>1 DEF History
        <3>4. inode[cur.ino].len \in Nat /\ inode[cur.ino].len >= 1
            <4>1. cur.ino \in Inode /\ inode[cur.ino].len > 0
                BY <1>0, <2>1, <3>1, ReadingChosen
            <4> QED
                BY <1>0, <4>1, Bounds DEF TypeOK, File
        <3> DEFINE t == [r |-> cur.path.r, len |-> inode[cur.ino].len,
                         ver |-> inode[cur.ino].ver]
        <3>5. t \in saved' /\ t.r = cur.path.r /\ t.ver = inode[cur.ino].ver /\ t.len >= 1
            BY <1>3, <3>3, <3>4 DEF ReadAsSaved, Saved
        <3>6. Saved(cur.path.r, inode[cur.ino].len, inode[cur.ino].ver)'
            BY <1>2, <3>2, <3>5 DEF Saved
        <3>7. ("rewrite" \in during \/ Saved(cur.path.r, cur.size, inode[cur.ino].ver))'
            BY <1>2, <1>3, <3>2, <3>3 DEF Saved, ReadAsSaved
        <3> HIDE DEF t
        <3> QED
            BY <1>2, <3>2, <3>5, <3>6, <3>7 DEF ReadAsSaved
    <2> QED
        BY <1>9, <2>3, <2>4 DEF Exporter, ReadSelection, ListArchived, ListSessions,
           ReadRest, Lineage, Recheck, CopyFirst, CopyRest, Complete, Fail, Goto
<1> QED
    BY <1>3, <1>8, <1>9 DEF History

\* Nothing has been captured yet.
LEMMA InitFInv ==
    ASSUME Init
    PROVE  FInv
<1>1. IInv
    BY InitIInv
<1>2. pc = "idle" /\ plan = <<>> /\ stream = <<>> /\ saved = {}
    BY DEF Init
<1>3. Versions
    BY <1>2 DEF Versions
<1>4. Apart
    <2>1. PICK parent, copy :
            dir = [p \in Path |->
                CASE p = Plain("sessions", 1) /\ 1 \in parent -> 1
                  [] p = Plain("prerequisite", 1) /\ 3 \in parent -> 3
                  [] p = Plain("sessions", 2) -> 2
                  [] p = Plain("prerequisite", 2) /\ copy -> 4
                  [] OTHER -> 0]
        BY DEF Init
    <2>2. ASSUME NEW p \in Path, dir[p] # 0
          PROVE  p = CASE dir[p] = 1 -> Plain("sessions", 1)
                       [] dir[p] = 3 -> Plain("prerequisite", 1)
                       [] dir[p] = 2 -> Plain("sessions", 2)
                       [] dir[p] = 4 -> Plain("prerequisite", 2)
        BY <2>1, <2>2
    <2>3. \A p, q \in Path : dir[p] # 0 /\ dir[p] = dir[q] => p = q
        BY <2>2
    <2> QED
        BY <1>2, <2>3 DEF Apart
<1>5. History
    BY <1>2 DEF History, Holding, Exporting, Capturing
<1> QED
    BY <1>1, <1>3, <1>4, <1>5 DEF FInv

\* Every step keeps what is known of versions and of the history.
LEMMA NextFInv ==
    ASSUME FInv, [Next]_vars
    PROVE  FInv'
<1>0. IInv /\ Versions /\ Apart /\ History /\ IInv'
    BY NextIInv DEF FInv
<1>1. CASE Native /\ ~Ended /\ Recorded
    BY <1>0, <1>1, NativeVersions, NativeApart, NativeHistory DEF FInv
<1>2. CASE Exporter /\ ~Ended /\ Recorded
    BY <1>0, <1>2, ExporterVersions, ExporterApart, ExporterHistory DEF FInv
<1>3. CASE UNCHANGED vars
    <2>1. /\ UNCHANGED <<inode, dir, base, sel, pc, selected, cur, plan, stream>>
          /\ UNCHANGED <<saved, during>>
        BY <1>3 DEF vars, source, capture, history
    <2>2. Versions' /\ Apart'
        BY <1>0, <2>1 DEF Versions, Apart, Sending
    <2>3. History'
        BY <1>0, <2>1 DEF History, Holding, AsSaved, ReadAsSaved, Saved
    <2> QED
        BY <1>0, <2>2, <2>3 DEF FInv
<1> QED
    BY <1>1, <1>2, <1>3, StepKinds

\* A completed export is the conversation as it was saved at one moment after
\* the copy began, never a mixture of two versions of a file, whatever Codex
\* appends, moves, compresses, replaces or rewrites between any two reads (the
\* pinned descriptors of captureRollout and the hash of copyPayload).
THEOREM ExportedSaved == Spec => []ExportedIsSaved
<1>1. Init => FInv
    BY InitFInv
<1>2. FInv /\ [Next]_vars => FInv'
    BY NextFInv
<1>3. ASSUME FInv PROVE ExportedIsSaved
    <2>0. Typed /\ Captures /\ Streamed /\ Versions /\ History
        BY <1>3 DEF FInv, IInv
    <2> SUFFICES ASSUME pc = "completed"
                 PROVE  /\ \A i \in DOMAIN stream : stream[i].first = stream[i].rest
                        /\ LET m == stream[Len(stream)] IN
                           \E s \in saved :
                              /\ s.r = m.r /\ s.ver = m.rest
                              /\ s.len = m.len \/ ("rewrite" \in during /\ m.len < s.len)
        BY DEF ExportedIsSaved
    <2>1. plan # <<>> /\ Len(stream) = Len(plan) /\ Holding
        BY <2>0 DEF Captures, Streamed, Exporting, Holding
    <2>2. Len(plan) \in DOMAIN stream /\ Len(plan) + 1 - Len(plan) = 1
        BY <2>0, <2>1, PlanEnds
    <2>3. /\ stream[Len(stream)].r = plan[1].r /\ stream[Len(stream)].len = plan[1].len
          /\ stream[Len(stream)].rest = plan[1].rest
        BY <2>0, <2>1, <2>2 DEF Streamed
    <2>4. AsSaved(plan[1].r, plan[1].len, plan[1].rest)
        BY <2>0, <2>1 DEF History
    <2>5. \A i \in DOMAIN stream : stream[i].first = stream[i].rest
        BY <2>0 DEF Versions
    <2> QED
        BY <2>3, <2>4, <2>5 DEF AsSaved
<1> QED
    BY <1>1, <1>2, <1>3, PTL DEF Spec

-----------------------------------------------------------------------------
(* Refusals.                                                               *)

\* A conversation has one file, but for the moment between its compression and
\* the removal of the original, and no prerequisite is compressed.
OneFile ==
    /\ \A p, q \in Path :
          /\ p.area # "prerequisite" /\ q.area # "prerequisite" /\ p.r = q.r
          /\ dir[p] # 0 /\ dir[q] # 0
          => p.area = q.area /\ (p.zst = q.zst \/ owed = "unlink")
    /\ \A p \in Path : p.area = "prerequisite" /\ p.zst => dir[p] = 0

\* Between operations the row names the file of the thread's newest rollout.
RowPlaced ==
    /\ Live(2) # {}
    /\ owed # "select" =>
          IF sel = NoSelection THEN Live(3) = {}
          ELSE \E p \in Live(sel.r) : p.area = sel.area

\* What a rollout inherits is there, and Codex never cuts it off.
Inherited ==
    /\ \E p \in Path : p.r = 1 /\ dir[p] # 0
    /\ \A r \in Rollout : \A p \in Live(base[r].r) : base[r].len <= inode[dir[p]].len

\* A file is reached by plain names or by compressed ones.
Representation == \A p, q \in Path : dir[p] # 0 /\ dir[p] = dir[q] => p.zst = q.zst

\* Nothing was replaced or rewritten before the capture ended.
FirstVersions ==
    pc \in {"idle"} \cup Capturing /\ during \cap {"replace", "rewrite"} = {} =>
        \A i \in Inode : inode[i].ver <= 1

\* The conversation is recorded from the first read of the selection on.
SavedNow == pc # "idle" => Conversation \subseteq saved

Codex == OneFile /\ RowPlaced /\ Inherited /\ Representation /\ FirstVersions /\ SavedNow

Undisturbed == pc \in Capturing /\ during \subseteq {"append"}

\* What the exporter sees if Codex only appends.
ListedNow ==
    /\ owed = "nothing" /\ sel = selected
    /\ pc = "sessions" => found = {p \in Path : p.area # "sessions" /\ dir[p] # 0}
    /\ pc \notin {"archived", "sessions"} => found = {p \in Path : dir[p] # 0}
    /\ \A i \in DOMAIN plan : plan[i].first = 1 /\ plan[i].rest = 1

ReadsNow ==
    pc \in {"readFirst", "readRest"} =>
        /\ cur.path \in Path /\ dir[cur.path] # 0 /\ cur.ino = dir[cur.path]
        /\ cur.size <= inode[cur.ino].len
        /\ pc = "readRest" => cur.first = 1
        /\ end = NoBase => todo = {}
        /\ end # NoBase => cur.size = end.len

\* The file of the conversation, and then the files of an ancestor.
ReadsOne ==
    pc \in Reading /\ end = NoBase =>
        /\ plan = <<>>
        /\ \A p, q \in Ahead : p = q
        /\ \A p \in Ahead : p.area # "prerequisite" /\ p.r \in Thread
                            /\ (sel # NoSelection => p.r = sel.r)

ReadsAncestor ==
    pc \in Reading /\ end # NoBase =>
        /\ plan # <<>> /\ \E r \in Rollout : end = base[r]
        /\ \A p \in Ahead : p.r = end.r
        /\ plan[Len(plan)].r = end.r => plan[Len(plan)].len = end.len

Calm == Undisturbed => ListedNow /\ ReadsNow /\ ReadsOne /\ ReadsAncestor

\* Without a rewrite every descriptor shows what was captured.
ItemIntact(f) ==
    /\ f.len <= inode[f.ino].len
    /\ f.first = inode[f.ino].ver /\ f.rest = inode[f.ino].ver
    /\ f.zst /\ ~f.prefix => f.len = inode[f.ino].len
    /\ f.zst => \A p \in Path : dir[p] = f.ino => p.zst

ReadIntact ==
    /\ cur.size <= inode[cur.ino].len
    /\ cur.path.zst /\ end = NoBase => cur.size = inode[cur.ino].len
    /\ cur.path.zst => \A p \in Path : dir[p] = cur.ino => p.zst
    /\ pc = "readRest" => cur.first = inode[cur.ino].ver

Intact ==
    "rewrite" \notin during \cup later =>
        /\ pc \in {"readFirst", "readRest"} => ReadIntact
        /\ \A i \in DOMAIN plan : ItemIntact(plan[i])
        /\ pc = "copying" => cur.first = inode[Sending.ino].ver

RInv == FInv /\ Codex /\ Calm /\ Intact /\ RefusalJustified

\* A path is its three parts.
LEMMA PathParts ==
    ASSUME NEW p \in Path, NEW q \in Path, p.area = q.area, p.r = q.r, p.zst = q.zst
    PROVE  p = q
BY DEF Path

\* The kind of a step is noted.
Noted(kind) == IF pc \in {"export", "copying"} THEN kind \in later' ELSE kind \in during'

\* The steps of Codex, with all that they do.
Appending(p, f) ==
    /\ ~p.zst /\ p.area = "sessions" /\ dir[p] # 0 /\ owed = "nothing"
    /\ f.ver = inode[dir[p]].ver /\ f.len >= inode[dir[p]].len
    /\ inode' = [inode EXCEPT ![dir[p]] = f]
    /\ UNCHANGED <<dir, base, sel, owed>>

Migrating(p, f) ==
    /\ ~p.zst /\ p.area # "prerequisite" /\ dir[p] # 0 /\ owed = "nothing"
    /\ \A r \in Rollout : base[r].r = p.r => base[r].len <= f.len
    /\ UNCHANGED <<base, sel, owed>>

Rewriting(p, f) ==
    /\ Migrating(p, f) /\ Noted("rewrite")
    /\ inode' = [inode EXCEPT ![dir[p]] = f] /\ UNCHANGED dir

Replacing(p, f) ==
    /\ Migrating(p, f) /\ Noted("replace")
    /\ inode' = [inode EXCEPT ![FreeInode] = f] /\ dir' = [dir EXCEPT ![p] = FreeInode]

Compressing(p, q) ==
    /\ ~p.zst /\ p.area # "prerequisite" /\ dir[p] # 0 /\ owed = "nothing"
    /\ q.zst /\ q.r = p.r /\ q.area = p.area /\ inode[dir[p]].len > 0
    /\ inode' = [inode EXCEPT ![FreeInode] = inode[dir[p]]]
    /\ dir' = [dir EXCEPT ![q] = FreeInode]
    /\ owed' = "unlink" /\ UNCHANGED <<base, sel>>

Moving(p, q) ==
    /\ p.area # "prerequisite" /\ q.area # "prerequisite" /\ q.area # p.area
    /\ q.r = p.r /\ q.zst = p.zst /\ p.r \in Thread /\ dir[p] # 0 /\ owed = "nothing"
    /\ dir' = [dir EXCEPT ![p] = 0, ![q] = dir[p]]
    /\ owed' = "select" /\ UNCHANGED <<inode, base, sel>>

Reverting(p, f, len) ==
    /\ owed = "nothing" /\ Live(3) = {} /\ p \in Live(2) /\ len \in 1..inode[dir[p]].len
    /\ base' = [base EXCEPT ![3] = [r |-> 2, len |-> len]]
    /\ f.ver = 1 /\ f.len = 1
    /\ inode' = [inode EXCEPT ![FreeInode] = f]
    /\ dir' = [dir EXCEPT ![Plain("sessions", 3)] = FreeInode]
    /\ owed' = "select" /\ UNCHANGED sel

\* There are no others.
LEMMA CodexSteps ==
    ASSUME TypeOK, Storage, Native
    PROVE  \/ \E p \in Path, f \in File :
                  Appending(p, f) \/ Rewriting(p, f) \/ Replacing(p, f)
           \/ \E p, q \in Path : Compressing(p, q) \/ Moving(p, q)
           \/ \E p \in Path, f \in File : \E len : Reverting(p, f, len)
           \/ Unlink \/ Select
<1>0. /\ inode \in [Inode -> File] /\ dir \in [Path -> Inode \cup {0}] /\ MaxLen \in Nat
      /\ MaxLen >= 2 /\ events \in Nat
    BY Bounds DEF TypeOK
<1>1. CASE AppendRecord
    <2>1. PICK p \in Path :
            /\ ~p.zst /\ p.area = "sessions" /\ dir[p] # 0 /\ inode[dir[p]].len < MaxLen
            /\ inode' = [inode EXCEPT ![dir[p]] =
                  IF inode[dir[p]].tail THEN [inode[dir[p]] EXCEPT !.len = @ + 1, !.tail = FALSE]
                  ELSE [inode[dir[p]] EXCEPT !.tail = TRUE]]
        BY <1>1 DEF AppendRecord
    <2>2. owed = "nothing" /\ UNCHANGED <<dir, base, sel, owed>>
        BY <1>1 DEF AppendRecord
    <2> DEFINE old == inode[dir[p]]
    <2>3. old \in File /\ old.len < MaxLen
        BY <1>0, <2>1
    <2>4. old.len \in Nat /\ old.len + 1 \in 0..MaxLen /\ old.tail \in BOOLEAN
        BY <1>0, <2>3 DEF File
    <2>7. ~p.zst /\ p.area = "sessions" /\ dir[p] # 0
        BY <2>1
    <2>5. CASE old.tail
        <3> DEFINE f == [old EXCEPT !.len = @ + 1, !.tail = FALSE]
        <3>1. f \in File /\ f.ver = old.ver /\ f.len = old.len + 1
            BY <2>3, <2>4 DEF File
        <3>2. inode' = [inode EXCEPT ![dir[p]] = f]
            BY <2>1, <2>5
        <3> HIDE DEF f
        <3>3. f.len >= old.len
            BY <2>4, <3>1
        <3>4. Appending(p, f)
            BY <2>2, <2>7, <3>1, <3>2, <3>3 DEF Appending
        <3> QED
            BY <3>1, <3>4
    <2>6. CASE ~old.tail
        <3> DEFINE f == [old EXCEPT !.tail = TRUE]
        <3>1. f \in File /\ f.ver = old.ver /\ f.len = old.len
            BY <2>3, <2>4 DEF File
        <3>2. inode' = [inode EXCEPT ![dir[p]] = f]
            BY <2>1, <2>6
        <3> HIDE DEF f
        <3>3. f.len >= old.len
            BY <2>4, <3>1
        <3>4. Appending(p, f)
            BY <2>2, <2>7, <3>1, <3>2, <3>3 DEF Appending
        <3> QED
            BY <3>1, <3>4
    <2> QED
        BY <2>4, <2>5, <2>6
<1>2. CASE Move
    <2>1. PICK p \in UNION {Live(r) : r \in Thread} :
            LET q == [p EXCEPT !.area = IF @ = "sessions" THEN "archived" ELSE "sessions"]
            IN dir' = [dir EXCEPT ![p] = 0, ![q] = dir[p]]
        BY <1>2 DEF Move
    <2>2. p \in Path /\ p.area # "prerequisite" /\ dir[p] # 0 /\ p.r \in Thread
        BY DEF Live
    <2>3. owed = "nothing" /\ owed' = "select" /\ UNCHANGED <<inode, base, sel>>
        BY <1>2 DEF Move
    <2> DEFINE q == [p EXCEPT !.area = IF @ = "sessions" THEN "archived" ELSE "sessions"]
    <2>4. q \in Path /\ q.r = p.r /\ q.zst = p.zst
          /\ q.area = IF p.area = "sessions" THEN "archived" ELSE "sessions"
        BY <2>2 DEF Path, Area
    <2>5. dir' = [dir EXCEPT ![p] = 0, ![q] = dir[p]]
        BY <2>1
    <2> HIDE DEF q
    <2>6. Moving(p, q)
        BY <2>2, <2>3, <2>4, <2>5 DEF Moving
    <2> QED
        BY <2>2, <2>4, <2>6
<1>3. CASE Compress
    <2>1. PICK p \in Path :
            /\ ~p.zst /\ p.area # "prerequisite" /\ dir[p] # 0
            /\ inode[dir[p]].len > 0
            /\ inode' = [inode EXCEPT ![FreeInode] = inode[dir[p]]]
            /\ dir' = [dir EXCEPT ![[p EXCEPT !.zst = TRUE]] = FreeInode]
        BY <1>3 DEF Compress
    <2>2. owed = "nothing" /\ owed' = "unlink" /\ UNCHANGED <<base, sel>>
        BY <1>3 DEF Compress
    <2> DEFINE q == [p EXCEPT !.zst = TRUE]
    <2>3. q \in Path /\ q.r = p.r /\ q.zst /\ q.area = p.area
        BY OtherPaths
    <2>4. dir' = [dir EXCEPT ![q] = FreeInode]
        BY <2>1
    <2> HIDE DEF q
    <2>5. Compressing(p, q)
        BY <2>1, <2>2, <2>3, <2>4 DEF Compressing
    <2> QED
        BY <2>3, <2>5
<1>4. CASE Migrate
    <2>1. PICK p \in Path, len \in 1..MaxLen :
            LET new == [len |-> len, ver |-> events + 2, tail |-> FALSE] IN
            /\ ~p.zst /\ p.area # "prerequisite" /\ dir[p] # 0
            /\ \A r \in Rollout : base[r].r = p.r => base[r].len <= len
            /\ \/ /\ Note("rewrite")
                  /\ inode' = [inode EXCEPT ![dir[p]] = new]
                  /\ UNCHANGED dir
               \/ /\ Note("replace")
                  /\ inode' = [inode EXCEPT ![FreeInode] = new]
                  /\ dir' = [dir EXCEPT ![p] = FreeInode]
        BY <1>4 DEF Migrate
    <2>2. owed = "nothing" /\ UNCHANGED <<base, sel, owed>>
        BY <1>4 DEF Migrate
    <2> DEFINE f == [len |-> len, ver |-> events + 2, tail |-> FALSE]
    <2>3. f \in File /\ f.len = len
        BY <1>0 DEF File
    <2>4. \/ /\ Note("rewrite")
             /\ inode' = [inode EXCEPT ![dir[p]] = f]
             /\ UNCHANGED dir
          \/ /\ Note("replace")
             /\ inode' = [inode EXCEPT ![FreeInode] = f]
             /\ dir' = [dir EXCEPT ![p] = FreeInode]
        BY <2>1
    <2> HIDE DEF f
    <2>5. \A kind : Note(kind) => Noted(kind)
        BY DEF Note, Noted
    <2>6. Migrating(p, f)
        BY <2>1, <2>2, <2>3 DEF Migrating
    <2>7. Rewriting(p, f) \/ Replacing(p, f)
        BY <2>4, <2>5, <2>6 DEF Rewriting, Replacing
    <2> QED
        BY <2>3, <2>7
<1>5. CASE Revert
    <2> DEFINE f == [len |-> 1, ver |-> 1, tail |-> FALSE]
    <2>1. PICK p \in Live(2) : \E len \in 1..inode[dir[p]].len :
              base' = [base EXCEPT ![3] = [r |-> 2, len |-> len]]
        BY <1>5 DEF Revert
    <2>2. PICK len \in 1..inode[dir[p]].len :
              base' = [base EXCEPT ![3] = [r |-> 2, len |-> len]]
        BY <2>1
    <2>3. f \in File /\ f.len = 1 /\ f.ver = 1
        BY <1>0 DEF File
    <2>4. /\ owed = "nothing" /\ Live(3) = {} /\ owed' = "select" /\ UNCHANGED sel
          /\ inode' = [inode EXCEPT ![FreeInode] = f]
          /\ dir' = [dir EXCEPT ![Plain("sessions", 3)] = FreeInode]
        BY <1>5 DEF Revert
    <2> HIDE DEF f
    <2>5. Reverting(p, f, len)
        BY <2>2, <2>3, <2>4 DEF Reverting
    <2>6. p \in Path
        BY DEF Live
    <2> QED
        BY <2>3, <2>5, <2>6
<1> QED
    BY <1>1, <1>2, <1>3, <1>4, <1>5 DEF Native

\* What is at every path after a step.
LEMMA DirAfter ==
    ASSUME TypeOK, NEW p \in Path, NEW q \in Path
    PROVE  /\ Compressing(p, q) =>
                \A x \in Path : dir'[x] = IF x = q THEN FreeInode ELSE dir[x]
           /\ Moving(p, q) =>
                /\ p # q
                /\ \A x \in Path : dir'[x] = IF x = q THEN dir[p] ELSE
                                             IF x = p THEN 0 ELSE dir[x]
BY DEF TypeOK, Compressing, Moving

\* The directory after a file is replaced.
LEMMA DirReplaced ==
    ASSUME TypeOK, NEW p \in Path, NEW f \in File, Replacing(p, f)
    PROVE  \A x \in Path : dir'[x] = IF x = p THEN FreeInode ELSE dir[x]
BY DEF TypeOK, Replacing

\* A new file is nobody's.
LEMMA Fresh ==
    ASSUME TypeOK, Storage, Native
    PROVE  /\ FreeInode \in Inode /\ FreeInode # 0 /\ inode[FreeInode] = NoFile
           /\ \A p \in Path : dir[p] # FreeInode
           /\ dir \in [Path -> Inode \cup {0}] /\ inode \in [Inode -> File]
           /\ 0 \notin Inode /\ Plain("sessions", 3) \in Path
           /\ Plain("sessions", 3).r = 3 /\ ~Plain("sessions", 3).zst
           /\ Plain("sessions", 3).area = "sessions"
<1>1. FreeInode \in Inode /\ FreeInode # 0 /\ inode[FreeInode] = NoFile
    BY NativeFrame, Allocate
<1>2. \A p \in Path : dir[p] # FreeInode
    BY <1>1 DEF Storage, NoFile
<1>3. dir \in [Path -> Inode \cup {0}] /\ inode \in [Inode -> File] /\ 0 \notin Inode
    BY DEF TypeOK, Inode
<1>4. /\ Plain("sessions", 3) \in Path
      /\ Plain("sessions", 3).r = 3 /\ ~Plain("sessions", 3).zst
      /\ Plain("sessions", 3).area = "sessions"
    BY DEF Plain, Path, Area, Rollout
<1> QED
    BY <1>1, <1>2, <1>3, <1>4

\* A file that is removed after its compression has a successor.
LEMMA UnlinkAfter ==
    ASSUME TypeOK, Unlink, NEW p \in Path, dir[p] # 0
    PROVE  \/ dir'[p] = dir[p]
           \/ ~p.zst /\ \E q \in Path : /\ q.area = p.area /\ q.r = p.r /\ q.zst
                                        /\ dir[q] # 0 /\ dir'[q] = dir[q]
<1> DEFINE q == [p EXCEPT !.zst = TRUE]
<1>1. q \in Path /\ q.r = p.r /\ q.area = p.area /\ q.zst
    BY OtherPaths
<1>2. dir'[p] = IF ~p.zst /\ dir[q] # 0 THEN 0 ELSE dir[p]
    BY DEF Unlink
<1>3. dir'[q] = dir[q]
    BY <1>1 DEF Unlink
<1> HIDE DEF q
<1> QED
    BY <1>1, <1>2, <1>3

\* Codex leaves a conversation one file.
LEMMA NativeOneFile ==
    ASSUME TypeOK, Storage, OneFile, Native
    PROVE  OneFile'
<1>0. /\ FreeInode # 0 /\ Plain("sessions", 3) \in Path
      /\ Plain("sessions", 3).r = 3 /\ ~Plain("sessions", 3).zst
      /\ Plain("sessions", 3).area = "sessions" /\ dir \in [Path -> Inode \cup {0}]
    BY Fresh
<1>1. ASSUME \A x \in Path : dir'[x] # 0 => dir[x] # 0, owed # "unlink" PROVE OneFile'
    BY <1>1 DEF OneFile
<1>2. ASSUME NEW p \in Path, NEW f \in File, Appending(p, f) \/ Rewriting(p, f)
      PROVE  OneFile'
    BY <1>1, <1>2 DEF Appending, Rewriting, Migrating
<1>3. ASSUME NEW p \in Path, NEW f \in File, Replacing(p, f) PROVE OneFile'
    <2>1. \A x \in Path : dir'[x] # 0 => dir[x] # 0
        BY <1>3, DirReplaced DEF Replacing, Migrating
    <2>2. owed = "nothing"
        BY <1>3 DEF Replacing, Migrating
    <2> QED
        BY <1>1, <2>1, <2>2
<1>4. ASSUME NEW p \in Path, NEW q \in Path, Compressing(p, q) PROVE OneFile'
    <2>1. \A x \in Path : dir'[x] = IF x = q THEN FreeInode ELSE dir[x]
        BY <1>4, DirAfter
    <2>2. /\ p.area # "prerequisite" /\ dir[p] # 0 /\ q.r = p.r /\ q.area = p.area
          /\ owed' = "unlink"
        BY <1>4 DEF Compressing
    <2>3. ASSUME NEW x \in Path, NEW y \in Path, x.area # "prerequisite",
                 y.area # "prerequisite", x.r = y.r, dir'[x] # 0, dir'[y] # 0
          PROVE  x.area = y.area
        <3>1. \A z \in Path : dir'[z] # 0 /\ z.area # "prerequisite" =>
                \E w \in Path : /\ dir[w] # 0 /\ w.r = z.r /\ w.area = z.area
            BY <2>1, <2>2
        <3>2. PICK v \in Path : dir[v] # 0 /\ v.r = x.r /\ v.area = x.area
            BY <2>3, <3>1
        <3>3. PICK w \in Path : dir[w] # 0 /\ w.r = y.r /\ w.area = y.area
            BY <2>3, <3>1
        <3> QED
            BY <2>3, <3>2, <3>3 DEF OneFile
    <2>4. \A x \in Path : x.area = "prerequisite" => dir'[x] = dir[x]
        BY <2>1, <2>2
    <2> QED
        BY <2>2, <2>3, <2>4 DEF OneFile
<1>5. ASSUME NEW p \in Path, NEW q \in Path, Moving(p, q) PROVE OneFile'
    <2>1. /\ \A x \in Path : dir'[x] = IF x = q THEN dir[p] ELSE
                                       IF x = p THEN 0 ELSE dir[x]
          /\ p # q
        BY <1>5, DirAfter
    <2>2. /\ p.area # "prerequisite" /\ q.area # "prerequisite" /\ dir[p] # 0 /\ q.r = p.r
          /\ owed = "nothing"
        BY <1>5 DEF Moving
    <2>3. ASSUME NEW x \in Path, x.area # "prerequisite", x.r = p.r, dir'[x] # 0
          PROVE  x = q
        <3>1. x = q \/ (dir[x] # 0 /\ x # p)
            BY <2>1, <2>3
        <3>2. CASE dir[x] # 0 /\ x # p
            <4>1. x.area = p.area /\ x.zst = p.zst
                BY <2>2, <2>3, <3>2 DEF OneFile
            <4> QED
                BY <2>3, <3>2, <4>1, PathParts
        <3> QED
            BY <3>1, <3>2
    <2>4. \A x \in Path : x.r # p.r \/ x.area = "prerequisite" => dir'[x] = dir[x]
        BY <2>1, <2>2
    <2>5. ASSUME NEW x \in Path, NEW y \in Path, x.area # "prerequisite",
                 y.area # "prerequisite", x.r = y.r, dir'[x] # 0, dir'[y] # 0
          PROVE  x.area = y.area /\ x.zst = y.zst
        <3>1. CASE x.r = p.r
            BY <2>3, <2>5, <3>1
        <3>2. CASE x.r # p.r
            BY <2>2, <2>4, <2>5, <3>2 DEF OneFile
        <3> QED
            BY <3>1, <3>2
    <2> QED
        BY <2>4, <2>5 DEF OneFile
<1>6. ASSUME NEW p \in Path, NEW f \in File, NEW len, Reverting(p, f, len) PROVE OneFile'
    <2>1. \A x \in Path : dir'[x] = IF x = Plain("sessions", 3) THEN FreeInode ELSE dir[x]
        BY <1>0, <1>6 DEF Reverting
    <2>2. \A x \in Path : x.r = 3 /\ x.area # "prerequisite" => dir[x] = 0
        BY <1>6 DEF Reverting, Live
    <2>3. \A x \in Path : x.r # 3 \/ x.area = "prerequisite" => dir'[x] = dir[x]
        BY <1>0, <2>1
    <2>4. \A x \in Path : x.r = 3 /\ x.area # "prerequisite" /\ dir'[x] # 0 =>
              x = Plain("sessions", 3)
        BY <2>1, <2>2
    <2>5. owed = "nothing"
        BY <1>6 DEF Reverting
    <2>6. ASSUME NEW x \in Path, NEW y \in Path, x.area # "prerequisite",
                 y.area # "prerequisite", x.r = y.r, dir'[x] # 0, dir'[y] # 0
          PROVE  x.area = y.area /\ x.zst = y.zst
        <3>1. CASE x.r = 3
            BY <2>4, <2>6, <3>1
        <3>2. CASE x.r # 3
            BY <2>3, <2>5, <2>6, <3>2 DEF OneFile
        <3> QED
            BY <3>1, <3>2
    <2> QED
        BY <2>3, <2>6 DEF OneFile
<1>7. CASE Unlink
    <2>1. \A x \in Path : dir'[x] \in {0, dir[x]}
        BY <1>7 DEF Unlink
    <2>2. ASSUME NEW x \in Path, NEW y \in Path, x.area # "prerequisite", x.area = y.area,
                 x.r = y.r, dir'[x] # 0, dir[y] # 0, ~x.zst
          PROVE  ~y.zst
        <3> DEFINE z == [x EXCEPT !.zst = TRUE]
        <3>1. z \in Path /\ z.r = x.r /\ z.area = x.area /\ z.zst
            BY OtherPaths
        <3>2. dir'[x] = IF ~x.zst /\ dir[z] # 0 THEN 0 ELSE dir[x]
            BY <1>7 DEF Unlink
        <3> HIDE DEF z
        <3>3. dir[z] = 0
            BY <2>2, <3>2
        <3>4. y.zst => y = z
            <4>1. y.zst \in BOOLEAN /\ z.zst \in BOOLEAN
                BY <3>1, OtherPaths
            <4> QED
                BY <2>2, <3>1, <4>1, PathParts
        <3> QED
            BY <2>2, <3>3, <3>4
    <2>3. \A x \in Path : dir'[x] # 0 => dir[x] # 0
        BY <2>1
    <2>4. ASSUME NEW x \in Path, NEW y \in Path, x.area # "prerequisite",
                 y.area # "prerequisite", x.r = y.r, dir'[x] # 0, dir'[y] # 0
          PROVE  x.area = y.area /\ x.zst = y.zst
        <3>1. x.area = y.area
            BY <2>3, <2>4 DEF OneFile
        <3>2. x.zst \in BOOLEAN /\ y.zst \in BOOLEAN
            BY OtherPaths
        <3>3. x.zst <=> y.zst
            BY <2>2, <2>3, <2>4, <3>1
        <3> QED
            BY <3>1, <3>2, <3>3
    <2>5. \A x \in Path : x.area = "prerequisite" /\ x.zst => dir'[x] = 0
        BY <2>3 DEF OneFile
    <2> QED
        BY <2>4, <2>5 DEF OneFile
<1>8. CASE Select
    BY <1>1, <1>8 DEF Select
<1> QED
    BY <1>2, <1>3, <1>4, <1>5, <1>6, <1>7, <1>8, CodexSteps

\* Imported prefixes stay where they are.
LEMMA NativePrefixes ==
    ASSUME TypeOK, Storage, OneFile, Native, NEW x \in Path, x.area = "prerequisite"
    PROVE  dir'[x] = dir[x]
<1>1. ASSUME NEW p \in Path, NEW f \in File, Replacing(p, f) PROVE dir'[x] = dir[x]
    BY <1>1, DirReplaced DEF Replacing, Migrating
<1>2. ASSUME NEW p \in Path, NEW q \in Path, Compressing(p, q) PROVE dir'[x] = dir[x]
    <2>1. q.area # "prerequisite"
        BY <1>2 DEF Compressing
    <2> QED
        BY <1>2, <2>1, DirAfter
<1>3. ASSUME NEW p \in Path, NEW q \in Path, Moving(p, q) PROVE dir'[x] = dir[x]
    <2>1. q.area # "prerequisite" /\ p.area # "prerequisite"
        BY <1>3 DEF Moving
    <2> QED
        BY <1>3, <2>1, DirAfter
<1>4. ASSUME NEW p \in Path, NEW f \in File, NEW len, Reverting(p, f, len)
      PROVE  dir'[x] = dir[x]
    BY <1>4, Fresh DEF Reverting
<1>5. CASE Unlink
    <2> DEFINE y == [x EXCEPT !.zst = TRUE]
    <2>1. y \in Path /\ y.area = "prerequisite" /\ y.zst
        BY OtherPaths
    <2>2. dir'[x] = IF ~x.zst /\ dir[y] # 0 THEN 0 ELSE dir[x]
        BY <1>5 DEF Unlink
    <2> HIDE DEF y
    <2> QED
        BY <2>1, <2>2 DEF OneFile
<1>6. ASSUME NEW p \in Path, NEW f \in File, Appending(p, f) \/ Rewriting(p, f)
      PROVE  dir'[x] = dir[x]
    BY <1>6 DEF Appending, Rewriting
<1> QED
    BY <1>1, <1>2, <1>3, <1>4, <1>5, <1>6, CodexSteps DEF Select

\* Codex leaves the row naming a file of its rollout.
LEMMA NativeRowPlaced ==
    ASSUME TypeOK, Storage, Row, RowPlaced, Native
    PROVE  RowPlaced'
<1>1. Live(2)' # {}
    BY NativeLive DEF RowPlaced, Rollout
<1>2. SUFFICES ASSUME owed' # "select"
               PROVE  IF sel' = NoSelection THEN Live(3)' = {}
                      ELSE \E p \in Live(sel.r)' : p.area = sel'.area
    BY <1>1 DEF RowPlaced
<1>3. ASSUME owed # "select", sel' = sel,
             \A x \in Path : dir'[x] # 0 /\ x.area # "prerequisite" =>
                 \E y \in Path : dir[y] # 0 /\ y.area = x.area /\ y.r = x.r,
             \A x \in Path : dir[x] # 0 /\ x.area # "prerequisite" =>
                 \E y \in Path : dir'[y] # 0 /\ y.area = x.area /\ y.r = x.r
      PROVE  IF sel' = NoSelection THEN Live(3)' = {}
             ELSE \E p \in Live(sel.r)' : p.area = sel'.area
    <2>1. CASE sel = NoSelection
        <3>1. Live(3) = {}
            BY <1>3, <2>1 DEF RowPlaced
        <3>2. Live(3)' = {}
            BY <1>3, <3>1 DEF Live
        <3> QED
            BY <1>3, <2>1, <3>2
    <2>2. CASE sel # NoSelection
        <3>1. PICK p \in Live(sel.r) : p.area = sel.area
            BY <1>3, <2>2 DEF RowPlaced
        <3>2. PICK y \in Path : dir'[y] # 0 /\ y.area = p.area /\ y.r = p.r
            BY <1>3 DEF Live
        <3>3. y \in Live(sel.r)'
            BY <1>3, <3>2 DEF Live
        <3> QED
            BY <1>3, <2>2, <3>1, <3>2, <3>3
    <2> QED
        BY <2>1, <2>2
<1>4. ASSUME NEW p \in Path, NEW f \in File, Appending(p, f) \/ Rewriting(p, f)
      PROVE  owed # "select" /\ sel' = sel /\ dir' = dir
    BY <1>4 DEF Appending, Rewriting, Migrating
<1>5. ASSUME NEW p \in Path, NEW f \in File, Replacing(p, f)
      PROVE  /\ owed # "select" /\ sel' = sel
             /\ \A x \in Path : dir'[x] # 0 <=> dir[x] # 0
    BY <1>5, Fresh, DirReplaced DEF Replacing, Migrating
<1>6. ASSUME NEW p \in Path, NEW q \in Path, Compressing(p, q)
      PROVE  /\ owed # "select" /\ sel' = sel
             /\ \A x \in Path : dir[x] # 0 => dir'[x] # 0
             /\ \A x \in Path : dir'[x] # 0 =>
                  \E y \in Path : dir[y] # 0 /\ y.area = x.area /\ y.r = x.r
    <2>1. \A x \in Path : dir'[x] = IF x = q THEN FreeInode ELSE dir[x]
        BY <1>6, DirAfter
    <2>2. /\ owed # "select" /\ sel' = sel /\ dir[p] # 0 /\ q.area = p.area /\ q.r = p.r
          /\ FreeInode # 0
        BY <1>6, Fresh DEF Compressing
    <2> QED
        BY <2>1, <2>2
<1>7. CASE Unlink
    <2>1. owed # "select" /\ sel' = sel
        BY <1>7 DEF Unlink
    <2>2. \A x \in Path : dir'[x] # 0 => dir[x] # 0
        BY <1>7 DEF Unlink
    <2>3. \A x \in Path : dir[x] # 0 =>
              \E y \in Path : dir'[y] # 0 /\ y.area = x.area /\ y.r = x.r
        BY <1>7, UnlinkAfter
    <2> QED
        BY <1>3, <2>1, <2>2, <2>3
<1>8. CASE Select
    <2>1. PICK r \in Thread : /\ Live(r) # {} /\ (r = 2 => Live(3) = {})
                              /\ \E p \in Live(r) : sel' = [r |-> r, area |-> p.area]
        BY <1>8 DEF Select
    <2>2. PICK p \in Live(r) : sel' = [r |-> r, area |-> p.area]
        BY <2>1
    <2>3. sel' # NoSelection /\ sel'.r = r /\ sel'.area = p.area
        BY <2>2 DEF Thread, NoSelection
    <2>4. Live(sel.r)' = Live(r)
        BY <1>8, <2>3 DEF Live, Select
    <2> QED
        BY <2>2, <2>3, <2>4
<1>9. ASSUME NEW p \in Path, NEW f \in File, NEW len, Reverting(p, f, len) PROVE FALSE
    BY <1>2, <1>9 DEF Reverting
<1>10. ASSUME NEW p \in Path, NEW q \in Path, Moving(p, q) PROVE FALSE
    BY <1>2, <1>10 DEF Moving
<1>11. CASE \E p \in Path, f \in File : Appending(p, f) \/ Rewriting(p, f)
    BY <1>3, <1>4, <1>11
<1>12. CASE \E p \in Path, f \in File : Replacing(p, f)
    BY <1>3, <1>5, <1>12
<1>13. CASE \E p, q \in Path : Compressing(p, q)
    BY <1>3, <1>6, <1>13
<1> QED
    BY <1>7, <1>8, <1>9, <1>10, <1>11, <1>12, <1>13, CodexSteps

\* Codex keeps what a rollout inherits.
LEMMA NativeInherited ==
    ASSUME IInv, Apart, OneFile, Inherited, Native
    PROVE  Inherited'
<1>0. TypeOK /\ Storage /\ Ancestry
    BY DEF IInv
<1>1. \E p \in Path : p.r = 1 /\ dir'[p] # 0
    <2>1. PICK p \in Path : p.r = 1 /\ dir[p] # 0
        BY DEF Inherited
    <2>2. CASE p.area = "prerequisite"
        BY <1>0, <2>1, <2>2, NativePrefixes
    <2>3. CASE p.area # "prerequisite"
        <3>1. Live(1) # {}
            BY <2>1, <2>3 DEF Live
        <3>2. Live(1)' # {}
            BY <1>0, <3>1, NativeLive DEF Rollout
        <3> QED
            BY <3>2 DEF Live
    <2> QED
        BY <2>2, <2>3
<1>2. /\ FreeInode \in Inode /\ FreeInode # 0 /\ \A p \in Path : dir[p] # FreeInode
      /\ dir \in [Path -> Inode \cup {0}] /\ inode \in [Inode -> File]
      /\ 0 \notin Inode /\ Plain("sessions", 3) \in Path /\ Plain("sessions", 3).r = 3
      /\ base \in [Rollout -> Boundary]
    BY <1>0, Fresh DEF TypeOK
<1>3. ASSUME base' = base,
             \A x \in Path : dir'[x] # 0 /\ x.area # "prerequisite" =>
                 \/ \E y \in Path : /\ dir[y] # 0 /\ y.area # "prerequisite" /\ y.r = x.r
                                    /\ inode'[dir'[x]].len >= inode[dir[y]].len
                 \/ \A r \in Rollout : base[r].r = x.r => base[r].len <= inode'[dir'[x]].len
      PROVE  Inherited'
    <2> SUFFICES ASSUME NEW r \in Rollout, NEW x \in Live(base[r].r)'
                 PROVE  base'[r].len <= inode'[dir'[x]].len
        BY <1>1 DEF Inherited
    <2>1. x \in Path /\ dir'[x] # 0 /\ x.area # "prerequisite" /\ x.r = base[r].r
        BY <1>3 DEF Live
    <2>2. CASE \E y \in Path : /\ dir[y] # 0 /\ y.area # "prerequisite" /\ y.r = x.r
                               /\ inode'[dir'[x]].len >= inode[dir[y]].len
        <3>1. PICK y \in Path : /\ dir[y] # 0 /\ y.area # "prerequisite" /\ y.r = x.r
                                /\ inode'[dir'[x]].len >= inode[dir[y]].len
            BY <2>2
        <3>2. y \in Live(base[r].r)
            BY <2>1, <3>1 DEF Live
        <3>3. base[r].len <= inode[dir[y]].len
            BY <3>2 DEF Inherited
        <3>4. base[r].len \in Int /\ inode[dir[y]].len \in Int /\ inode'[dir'[x]].len \in Int
            <4>1. dir[y] \in Inode /\ dir'[x] \in Inode /\ inode' \in [Inode -> File]
                BY <1>0, <1>2, <2>1, <3>1, NativeStorage
            <4> QED
                BY <1>2, <4>1 DEF File, Boundary
        <3> QED
            BY <1>3, <3>1, <3>3, <3>4
    <2> QED
        BY <1>3, <2>1, <2>2
<1>4. \A i \in Inode : inode[i].len \in Nat
    BY <1>2 DEF File
<1>5. ASSUME NEW p \in Path, NEW f \in File, Appending(p, f) PROVE Inherited'
    <2>1. /\ dir[p] \in Inode /\ f.len >= inode[dir[p]].len
          /\ inode' = [inode EXCEPT ![dir[p]] = f] /\ UNCHANGED <<dir, base>>
        BY <1>2, <1>5 DEF Appending
    <2>2. \A i \in Inode : inode'[i].len >= inode[i].len
        BY <1>2, <1>4, <2>1
    <2> QED
        BY <1>2, <1>3, <2>1, <2>2
<1>6. ASSUME NEW p \in Path, NEW f \in File, Rewriting(p, f) PROVE Inherited'
    <2>1. /\ dir[p] \in Inode /\ dir[p] # 0
          /\ \A r \in Rollout : base[r].r = p.r => base[r].len <= f.len
          /\ inode' = [inode EXCEPT ![dir[p]] = f] /\ UNCHANGED <<dir, base>>
        BY <1>2, <1>6 DEF Rewriting, Migrating
    <2>2. ASSUME NEW x \in Path, dir'[x] # 0
          PROVE  \/ inode'[dir'[x]].len >= inode[dir[x]].len
                 \/ \A r \in Rollout : base[r].r = x.r => base[r].len <= inode'[dir'[x]].len
        <3>1. CASE dir[x] = dir[p]
            <4>1. x.r = p.r
                BY <2>1, <3>1 DEF Apart
            <4> QED
                BY <1>2, <2>1, <3>1, <4>1
        <3>2. CASE dir[x] # dir[p]
            <4>1. dir[x] \in Inode
                BY <1>2, <2>1, <2>2
            <4>2. inode'[dir'[x]] = inode[dir[x]]
                BY <1>2, <2>1, <3>2, <4>1
            <4> QED
                BY <1>4, <4>1, <4>2
        <3> QED
            BY <3>1, <3>2
    <2> QED
        BY <1>3, <2>1, <2>2
<1>7. ASSUME NEW p \in Path, NEW f \in File, Replacing(p, f) PROVE Inherited'
    <2>1. /\ \A r \in Rollout : base[r].r = p.r => base[r].len <= f.len
          /\ inode' = [inode EXCEPT ![FreeInode] = f] /\ UNCHANGED base
          /\ \A x \in Path : dir'[x] = IF x = p THEN FreeInode ELSE dir[x]
        BY <1>0, <1>7, DirReplaced DEF Replacing, Migrating
    <2>2. ASSUME NEW x \in Path, dir'[x] # 0
          PROVE  \/ dir[x] # 0 /\ inode'[dir'[x]].len >= inode[dir[x]].len
                 \/ \A r \in Rollout : base[r].r = x.r => base[r].len <= inode'[dir'[x]].len
        <3>1. CASE x = p
            BY <1>2, <2>1, <3>1
        <3>2. CASE x # p
            <4>1. dir'[x] = dir[x] /\ dir[x] \in Inode /\ dir[x] # FreeInode
                BY <1>2, <2>1, <2>2, <3>2
            <4>2. inode'[dir'[x]] = inode[dir[x]]
                BY <1>2, <2>1, <4>1
            <4> QED
                BY <1>4, <2>2, <4>1, <4>2
        <3> QED
            BY <3>1, <3>2
    <2> QED
        BY <1>3, <2>1, <2>2
<1>8. ASSUME NEW p \in Path, NEW q \in Path, Compressing(p, q) PROVE Inherited'
    <2>1. /\ dir[p] \in Inode /\ dir[p] # 0 /\ p.area # "prerequisite" /\ q.r = p.r
          /\ inode' = [inode EXCEPT ![FreeInode] = inode[dir[p]]] /\ UNCHANGED base
          /\ \A x \in Path : dir'[x] = IF x = q THEN FreeInode ELSE dir[x]
        BY <1>0, <1>2, <1>8, DirAfter DEF Compressing
    <2>2. ASSUME NEW x \in Path, dir'[x] # 0, x.area # "prerequisite"
          PROVE  \E y \in Path : /\ dir[y] # 0 /\ y.area # "prerequisite" /\ y.r = x.r
                                 /\ inode'[dir'[x]].len >= inode[dir[y]].len
        <3>1. CASE x = q
            <4>1. inode'[dir'[x]] = inode[dir[p]]
                BY <1>2, <2>1, <3>1
            <4> QED
                BY <1>4, <2>1, <3>1, <4>1
        <3>2. CASE x # q
            <4>1. dir'[x] = dir[x] /\ dir[x] \in Inode /\ dir[x] # FreeInode
                BY <1>2, <2>1, <2>2, <3>2
            <4>2. inode'[dir'[x]] = inode[dir[x]]
                BY <1>2, <2>1, <4>1
            <4> QED
                BY <1>4, <2>2, <4>1, <4>2
        <3> QED
            BY <3>1, <3>2
    <2> QED
        BY <1>3, <2>1, <2>2
<1>9. ASSUME NEW p \in Path, NEW q \in Path, Moving(p, q) PROVE Inherited'
    <2>1. /\ dir[p] \in Inode /\ dir[p] # 0 /\ p.area # "prerequisite" /\ q.r = p.r
          /\ UNCHANGED <<inode, base>>
          /\ \A x \in Path : dir'[x] = IF x = q THEN dir[p] ELSE
                                       IF x = p THEN 0 ELSE dir[x]
        BY <1>0, <1>2, <1>9, DirAfter DEF Moving
    <2>2. \A x \in Path : dir'[x] # 0 => dir'[x] \in Inode
        BY <1>2, <2>1
    <2> QED
        BY <1>3, <1>4, <2>1, <2>2
<1>10. CASE Unlink
    <2>1. UNCHANGED <<inode, base>> /\ \A x \in Path : dir'[x] \in {0, dir[x]}
        BY <1>10 DEF Unlink
    <2>2. \A x \in Path : dir'[x] # 0 => dir'[x] = dir[x] /\ dir[x] \in Inode
        BY <1>2, <2>1
    <2> QED
        BY <1>3, <1>4, <2>1, <2>2
<1>11. CASE Select
    <2>1. UNCHANGED <<inode, base, dir>>
        BY <1>11 DEF Select
    <2>2. \A x \in Path : dir'[x] # 0 => dir'[x] = dir[x] /\ dir[x] \in Inode
        BY <1>2, <2>1
    <2> QED
        BY <1>3, <1>4, <2>1, <2>2
<1>12. ASSUME NEW p \in Path, NEW f \in File, NEW len, Reverting(p, f, len)
       PROVE  Inherited'
    <2>1. /\ owed = "nothing" /\ p \in Live(2) /\ len \in 1..inode[dir[p]].len
          /\ base' = [base EXCEPT ![3] = [r |-> 2, len |-> len]]
          /\ inode' = [inode EXCEPT ![FreeInode] = f]
          /\ \A x \in Path : dir'[x] = IF x = Plain("sessions", 3) THEN FreeInode ELSE dir[x]
        BY <1>2, <1>12 DEF Reverting
    <2>2. ASSUME NEW x \in Path, x.r # 3, dir'[x] # 0
          PROVE  dir[x] \in Inode /\ dir'[x] = dir[x] /\ inode'[dir'[x]] = inode[dir[x]]
        <3>1. dir'[x] = dir[x] /\ dir[x] \in Inode /\ dir[x] # FreeInode
            BY <1>2, <2>1, <2>2
        <3> QED
            BY <1>2, <2>1, <3>1
    <2> SUFFICES ASSUME NEW r \in Rollout, NEW x \in Live(base[r].r)'
                 PROVE  base'[r].len <= inode'[dir'[x]].len
        BY <1>1 DEF Inherited
    <2>3. x \in Path /\ dir'[x] # 0 /\ x.area # "prerequisite" /\ x.r = base'[r].r
        BY DEF Live
    <2>4. x.r # 3 /\ x.r \in Rollout
        <3>1. Ancestry'
            BY <1>0, NativeForward
        <3>2. Rollout = {1, 2, 3}
            BY DEF Rollout
        <3>3. base'[r].r # 3
            BY <3>1, <3>2 DEF Ancestry, NoBase
        <3> QED
            BY <2>3, <3>3, OtherPaths
    <2>5. dir[x] \in Inode /\ inode'[dir'[x]] = inode[dir[x]] /\ dir[x] # 0
        BY <1>2, <2>2, <2>3, <2>4
    <2>6. CASE r = 3
        <3>1. base'[r].r = 2 /\ base'[r].len = len
            BY <1>2, <2>1, <2>6
        <3>2. x = p
            <4>1. p \in Path /\ p.r = 2 /\ p.area # "prerequisite" /\ dir[p] # 0
                BY <2>1 DEF Live
            <4>2. x.r = 2 /\ x.area = p.area /\ x.zst = p.zst
                BY <2>1, <2>3, <2>5, <3>1, <4>1 DEF OneFile
            <4> QED
                BY <2>3, <4>1, <4>2, PathParts
        <3> QED
            BY <1>4, <2>1, <2>5, <3>1, <3>2
    <2>7. CASE r # 3
        <3>1. base'[r] = base[r]
            BY <1>2, <2>1, <2>7
        <3>2. x \in Live(base[r].r)
            BY <2>3, <2>5, <3>1 DEF Live
        <3> QED
            BY <2>5, <3>1, <3>2 DEF Inherited
    <2> QED
        BY <2>6, <2>7
<1> QED
    BY <1>0, <1>5, <1>6, <1>7, <1>8, <1>9, <1>10, <1>11, <1>12, CodexSteps

\* A new file is reached by one path, and a moved one keeps its form.
LEMMA NativeRepresentation ==
    ASSUME TypeOK, Storage, Representation, Native
    PROVE  Representation'
<1>0. /\ FreeInode # 0 /\ \A p \in Path : dir[p] # FreeInode
      /\ dir \in [Path -> Inode \cup {0}] /\ Plain("sessions", 3) \in Path
    BY Fresh
<1>1. ASSUME \A x \in Path : dir'[x] \in {0, dir[x]} PROVE Representation'
    <2>1. \A x, y \in Path : dir'[x] # 0 /\ dir'[x] = dir'[y] =>
              dir[x] # 0 /\ dir[x] = dir[y]
        BY <1>1
    <2> QED
        BY <2>1 DEF Representation
<1>2. ASSUME NEW p \in Path,
             \A x \in Path : dir'[x] = IF x = p THEN FreeInode ELSE dir[x]
      PROVE  Representation'
    BY <1>0, <1>2 DEF Representation
<1>3. ASSUME NEW p \in Path, NEW q \in Path, Moving(p, q) PROVE Representation'
    <2>1. /\ q.zst = p.zst
          /\ \A x \in Path : dir'[x] = IF x = q THEN dir[p] ELSE
                                       IF x = p THEN 0 ELSE dir[x]
        BY <1>3, DirAfter DEF Moving
    <2> QED
        BY <2>1 DEF Representation
<1>4. ASSUME NEW p \in Path, NEW f \in File,
             Appending(p, f) \/ Rewriting(p, f) \/ Replacing(p, f)
      PROVE  Representation'
    <2>1. CASE Replacing(p, f)
        BY <1>2, <2>1, DirReplaced
    <2>2. CASE dir' = dir
        BY <1>1, <2>2
    <2> QED
        BY <1>4, <2>1, <2>2 DEF Appending, Rewriting
<1>5. ASSUME NEW p \in Path, NEW q \in Path, Compressing(p, q) PROVE Representation'
    BY <1>2, <1>5, DirAfter
<1>6. ASSUME NEW p \in Path, NEW f \in File, NEW len, Reverting(p, f, len)
      PROVE  Representation'
    <2>1. \A x \in Path : dir'[x] = IF x = Plain("sessions", 3) THEN FreeInode ELSE dir[x]
        BY <1>0, <1>6 DEF Reverting
    <2> QED
        BY <1>0, <1>2, <2>1
<1>7. CASE Unlink \/ Select
    <2>1. \A x \in Path : dir'[x] \in {0, dir[x]}
        BY <1>7 DEF Unlink, Select
    <2> QED
        BY <1>1, <2>1
<1> QED
    BY <1>3, <1>4, <1>5, <1>6, <1>7, CodexSteps

\* Only a migration makes a second version.
LEMMA NativeFirstVersions ==
    ASSUME TypeOK, Storage, FirstVersions, Native
    PROVE  FirstVersions'
<1>0. /\ FreeInode \in Inode /\ dir \in [Path -> Inode \cup {0}]
      /\ inode \in [Inode -> File] /\ UNCHANGED pc /\ during \subseteq during'
    BY Fresh, NativeFrame
<1>1. SUFFICES ASSUME pc \in {"idle"} \cup Capturing,
                      during' \cap {"replace", "rewrite"} = {}, NEW i \in Inode
               PROVE  inode'[i].ver <= 1
    BY <1>0 DEF FirstVersions
<1>2. \A j \in Inode : inode[j].ver <= 1
    BY <1>0, <1>1 DEF FirstVersions
<1>3. pc \notin {"export", "copying"}
    BY <1>1 DEF Capturing
<1>4. ASSUME NEW p \in Path, NEW f \in File, Appending(p, f) PROVE inode'[i].ver <= 1
    <2>1. dir[p] \in Inode /\ f.ver <= 1 /\ inode' = [inode EXCEPT ![dir[p]] = f]
        BY <1>0, <1>2, <1>4 DEF Appending
    <2> QED
        BY <1>0, <1>2, <2>1
<1>5. ASSUME NEW p \in Path, NEW f \in File, Rewriting(p, f) \/ Replacing(p, f)
      PROVE  FALSE
    BY <1>1, <1>3, <1>5 DEF Rewriting, Replacing, Noted
<1>6. ASSUME NEW p \in Path, NEW q \in Path, Compressing(p, q) PROVE inode'[i].ver <= 1
    <2>1. dir[p] \in Inode /\ inode' = [inode EXCEPT ![FreeInode] = inode[dir[p]]]
        BY <1>0, <1>6 DEF Compressing
    <2> QED
        BY <1>0, <1>2, <2>1
<1>7. ASSUME NEW p \in Path, NEW f \in File, NEW len, Reverting(p, f, len)
      PROVE  inode'[i].ver <= 1
    <2>1. f.ver = 1 /\ inode' = [inode EXCEPT ![FreeInode] = f]
        BY <1>7 DEF Reverting
    <2> QED
        BY <1>0, <1>2, <2>1
<1>8. CASE inode' = inode
    BY <1>2, <1>8
<1> QED
    BY <1>4, <1>5, <1>6, <1>7, <1>8, CodexSteps DEF Moving, Unlink, Select

\* A file that is not rewritten keeps its records, and a compressed one is never
\* touched at all.
LEMMA NativeKeepsFiles ==
    ASSUME TypeOK, Storage, Native, ~Noted("rewrite"), NEW i \in Inode, inode[i].len > 0
    PROVE  /\ inode'[i].ver = inode[i].ver /\ inode[i].len <= inode'[i].len
           /\ (\A p \in Path : dir[p] = i => p.zst) =>
                 inode'[i] = inode[i] /\ \A p \in Path : dir'[p] = i => p.zst
<1>0. /\ FreeInode \in Inode /\ FreeInode # i /\ dir \in [Path -> Inode \cup {0}]
      /\ inode \in [Inode -> File] /\ 0 \notin Inode /\ Plain("sessions", 3) \in Path
      /\ inode[i].len \in Nat /\ i # 0
    BY Fresh DEF NoFile, File
<1>1. ASSUME inode'[i] = inode[i],
             \A x \in Path : dir'[x] = i =>
                 \E y \in Path : dir[y] = i /\ (y.zst => x.zst)
      PROVE  /\ inode'[i].ver = inode[i].ver /\ inode[i].len <= inode'[i].len
             /\ (\A p \in Path : dir[p] = i => p.zst) =>
                 inode'[i] = inode[i] /\ \A p \in Path : dir'[p] = i => p.zst
    BY <1>0, <1>1
<1>2. ASSUME NEW p \in Path, NEW f \in File, Appending(p, f)
      PROVE  /\ inode'[i].ver = inode[i].ver /\ inode[i].len <= inode'[i].len
             /\ (\A x \in Path : dir[x] = i => x.zst) =>
                 inode'[i] = inode[i] /\ \A x \in Path : dir'[x] = i => x.zst
    <2>1. /\ ~p.zst /\ dir[p] \in Inode /\ dir' = dir
          /\ f.ver = inode[dir[p]].ver /\ f.len >= inode[dir[p]].len /\ f.len \in Nat
          /\ inode' = [inode EXCEPT ![dir[p]] = f]
        BY <1>0, <1>2 DEF Appending, File
    <2>2. CASE dir[p] = i
        BY <1>0, <2>1, <2>2
    <2>3. CASE dir[p] # i
        BY <1>0, <1>1, <2>1, <2>3
    <2> QED
        BY <2>2, <2>3
<1>3. ASSUME NEW p \in Path, NEW f \in File, Rewriting(p, f) PROVE FALSE
    BY <1>3 DEF Rewriting
<1>4. ASSUME NEW p \in Path, NEW f \in File, Replacing(p, f)
      PROVE  inode'[i] = inode[i] /\ \A x \in Path : dir'[x] = i => dir[x] = i
    BY <1>0, <1>4, DirReplaced DEF Replacing
<1>5. ASSUME NEW p \in Path, NEW q \in Path, Compressing(p, q)
      PROVE  inode'[i] = inode[i] /\ \A x \in Path : dir'[x] = i => dir[x] = i
    BY <1>0, <1>5, DirAfter DEF Compressing
<1>6. ASSUME NEW p \in Path, NEW q \in Path, Moving(p, q)
      PROVE  /\ inode'[i] = inode[i]
             /\ \A x \in Path : dir'[x] = i => \E y \in Path : dir[y] = i /\ (y.zst => x.zst)
    <2>1. /\ q.zst = p.zst /\ inode' = inode
          /\ \A x \in Path : dir'[x] = IF x = q THEN dir[p] ELSE
                                       IF x = p THEN 0 ELSE dir[x]
        BY <1>6, DirAfter DEF Moving
    <2> QED
        BY <1>0, <2>1
<1>7. ASSUME NEW p \in Path, NEW f \in File, NEW len, Reverting(p, f, len)
      PROVE  inode'[i] = inode[i] /\ \A x \in Path : dir'[x] = i => dir[x] = i
    BY <1>0, <1>7 DEF Reverting
<1>8. CASE Unlink \/ Select
    <2>1. inode' = inode /\ \A x \in Path : dir'[x] = i => dir[x] = i
        BY <1>0, <1>8 DEF Unlink, Select
    <2> QED
        BY <1>1, <2>1
<1>9. CASE \E p \in Path, f \in File : Replacing(p, f)
    BY <1>1, <1>4, <1>9
<1>10. CASE \E p, q \in Path : Compressing(p, q)
    BY <1>1, <1>5, <1>10
<1>11. CASE \E p, q \in Path : Moving(p, q)
    BY <1>1, <1>6, <1>11
<1>12. CASE \E p \in Path, f \in File : \E len : Reverting(p, f, len)
    BY <1>1, <1>7, <1>12
<1> QED
    BY <1>2, <1>3, <1>8, <1>9, <1>10, <1>11, <1>12, CodexSteps

\* The only step that leaves the exporter undisturbed.
LEMMA OnlyAppends ==
    ASSUME Native, pc \in Capturing, during' \subseteq {"append"}
    PROVE  AppendRecord
<1>1. \A kind : Note(kind) => kind \in during'
    BY DEF Note, Capturing
<1>2. ~Move
    BY <1>1 DEF Move
<1>3. ~Compress /\ ~Unlink
    BY <1>1 DEF Compress, Unlink
<1>4. ~Migrate
    <2>1. Migrate => Note("rewrite") \/ Note("replace")
        BY Zenon DEF Migrate
    <2> QED
        BY <1>1, <2>1
<1>5. ~Revert /\ ~Select
    BY <1>1 DEF Revert, Select
<1> QED
    BY <1>2, <1>3, <1>4, <1>5 DEF Native

\* Appends change nothing that the exporter relies on.
LEMMA NativeCalm ==
    ASSUME FInv, Calm, Native
    PROVE  Calm'
<1>0. TypeOK /\ Typed /\ Storage /\ Captures
    BY DEF FInv, IInv
<1>1. /\ UNCHANGED <<pc, selected, found, todo, end, cur, plan, stream>>
      /\ during \subseteq during'
    BY <1>0, NativeFrame
<1>2. SUFFICES ASSUME Undisturbed'
               PROVE  ListedNow' /\ ReadsNow' /\ ReadsOne' /\ ReadsAncestor'
    BY DEF Calm
<1>3. AppendRecord /\ Undisturbed
    BY <1>1, <1>2, OnlyAppends DEF Undisturbed
<1>4. UNCHANGED <<dir, base, sel, owed>>
    BY <1>3 DEF AppendRecord
<1>5. ListedNow /\ ReadsNow /\ ReadsOne /\ ReadsAncestor
    BY <1>3 DEF Calm
<1>6. ListedNow'
    BY <1>1, <1>4, <1>5 DEF ListedNow
<1>7. Ahead' = Ahead
    BY <1>1 DEF Ahead
<1>8. ReadsOne' /\ ReadsAncestor'
    BY <1>1, <1>4, <1>5, <1>7 DEF ReadsOne, ReadsAncestor
<1>9. pc \in {"readFirst", "readRest"} => cur.size <= inode'[cur.ino].len
    <2> SUFFICES ASSUME pc \in {"readFirst", "readRest"}
                 PROVE  cur.size <= inode'[cur.ino].len
        OBVIOUS
    <2>1. cur.ino \in Inode /\ inode[cur.ino].len > 0 /\ cur.size \in Nat
        BY <1>0, Bounds DEF Captures, Typed, Descriptor
    <2>2. ~Noted("rewrite")
        BY <1>1, <1>2 DEF Undisturbed, Noted, Capturing
    <2>3. inode[cur.ino].len <= inode'[cur.ino].len
        BY <1>0, <2>1, <2>2, NativeKeepsFiles
    <2>4. inode[cur.ino].len \in Nat /\ inode'[cur.ino].len \in Nat
        <3>1. inode \in [Inode -> File] /\ inode' \in [Inode -> File]
            BY <1>0, NativeStorage DEF TypeOK
        <3> QED
            BY <2>1, <3>1 DEF File
    <2>5. cur.size <= inode[cur.ino].len
        BY <1>5 DEF ReadsNow
    <2> QED
        BY <2>1, <2>3, <2>4, <2>5
<1>10. ReadsNow'
    BY <1>1, <1>4, <1>5, <1>9 DEF ReadsNow
<1> QED
    BY <1>6, <1>8, <1>10

\* Only a rewrite changes what a descriptor shows.
LEMMA NativeIntact ==
    ASSUME FInv, Intact, Native
    PROVE  Intact'
<1>0. TypeOK /\ Typed /\ Storage /\ Captures /\ Streamed /\ Versions /\ IInv
    BY DEF FInv, IInv
<1>1. /\ UNCHANGED <<pc, selected, found, todo, end, cur, plan, stream>>
      /\ during \subseteq during' /\ later \subseteq later'
    <2>1. \E kind : Note(kind)
        BY Zenon DEF Native, AppendRecord, Move, Compress, Unlink, Migrate, Revert, Select
    <2>2. later \subseteq later'
        BY <2>1 DEF Note
    <2> QED
        BY <1>0, <2>2, NativeFrame
<1>2. SUFFICES ASSUME "rewrite" \notin during' \cup later'
               PROVE  /\ pc \in {"readFirst", "readRest"} => ReadIntact'
                      /\ \A i \in DOMAIN plan : ItemIntact(plan[i])'
                      /\ pc = "copying" => cur.first = inode'[Sending.ino].ver
    <2>1. Sending' = Sending
        BY <1>1 DEF Sending
    <2> QED
        BY <1>1, <1>2, <2>1 DEF Intact
<1>3. /\ pc \in {"readFirst", "readRest"} => ReadIntact
      /\ \A i \in DOMAIN plan : ItemIntact(plan[i])
      /\ pc = "copying" => cur.first = inode[Sending.ino].ver
    BY <1>1, <1>2 DEF Intact
<1>4. ~Noted("rewrite")
    BY <1>2 DEF Noted
<1>5. inode \in [Inode -> File] /\ inode' \in [Inode -> File]
    BY <1>0, NativeStorage DEF TypeOK
<1>6. \A i \in Inode : inode[i].len \in Nat /\ inode'[i].len \in Nat
    BY <1>5 DEF File
<1>7. ASSUME pc \in {"readFirst", "readRest"} PROVE ReadIntact'
    <2>1. cur.ino \in Inode /\ inode[cur.ino].len > 0 /\ cur.size \in Nat
        BY <1>0, <1>7, Bounds DEF Captures, Typed, Descriptor
    <2>2. /\ inode'[cur.ino].ver = inode[cur.ino].ver
          /\ inode[cur.ino].len <= inode'[cur.ino].len
          /\ (\A p \in Path : dir[p] = cur.ino => p.zst) =>
                 /\ inode'[cur.ino] = inode[cur.ino]
                 /\ \A p \in Path : dir'[p] = cur.ino => p.zst
        BY <1>0, <1>4, <2>1, NativeKeepsFiles
    <2>3. ReadIntact
        BY <1>3, <1>7
    <2> QED
        BY <1>1, <1>6, <2>1, <2>2, <2>3 DEF ReadIntact
<1>8. ASSUME NEW i \in DOMAIN plan PROVE ItemIntact(plan[i])'
    <2> DEFINE f == plan[i]
    <2>1. f.ino \in Inode /\ inode[f.ino].len > 0 /\ f.len \in Nat
        BY <1>0, PlanEnds, Bounds DEF Item, Versions
    <2>2. /\ inode'[f.ino].ver = inode[f.ino].ver
          /\ inode[f.ino].len <= inode'[f.ino].len
          /\ (\A p \in Path : dir[p] = f.ino => p.zst) =>
                 /\ inode'[f.ino] = inode[f.ino]
                 /\ \A p \in Path : dir'[p] = f.ino => p.zst
        BY <1>0, <1>4, <2>1, NativeKeepsFiles
    <2>3. ItemIntact(f)
        BY <1>3
    <2>4. f' = f
        BY <1>1
    <2> QED
        BY <1>6, <2>1, <2>2, <2>3, <2>4 DEF ItemIntact
<1>9. ASSUME pc = "copying" PROVE cur.first = inode'[Sending.ino].ver
    <2>1. Sending.ino \in Inode /\ \E i \in DOMAIN plan : Sending = plan[i]
        BY <1>0, <1>9, SendingIs DEF Streamed, Sending
    <2>2. inode[Sending.ino].len > 0
        BY <1>0, <2>1 DEF Versions
    <2>3. inode'[Sending.ino].ver = inode[Sending.ino].ver
        BY <1>0, <1>4, <2>1, <2>2, NativeKeepsFiles
    <2> QED
        BY <1>3, <1>9, <2>3
<1> QED
    BY <1>7, <1>8, <1>9

\* Steps of Codex keep the invariant.
LEMMA NativeRInv ==
    ASSUME RInv, Native, ~Ended, Recorded
    PROVE  RInv'
<1>0. FInv /\ IInv /\ Apart /\ Codex /\ Calm /\ Intact /\ TypeOK /\ Storage /\ Row /\ History
    BY DEF RInv, FInv, IInv
<1>1. FInv'
    BY <1>0, NativeStep, NativeVersions, NativeApart, NativeHistory DEF FInv
<1>2. OneFile' /\ RowPlaced' /\ Inherited' /\ Representation' /\ FirstVersions'
    BY <1>0, NativeOneFile, NativeRowPlaced, NativeInherited, NativeRepresentation,
       NativeFirstVersions DEF Codex
<1>3. SavedNow'
    BY <1>0, <1>1, SavedGrows DEF SavedNow, FInv, IInv
<1>4. Calm' /\ Intact'
    BY <1>0, NativeCalm, NativeIntact
<1>5. RefusalJustified'
    <2>1. pc' = pc
        BY <1>0, NativeFrame
    <2> QED
        BY <2>1 DEF RefusalJustified, Ended
<1> QED
    BY <1>1, <1>2, <1>3, <1>4, <1>5 DEF RInv, Codex

-----------------------------------------------------------------------------
(* What the exporter refuses.                                              *)

\* The facts on Codex are not about the exporter.
LEMMA ExporterCodex ==
    ASSUME RInv, Exporter, Recorded, FInv'
    PROVE  Codex'
<1>0. Codex /\ History /\ TypeOK'
    BY DEF RInv, FInv, IInv
<1>1. UNCHANGED <<inode, dir, base, sel, owed>> /\ \A r : Live(r)' = Live(r)
    BY ExporterFrame, SourceKept
<1>2. OneFile' /\ RowPlaced' /\ Inherited' /\ Representation'
    BY <1>0, <1>1 DEF Codex, OneFile, RowPlaced, Inherited, Representation
<1>3. FirstVersions'
    <2>1. /\ pc' \in Capturing => pc \in {"idle"} \cup Capturing
          /\ pc' \in Capturing => during \cap {"replace", "rewrite"} \subseteq during'
          /\ pc' # "idle"
        BY DEF Exporter, ReadSelection, ListArchived, ListSessions, Open, ReadFirst,
           ReadRest, Lineage, Recheck, CopyFirst, CopyRest, Complete, Fail, Goto, Capturing
    <2> QED
        BY <1>0, <1>1, <2>1 DEF Codex, FirstVersions
<1>4. SavedNow'
    BY <1>0, SavedGrows DEF SavedNow
<1> QED
    BY <1>2, <1>3, <1>4 DEF Codex

\* A conversation that Codex has saved records of.
LEMMA ConversationSaved ==
    ASSUME RInv, pc # "idle", ~NothingSaved, NEW p \in Path, p.area # "prerequisite",
           p.r \in Thread, dir[p] # 0, sel # NoSelection => p.r = sel.r
    PROVE  inode[dir[p]].len # 0
<1> DEFINE s == [r |-> p.r, len |-> inode[dir[p]].len, ver |-> inode[dir[p]].ver]
<1>1. p \in Live(p.r)
    BY DEF Live
<1>2. p.r \in (IF sel = NoSelection THEN Thread ELSE {sel.r})
    OBVIOUS
<1>3. s \in Conversation
    BY <1>1, <1>2 DEF Conversation
<1>4. s \in saved
    BY <1>3 DEF RInv, Codex, SavedNow
<1> QED
    BY <1>4 DEF NothingSaved

\* The first read of the selection: no operation is under way.
LEMMA ReadSelectionRefuses ==
    ASSUME RInv, ReadSelection
    PROVE  Calm' /\ Intact' /\ RefusalJustified'
<1>0. Captures /\ TypeOK
    BY DEF RInv, FInv, IInv
<1>1. /\ pc = "idle" /\ pc' = "archived" /\ selected' = sel /\ UNCHANGED source
      /\ UNCHANGED <<stream, found, todo, end, cur, plan>>
      /\ owed # "nothing" => "under way" \in during'
    BY DEF ReadSelection
<1>2. plan = <<>> /\ UNCHANGED <<sel, owed>>
    BY <1>0, <1>1 DEF Captures, source
<1>3. Calm'
    <2>1. Undisturbed' => owed' = "nothing"
        BY <1>1, <1>2 DEF Undisturbed
    <2> QED
        BY <1>1, <1>2, <2>1 DEF Calm, ListedNow, ReadsNow, ReadsOne, ReadsAncestor, Reading
<1>4. Intact'
    <2>1. plan' = <<>> /\ pc' = "archived"
        BY <1>1, <1>2
    <2> QED
        BY <2>1 DEF Intact
<1>5. RefusalJustified'
    BY <1>1 DEF RefusalJustified
<1> QED
    BY <1>3, <1>4, <1>5

\* Listing archived_sessions refuses nothing.
LEMMA ListArchivedRefuses ==
    ASSUME RInv, ListArchived
    PROVE  Calm' /\ Intact' /\ RefusalJustified'
<1>0. Captures /\ Calm
    BY DEF RInv, FInv, IInv
<1>1. /\ pc = "archived" /\ pc' = "sessions" /\ UNCHANGED source
      /\ UNCHANGED <<stream, selected, todo, end, cur, plan, during>>
      /\ found' = {p \in Path : p.area # "sessions" /\ dir[p] # 0}
    BY DEF ListArchived, Goto
<1>2. plan = <<>> /\ UNCHANGED <<sel, owed, dir>>
    BY <1>0, <1>1 DEF Captures, source
<1>3. Calm'
    <2>1. Undisturbed' => Undisturbed
        BY <1>1 DEF Undisturbed, Capturing
    <2> QED
        BY <1>0, <1>1, <1>2, <2>1 DEF Calm, ListedNow, ReadsNow, ReadsOne, ReadsAncestor,
           Reading
<1>4. Intact' /\ RefusalJustified'
    BY <1>1, <1>2 DEF Intact, RefusalJustified
<1> QED
    BY <1>3, <1>4

\* One rollout is found if Codex only appends.
LEMMA ListSessionsRefuses ==
    ASSUME RInv, ListSessions
    PROVE  Calm' /\ Intact' /\ RefusalJustified'
<1> DEFINE paths == found \cup {x \in Path : x.area = "sessions" /\ dir[x] # 0}
           main == MainCandidates(paths)
           named == {p.r : p \in main}
<1>0. Captures /\ Calm /\ TypeOK /\ Row /\ Inventory /\ Codex
    BY DEF RInv, FInv, IInv
<1>1. pc = "sessions" /\ plan = <<>> /\ end = NoBase
    BY <1>0 DEF ListSessions, Captures
<1>2. UNCHANGED <<inode, dir, base, sel, owed, selected, plan, end, during>> /\ UNCHANGED source
    BY DEF ListSessions, Fail, Goto, capture, source
<1>3. ASSUME Undisturbed
      PROVE  /\ paths = {p \in Path : dir[p] # 0} /\ sel = selected /\ owed = "nothing"
             /\ \E g \in Thread : named = {g}
    <2>1. /\ sel = selected /\ owed = "nothing"
          /\ found = {p \in Path : p.area # "sessions" /\ dir[p] # 0}
        BY <1>0, <1>1, <1>3 DEF Calm, ListedNow
    <2>2. paths = {p \in Path : dir[p] # 0}
        BY <2>1
    <2>3. CASE selected = NoSelection
        <3>1. main = {p \in Path : dir[p] # 0 /\ p.r \in Thread /\ p.area # "prerequisite"}
            BY <2>2, <2>3 DEF MainCandidates
        <3>2. Live(3) = {} /\ Live(2) # {}
            BY <1>0, <2>1, <2>3 DEF Codex, RowPlaced
        <3>3. \A p \in main : p.r = 2
            BY <3>1, <3>2 DEF Live, Thread
        <3>4. PICK q \in Path : q.r = 2 /\ q.area # "prerequisite" /\ dir[q] # 0
            BY <3>2 DEF Live
        <3>5. q \in main
            BY <3>1, <3>4 DEF Thread
        <3> HIDE DEF main
        <3>6. named = {2}
            BY <3>3, <3>4, <3>5
        <3> QED
            BY <2>1, <2>2, <3>6 DEF Thread
    <2>4. CASE selected # NoSelection
        <3>1. main = {p \in Path : dir[p] # 0 /\ p.r = selected.r /\ p.area = selected.area}
            BY <2>2, <2>4 DEF MainCandidates
        <3>2. PICK q \in Live(selected.r) : q.area = selected.area
            BY <1>0, <2>1, <2>4 DEF Codex, RowPlaced
        <3>3. q \in main /\ q.r = selected.r
            BY <3>1, <3>2 DEF Live
        <3>4. \A p \in main : p.r = selected.r
            BY <3>1
        <3>5. selected.r \in Thread
            BY <1>0, <2>4 DEF TypeOK, Row, Thread
        <3> HIDE DEF main
        <3>6. named = {selected.r}
            BY <3>3, <3>4
        <3> QED
            BY <2>1, <2>2, <3>5, <3>6
    <2> QED
        BY <2>3, <2>4
<1>4. CASE Cardinality(named) # 1
    <2>1. Fail("refused")
        BY <1>4 DEF ListSessions
    <2>2. pc' = "refused"
        BY <2>1 DEF Fail, Goto
    <2>3. ~Undisturbed
        <3> SUFFICES ASSUME Undisturbed PROVE FALSE
            OBVIOUS
        <3>1. PICK g \in Thread : named = {g}
            BY <1>3
        <3> HIDE DEF named
        <3> QED
            BY <1>4, <3>1, FS_Singleton
    <2>4. during \ {"append"} # {}
        BY <1>1, <2>3 DEF Undisturbed, Capturing
    <2>5. RefusalJustified'
        BY <1>2, <2>2, <2>4 DEF RefusalJustified
    <2>6. Calm' /\ Intact'
        BY <1>1, <1>2, <2>2 DEF Calm, Undisturbed, Capturing, Intact
    <2> QED
        BY <2>5, <2>6
<1>5. CASE Cardinality(named) = 1
    <2>1. found' = paths /\ todo' = main /\ pc' = "open"
        BY <1>5 DEF ListSessions, Goto
    <2>2. RefusalJustified' /\ Intact'
        BY <1>1, <1>2, <2>1 DEF RefusalJustified, Intact
    <2>3. \A p \in main :
            Chosen(p.r) /\ p.r \in Rollout /\ p \in Path /\ p.area # "prerequisite"
        BY <1>0, MainIsChosen
    <2>4. ASSUME Undisturbed' PROVE ListedNow' /\ ReadsNow' /\ ReadsOne' /\ ReadsAncestor'
        <3>1. Undisturbed
            BY <1>1, <1>2, <2>4 DEF Undisturbed, Capturing
        <3>2. /\ paths = {p \in Path : dir[p] # 0} /\ sel = selected /\ owed = "nothing"
              /\ \E g \in Thread : named = {g}
            BY <1>3, <3>1
        <3>3. ListedNow'
            BY <1>1, <1>2, <2>1, <3>2 DEF ListedNow
        <3>4. ReadsNow' /\ ReadsAncestor'
            BY <1>1, <1>2, <2>1 DEF ReadsNow, ReadsAncestor
        <3>5. Ahead' = main
            BY <2>1 DEF Ahead
        <3>6. main \subseteq paths
            BY DEF MainCandidates
        <3> HIDE DEF main, paths
        <3>7. ASSUME NEW p \in main, NEW q \in main PROVE p = q
            <4>1. p.r = q.r
                BY <3>2, <3>7
            <4>2. p \in Path /\ q \in Path /\ dir[p] # 0 /\ dir[q] # 0
                BY <3>2, <3>6
            <4>3. p.area = q.area /\ p.zst = q.zst
                BY <1>0, <2>3, <3>2, <4>1, <4>2 DEF Codex, OneFile
            <4> QED
                BY <4>1, <4>2, <4>3, PathParts
        <3>8. \A p \in main : /\ p.area # "prerequisite" /\ p.r \in Thread
                              /\ (sel # NoSelection => p.r = sel.r)
            BY <2>3, <3>2 DEF Chosen
        <3>9. ReadsOne'
            BY <1>1, <1>2, <3>5, <3>7, <3>8 DEF ReadsOne
        <3> QED
            BY <3>3, <3>4, <3>9
    <2> QED
        BY <2>2, <2>4 DEF Calm
<1> QED
    BY <1>4, <1>5

\* A refusal that has a reason.
LEMMA RefusedWithReason ==
    ASSUME RInv, Recorded, pc \in Capturing, pc' = "refused",
           UNCHANGED <<inode, dir, end, plan, during, later>>,
           Undisturbed => NothingSaved \/ ShortCopy
    PROVE  Calm' /\ Intact' /\ RefusalJustified'
<1>1. Intact
    BY DEF RInv
<1>2. Calm'
    BY DEF Calm, Undisturbed, Capturing
<1>3. Intact'
    BY <1>1 DEF Intact, ItemIntact
<1>4. ShortCopy => ShortCopy'
    BY DEF ShortCopy
<1>5. NothingSaved => NothingSaved'
    BY DEF NothingSaved, Recorded
<1>6. ~Undisturbed => during' \ {"append"} # {}
    BY DEF Undisturbed
<1>7. RefusalJustified'
    BY <1>4, <1>5, <1>6 DEF RefusalJustified
<1> QED
    BY <1>2, <1>3, <1>7

\* A file that can be listed can be read, unless nothing is saved or a copy of an
\* ancestor is too short.
LEMMA OpenRefuses ==
    ASSUME RInv, Open, Recorded
    PROVE  Calm' /\ Intact' /\ RefusalJustified'
<1>0. Captures /\ Calm /\ Intact /\ TypeOK /\ Typed /\ Codex
    BY DEF RInv, FInv, IInv
<1>1. PICK p \in todo :
        /\ pc = "open" /\ todo' = todo \ {p}
        /\ IF Unreadable(p)
           THEN Goto("refused") /\ UNCHANGED <<selected, found, end, cur, plan>>
           ELSE /\ cur' = [ino |-> dir[p], path |-> p, first |-> 0,
                           size |-> IF end = NoBase THEN inode[dir[p]].len
                                    ELSE end.len]
                /\ Goto("readFirst")
                /\ UNCHANGED <<selected, found, end, plan>>
    BY DEF Open
<1>2. /\ UNCHANGED <<inode, dir, base, sel, owed, selected, found, plan, end, during>>
      /\ UNCHANGED later /\ UNCHANGED source
    BY <1>1 DEF Goto, source
<1>3. p \in Path /\ p \in Ahead
    BY <1>0 DEF TypeOK, Ahead
<1>4. \A i \in Inode : inode[i].len \in Nat
    BY <1>0 DEF TypeOK, File
<1>5. end \in Boundary /\ end.len \in Nat /\ dir \in [Path -> Inode \cup {0}]
    BY <1>0, Bounds DEF TypeOK, Boundary
<1>6. CASE Unreadable(p)
    <2>1. pc' = "refused" /\ pc \in Capturing
        BY <1>1, <1>6 DEF Goto, Capturing
    <2>2. ASSUME Undisturbed, ~NothingSaved PROVE ShortCopy
        <3>1. dir[p] # 0
            BY <1>0, <1>1, <2>2 DEF Calm, ListedNow, TypeOK
        <3>2. dir[p] \in Inode
            BY <1>3, <1>5, <3>1
        <3>3. end # NoBase
            <4> SUFFICES ASSUME end = NoBase PROVE FALSE
                OBVIOUS
            <4>1. /\ p.area # "prerequisite" /\ p.r \in Thread
                  /\ (sel # NoSelection => p.r = sel.r)
                BY <1>0, <1>1, <1>3, <2>2 DEF Calm, ReadsOne, Reading
            <4>2. inode[dir[p]].len # 0
                BY <1>1, <1>3, <2>2, <3>1, <4>1, ConversationSaved
            <4> QED
                BY <1>6, <3>1, <4>2 DEF Unreadable
        <3>4. inode[dir[p]].len < end.len
            <4>1. end.len > 0
                BY <1>0, <3>3 DEF Captures
            <4> QED
                BY <1>4, <1>5, <1>6, <3>1, <3>2, <4>1 DEF Unreadable
        <3>5. p.r = end.r /\ \E r \in Rollout : end = base[r]
            BY <1>0, <1>1, <1>3, <2>2, <3>3 DEF Calm, ReadsAncestor, Reading
        <3>6. p.area = "prerequisite"
            <4> SUFFICES ASSUME p.area # "prerequisite" PROVE FALSE
                OBVIOUS
            <4>1. PICK r \in Rollout : end = base[r]
                BY <3>5
            <4>2. p \in Live(base[r].r)
                BY <1>3, <3>1, <3>5, <4>1 DEF Live
            <4>3. base[r].len <= inode[dir[p]].len
                BY <1>0, <4>2 DEF Codex, Inherited
            <4> QED
                BY <1>4, <1>5, <3>2, <3>4, <4>1, <4>3
        <3> QED
            BY <1>3, <3>1, <3>3, <3>4, <3>5, <3>6 DEF ShortCopy
    <2> QED
        BY <1>2, <2>1, <2>2, RefusedWithReason
<1>7. CASE ~Unreadable(p)
    <2>1. /\ pc' = "readFirst"
          /\ cur' = [ino |-> dir[p], path |-> p, first |-> 0,
                     size |-> IF end = NoBase THEN inode[dir[p]].len ELSE end.len]
        BY <1>1, <1>7 DEF Goto
    <2>2. /\ cur'.ino = dir[p] /\ cur'.path = p
          /\ cur'.size = IF end = NoBase THEN inode[dir[p]].len ELSE end.len
        BY <2>1
    <2>3. dir[p] \in Inode /\ dir[p] # 0 /\ cur'.size <= inode[dir[p]].len
        BY <1>3, <1>4, <1>5, <1>7, <2>2 DEF Unreadable
    <2>4. RefusalJustified'
        BY <2>1 DEF RefusalJustified
    <2>5. Intact'
        <3>1. cur'.path.zst => \A q \in Path : dir[q] = cur'.ino => q.zst
            BY <1>0, <1>3, <2>2, <2>3 DEF Codex, Representation
        <3>2. ReadIntact'
            BY <1>2, <2>1, <2>2, <2>3, <3>1 DEF ReadIntact
        <3> QED
            BY <1>0, <1>2, <2>1, <3>2 DEF Intact, ItemIntact
    <2>6. ASSUME Undisturbed' PROVE ListedNow' /\ ReadsNow' /\ ReadsOne' /\ ReadsAncestor'
        <3>1. Undisturbed
            BY <1>1, <1>2, <2>6 DEF Undisturbed, Capturing
        <3>2. ListedNow /\ ReadsOne /\ ReadsAncestor
            BY <1>0, <3>1 DEF Calm
        <3>3. ListedNow'
            BY <1>1, <1>2, <2>1, <3>2 DEF ListedNow
        <3>4. Ahead' = Ahead
            BY <1>1, <2>1, <2>2 DEF Ahead
        <3>5. ReadsOne' /\ ReadsAncestor'
            BY <1>1, <1>2, <2>1, <3>2, <3>4 DEF ReadsOne, ReadsAncestor, Reading
        <3>6. end = NoBase => todo' = {}
            <4>1. end = NoBase => \A x, y \in Ahead : x = y
                BY <1>1, <3>2 DEF ReadsOne, Reading
            <4> QED
                BY <1>1, <4>1 DEF Ahead
        <3>7. ReadsNow'
            BY <1>2, <1>3, <2>1, <2>2, <2>3, <3>6 DEF ReadsNow
        <3> QED
            BY <3>3, <3>5, <3>7
    <2> QED
        BY <2>4, <2>5, <2>6 DEF Calm
<1> QED
    BY <1>6, <1>7

\* The first half of a read refuses nothing.
LEMMA ReadFirstRefuses ==
    ASSUME RInv, ReadFirst
    PROVE  Calm' /\ Intact' /\ RefusalJustified'
<1>0. Captures /\ Calm /\ Intact /\ TypeOK /\ Typed /\ Codex /\ Storage
    BY DEF RInv, FInv, IInv
<1>1. /\ pc = "readFirst" /\ pc' = "readRest"
      /\ cur' = [cur EXCEPT !.first = inode[cur.ino].ver]
      /\ UNCHANGED <<inode, dir, base, sel, owed, selected, found, todo, plan, end, during, later>>
    BY DEF ReadFirst, Goto, source
<1>2. /\ cur'.ino = cur.ino /\ cur'.path = cur.path /\ cur'.size = cur.size
      /\ cur'.first = inode[cur.ino].ver
    BY <1>0, <1>1 DEF Typed, Descriptor
<1>3. RefusalJustified'
    BY <1>1 DEF RefusalJustified
<1>4. Intact'
    BY <1>0, <1>1, <1>2 DEF Intact, ItemIntact, ReadIntact
<1>5. ASSUME Undisturbed' PROVE ListedNow' /\ ReadsNow' /\ ReadsOne' /\ ReadsAncestor'
    <2>1. Undisturbed
        BY <1>1, <1>5 DEF Undisturbed, Capturing
    <2>2. ListedNow /\ ReadsNow /\ ReadsOne /\ ReadsAncestor
        BY <1>0, <2>1 DEF Calm
    <2>3. ListedNow'
        BY <1>1, <2>2 DEF ListedNow
    <2>4. Ahead' = Ahead
        BY <1>1, <1>2 DEF Ahead
    <2>5. ReadsOne' /\ ReadsAncestor'
        BY <1>1, <2>2, <2>4 DEF ReadsOne, ReadsAncestor, Reading
    <2>6. inode[cur.ino].ver = 1
        <3>1. cur.path \in Path /\ dir[cur.path] # 0 /\ cur.ino = dir[cur.path]
            BY <1>1, <2>2 DEF ReadsNow
        <3>2. cur.ino \in Inode /\ inode[cur.ino].ver > 0
            BY <1>0, <3>1 DEF Storage, TypeOK
        <3>3. inode[cur.ino].ver \in Nat
            BY <1>0, <3>2 DEF TypeOK, File
        <3>4. inode[cur.ino].ver <= 1
            BY <1>0, <2>1, <3>2 DEF Codex, FirstVersions, Undisturbed
        <3> QED
            BY <3>2, <3>3, <3>4
    <2>7. ReadsNow'
        BY <1>1, <1>2, <2>2, <2>6 DEF ReadsNow
    <2> QED
        BY <2>3, <2>5, <2>7
<1> QED
    BY <1>3, <1>4, <1>5 DEF Calm

\* What is read of a file that has not shrunk.
LEMMA CapturedWhole ==
    ASSUME RInv, pc = "readRest", cur.size <= inode[cur.ino].len
    PROVE  /\ Captured.len = cur.size /\ Captured.r = cur.path.r /\ Captured.ino = cur.ino
           /\ Captured.first = cur.first /\ Captured.zst = cur.path.zst
           /\ Captured.prefix = (end # NoBase)
           /\ cur.first = inode[cur.ino].ver => Captured.rest = inode[cur.ino].ver
<1>0. TypeOK /\ Typed /\ Captures
    BY DEF RInv, FInv, IInv
<1>1. cur.ino \in Inode /\ cur.size \in Nat /\ inode[cur.ino].len \in Nat
    BY <1>0, Bounds DEF Captures, Typed, Descriptor, TypeOK, File
<1>2. Min({cur.size, inode[cur.ino].len}) = cur.size
    BY <1>1, Shorter
<1> QED
    BY <1>2 DEF Captured, Rest

\* If Codex only appends, what is read is of the first version.
LEMMA ReadsFirstVersion ==
    ASSUME RInv, Undisturbed, pc \in {"readFirst", "readRest"}
    PROVE  inode[cur.ino].ver = 1
<1>0. TypeOK /\ Storage /\ Codex /\ Calm
    BY DEF RInv, FInv, IInv
<1>1. cur.path \in Path /\ dir[cur.path] # 0 /\ cur.ino = dir[cur.path]
    BY <1>0 DEF Calm, ReadsNow
<1>2. cur.ino \in Inode /\ inode[cur.ino].ver > 0
    BY <1>0, <1>1 DEF Storage, TypeOK
<1>3. inode[cur.ino].ver \in Nat
    BY <1>0, <1>2 DEF TypeOK, File
<1>4. inode[cur.ino].ver <= 1
    BY <1>0, <1>2 DEF Codex, FirstVersions, Undisturbed
<1> QED
    BY <1>2, <1>3, <1>4

\* Nothing shrinks and all representations agree if Codex only appends.
LEMMA ReadRestRefuses ==
    ASSUME RInv, ReadRest, Recorded
    PROVE  Calm' /\ Intact' /\ RefusalJustified'
<1>0. Captures /\ Calm /\ Intact /\ TypeOK /\ Typed /\ Codex /\ IInv
    BY DEF RInv, FInv, IInv
<1>1. pc = "readRest" /\ pc \in Capturing /\ cur.path \in Ahead
    BY DEF ReadRest, Capturing, Ahead
<1>2. /\ cur.ino \in Inode /\ cur.size \in Nat /\ inode[cur.ino].len \in Nat
      /\ end.len \in Nat
    BY <1>0, <1>1, Bounds DEF Captures, Typed, Descriptor, TypeOK, File, Boundary
<1>3. ASSUME Undisturbed
      PROVE  /\ cur.size <= inode[cur.ino].len /\ cur.first = 1
             /\ Captured.len = cur.size /\ Captured.first = 1 /\ Captured.rest = 1
             /\ end # NoBase => cur.size = end.len /\ cur.path.r = end.r
             /\ end = NoBase => plan = <<>> /\ todo = {}
    <2>1. ReadsNow /\ ReadsOne /\ ReadsAncestor
        BY <1>0, <1>3 DEF Calm
    <2>2. /\ cur.size <= inode[cur.ino].len /\ cur.first = 1
          /\ end # NoBase => cur.size = end.len
          /\ end = NoBase => todo = {}
        BY <1>1, <2>1 DEF ReadsNow
    <2>3. inode[cur.ino].ver = 1
        BY <1>1, <1>3, ReadsFirstVersion
    <2>4. Captured.len = cur.size /\ Captured.first = 1 /\ Captured.rest = 1
        BY <1>1, <2>2, <2>3, CapturedWhole
    <2>5. /\ end # NoBase => cur.path.r = end.r
          /\ end = NoBase => plan = <<>>
        BY <1>1, <2>1 DEF ReadsOne, ReadsAncestor, Reading
    <2> QED
        BY <2>2, <2>4, <2>5
<1> DEFINE refused == \/ end # NoBase /\ Captured.len # end.len
                      \/ inode[cur.ino].tail /\ inode[cur.ino].len < cur.size
                      \/ Known /\ ~Same(plan[Len(plan)], Captured)
<1>4. CASE refused
    <2>1. Fail("refused")
        BY <1>4 DEF ReadRest
    <2>2. /\ pc' = "refused"
          /\ UNCHANGED <<inode, dir, end, plan, during, later>>
        BY <2>1 DEF Fail, Goto, source, capture
    <2>3. ASSUME Undisturbed PROVE FALSE
        <3>1. Known /\ ~Same(plan[Len(plan)], Captured)
            BY <1>2, <1>3, <1>4, <2>3
        <3>2. plan # <<>> /\ plan[Len(plan)].r = cur.path.r
            BY <3>1 DEF Known
        <3>3. end # NoBase /\ plan[Len(plan)].r = end.r
            BY <1>3, <2>3, <3>2
        <3>4. plan[Len(plan)].len = end.len
            BY <1>0, <1>1, <2>3, <3>3 DEF Calm, ReadsAncestor, Reading
        <3>5. plan[Len(plan)].first = 1 /\ plan[Len(plan)].rest = 1
            BY <1>0, <2>3, <3>2, PlanEnds DEF Calm, ListedNow
        <3> QED
            BY <1>3, <2>3, <3>1, <3>3, <3>4, <3>5 DEF Same
    <2> QED
        BY <1>1, <2>2, <2>3, RefusedWithReason
<1>5. CASE ~refused
    <2>1. /\ plan' = IF Known THEN plan ELSE Append(plan, Captured)
          /\ pc' = IF todo # {} THEN "open" ELSE "lineage"
          /\ UNCHANGED <<inode, dir, base, sel, owed, selected, found, todo, end, cur, during,
                         later>>
        BY <1>5 DEF ReadRest, Goto, source
    <2>2. /\ plan' # <<>> /\ Len(plan') \in DOMAIN plan'
          /\ \A i \in DOMAIN plan' : \/ i \in DOMAIN plan /\ plan'[i] = plan[i]
                                     \/ plan'[i] = Captured
          /\ Known => plan' = plan
          /\ ~Known => plan'[Len(plan')] = Captured
        <3>1. CASE Known
            <4>1. plan' = plan /\ plan # <<>>
                BY <2>1, <3>1 DEF Known
            <4> QED
                BY <1>0, <3>1, <4>1, PlanEnds
        <3>2. CASE ~Known
            <4>1. plan' = Append(plan, Captured)
                BY <2>1, <3>2
            <4>2. Captured \in Item
                BY <1>0, <1>1, CapturedTyped
            <4>3. plan \in Seq(Item) /\ Len(plan) \in Nat /\ DOMAIN plan = 1..Len(plan)
                BY <1>0, PlanEnds DEF Typed
            <4> HIDE DEF Captured
            <4>4. /\ Len(plan') = Len(plan) + 1 /\ DOMAIN plan' = 1..(Len(plan) + 1)
                  /\ \A i \in 1..Len(plan) : plan'[i] = plan[i]
                  /\ plan'[Len(plan) + 1] = Captured
                BY <4>1, <4>2, <4>3
            <4>5. \A i \in 1..(Len(plan) + 1) : i \in 1..Len(plan) \/ i = Len(plan) + 1
                BY <4>3
            <4>6. plan' # <<>>
                BY <4>3, <4>4
            <4> QED
                BY <3>2, <4>3, <4>4, <4>5, <4>6
        <3> QED
            BY <3>1, <3>2
    <2>3. RefusalJustified'
        BY <2>1 DEF RefusalJustified
    <2>4. Intact'
        <3> SUFFICES ASSUME "rewrite" \notin during \cup later
                     PROVE  \A i \in DOMAIN plan' : ItemIntact(plan[i])'
            BY <2>1 DEF Intact
        <3>1. ReadIntact /\ \A i \in DOMAIN plan : ItemIntact(plan[i])
            BY <1>0, <1>1 DEF Intact
        <3>2. cur.size <= inode[cur.ino].len /\ cur.first = inode[cur.ino].ver
            BY <1>1, <3>1 DEF ReadIntact
        <3>3. /\ Captured.len = cur.size /\ Captured.ino = cur.ino
              /\ Captured.first = cur.first /\ Captured.zst = cur.path.zst
              /\ Captured.prefix = (end # NoBase) /\ Captured.rest = inode[cur.ino].ver
            BY <1>1, <3>2, CapturedWhole
        <3>4. ItemIntact(Captured)
            BY <3>1, <3>2, <3>3 DEF ItemIntact, ReadIntact
        <3>5. \A i \in DOMAIN plan' : ItemIntact(plan'[i])
            BY <2>2, <3>1, <3>4
        <3> QED
            BY <2>1, <3>5 DEF ItemIntact
    <2>5. ASSUME Undisturbed' PROVE ListedNow' /\ ReadsNow' /\ ReadsOne' /\ ReadsAncestor'
        <3>1. Undisturbed
            BY <1>1, <2>1, <2>5 DEF Undisturbed
        <3>2. ListedNow /\ ReadsAncestor
            BY <1>0, <3>1 DEF Calm
        <3>3. ListedNow'
            <4>1. \A i \in DOMAIN plan' : plan'[i].first = 1 /\ plan'[i].rest = 1
                BY <1>3, <2>2, <3>1, <3>2 DEF ListedNow
            <4> QED
                BY <1>1, <2>1, <3>2, <4>1 DEF ListedNow
        <3>4. ReadsNow'
            BY <2>1 DEF ReadsNow
        <3>5. ReadsOne'
            BY <1>3, <2>1, <3>1 DEF ReadsOne, Reading
        <3>6. ReadsAncestor'
            <4> SUFFICES ASSUME pc' = "open", end # NoBase
                         PROVE  /\ \E r \in Rollout : end = base[r]
                                /\ \A p \in Ahead' : p.r = end.r
                                /\ plan'[Len(plan')].r = end.r =>
                                      plan'[Len(plan')].len = end.len
                BY <2>1, <2>2 DEF ReadsAncestor, Reading
            <4>1. /\ \E r \in Rollout : end = base[r]
                  /\ \A p \in Ahead : p.r = end.r
                  /\ plan # <<>>
                  /\ plan[Len(plan)].r = end.r => plan[Len(plan)].len = end.len
                BY <1>1, <3>2 DEF ReadsAncestor, Reading
            <4>2. Ahead' \subseteq Ahead
                BY <1>1, <2>1 DEF Ahead
            <4>3. plan'[Len(plan')].r = end.r => plan'[Len(plan')].len = end.len
                BY <1>3, <2>2, <3>1, <4>1
            <4> QED
                BY <4>1, <4>2, <4>3
        <3> QED
            BY <3>3, <3>4, <3>5, <3>6
    <2> QED
        BY <2>3, <2>4, <2>5 DEF Calm
<1> QED
    BY <1>4, <1>5

\* What a rollout inherits is in the inventory if Codex only appends.
LEMMA LineageRefuses ==
    ASSUME RInv, Lineage, Recorded
    PROVE  Calm' /\ Intact' /\ RefusalJustified'
<1> DEFINE b == base[plan[Len(plan)].r]
           next == {p \in found : p.r = b.r}
<1>0. Captures /\ Calm /\ Intact /\ TypeOK /\ Typed /\ Codex /\ Ancestry
    BY DEF RInv, FInv, IInv
<1>1. /\ pc = "lineage" /\ pc \in Capturing
      /\ UNCHANGED <<inode, dir, base, sel, owed, selected, found, plan, cur, during, later>>
    BY DEF Lineage, Capturing, Fail, Goto, capture, source
<1>2. plan # <<>> /\ plan[Len(plan)].r \in {1, 2, 3}
    BY <1>0, <1>1, PlanEnds DEF Captures, Rollout
<1>3. Undisturbed' => Undisturbed /\ ListedNow
    BY <1>0, <1>1 DEF Undisturbed, Calm
<1>4. CASE b = NoBase
    <2>1. pc' = "recheck"
        BY <1>4 DEF Lineage, Goto
    <2>2. Calm'
        BY <1>1, <1>3, <2>1 DEF Calm, ListedNow, ReadsNow, ReadsOne, ReadsAncestor, Reading
    <2>3. Intact' /\ RefusalJustified'
        BY <1>0, <1>1, <2>1 DEF Intact, ItemIntact, RefusalJustified
    <2> QED
        BY <2>2, <2>3
<1>5. CASE b # NoBase /\ next = {}
    <2>1. pc' = "refused" /\ end' = end
        BY <1>5 DEF Lineage, Fail, Goto, capture
    <2>2. ASSUME Undisturbed PROVE FALSE
        <3>1. found = {p \in Path : dir[p] # 0}
            BY <1>0, <1>1, <2>2 DEF Calm, ListedNow
        <3>2. b.r = 1 \/ b.r = 2
            BY <1>0, <1>2, <1>5 DEF Ancestry
        <3>3. \E p \in Path : p.r = b.r /\ dir[p] # 0
            BY <1>0, <3>2 DEF Codex, Inherited, RowPlaced, Live
        <3> QED
            BY <1>5, <3>1, <3>3
    <2> QED
        BY <1>1, <2>1, <2>2, RefusedWithReason
<1>6. CASE b # NoBase /\ next # {}
    <2>1. pc' = "open" /\ end' = b /\ todo' = next
        BY <1>6 DEF Lineage, Goto
    <2>2. Intact' /\ RefusalJustified'
        BY <1>0, <1>1, <2>1 DEF Intact, ItemIntact, RefusalJustified
    <2>3. b.r # plan[Len(plan)].r
        BY <1>0, <1>2, <1>6 DEF Ancestry
    <2>4. Ahead' = next
        BY <2>1 DEF Ahead
    <2>5. ReadsAncestor'
        BY <1>1, <1>2, <2>1, <2>3, <2>4 DEF ReadsAncestor, Rollout
    <2>6. ReadsNow' /\ ReadsOne'
        BY <1>6, <2>1 DEF ReadsNow, ReadsOne
    <2>7. Undisturbed' => ListedNow'
        BY <1>1, <1>3, <2>1 DEF ListedNow
    <2> QED
        BY <2>2, <2>5, <2>6, <2>7 DEF Calm
<1> QED
    BY <1>4, <1>5, <1>6

\* The second read of the selection refuses only if the row has moved on.
LEMMA RecheckRefuses ==
    ASSUME RInv, Recheck, Recorded
    PROVE  Calm' /\ Intact' /\ RefusalJustified'
<1>0. Calm /\ Intact
    BY DEF RInv
<1>1. /\ pc = "recheck" /\ pc \in Capturing
      /\ pc' = IF sel = selected THEN "export" ELSE "refused"
      /\ UNCHANGED <<inode, dir, end, plan, during, later>>
    BY DEF Recheck, Capturing, Fail, Goto, capture, source, SelectionHolds
<1>2. CASE sel # selected
    BY <1>0, <1>1, <1>2, RefusedWithReason DEF Calm, ListedNow
<1>3. CASE sel = selected
    BY <1>0, <1>1, <1>3 DEF Calm, Undisturbed, Capturing, Intact, ItemIntact, RefusalJustified
<1> QED
    BY <1>2, <1>3

\* Only a rewritten file is not what was captured.
LEMMA CopyRefuses ==
    ASSUME RInv, CopyFirst \/ CopyRest \/ Complete
    PROVE  Calm' /\ Intact' /\ RefusalJustified'
<1>0. Calm /\ Intact /\ IInv /\ Typed /\ Streamed /\ Captures
    BY DEF RInv, FInv, IInv
<1>1. UNCHANGED <<inode, dir, plan, during, later>>
    BY DEF CopyFirst, CopyRest, Complete, Fail, Goto, capture, source
<1>2. Calm'
    <2>1. pc' \notin Capturing
        BY DEF CopyFirst, CopyRest, Complete, Fail, Goto, Capturing
    <2> QED
        BY <2>1 DEF Calm, Undisturbed
<1>3. CASE CopyFirst
    <2>1. /\ pc' = "copying" /\ cur' = [cur EXCEPT !.first = inode[Sending.ino].ver]
          /\ UNCHANGED stream
        BY <1>3 DEF CopyFirst, Goto
    <2>2. cur'.first = inode[Sending.ino].ver /\ Sending' = Sending
        BY <1>0, <1>1, <2>1 DEF Typed, Descriptor, Sending
    <2>3. Intact' /\ RefusalJustified'
        BY <1>0, <1>1, <2>1, <2>2 DEF Intact, ItemIntact, RefusalJustified
    <2> QED
        BY <1>2, <2>3
<1>4. CASE CopyRest
    <2>1. pc = "copying" /\ pc' = IF Verified(Sending) THEN "export" ELSE "aborted"
        BY <1>4 DEF CopyRest
    <2>2. Intact'
        BY <1>0, <1>1, <2>1 DEF Intact, ItemIntact
    <2>3. ASSUME "rewrite" \notin during \cup later PROVE Verified(Sending)
        <3>1. \E i \in DOMAIN plan : Sending = plan[i]
            BY <1>0, <2>1, SendingIs DEF Streamed, Sending
        <3>2. ItemIntact(Sending) /\ cur.first = inode[Sending.ino].ver
            BY <1>0, <2>1, <2>3, <3>1 DEF Intact
        <3>3. Sending.len \in Nat /\ inode[Sending.ino].len \in Nat
            <4>1. Sending.ino \in Inode /\ Sending.len \in 1..MaxLen
                BY <1>0, <2>1, SendingIs DEF Streamed
            <4> QED
                BY <1>0, <4>1, Bounds DEF IInv, TypeOK, File
        <3>4. Rest(Sending.len, inode[Sending.ino]) = inode[Sending.ino].ver
            BY <3>2 DEF Rest
        <3> QED
            BY <3>2, <3>3, <3>4 DEF ItemIntact, Verified
    <2>4. RefusalJustified'
        BY <1>1, <2>1, <2>3 DEF RefusalJustified
    <2> QED
        BY <1>2, <2>2, <2>4
<1>5. CASE Complete
    <2>1. pc' = "completed"
        BY <1>5 DEF Complete, Fail, Goto
    <2> QED
        BY <1>0, <1>1, <1>2, <2>1 DEF Intact, ItemIntact, RefusalJustified
<1> QED
    BY <1>3, <1>4, <1>5

\* The exporter may be started on any of the homes of Init.
LEMMA InitRInv ==
    ASSUME Init
    PROVE  RInv
<1>1. PICK m \in {0, MaxLen - 1}, b \in {1, MaxLen - 1} :
        /\ inode = [i \in Inode |->
              CASE i = 1 -> [len |-> MaxLen - 1, ver |-> 1, tail |-> TRUE]
                [] i = 2 -> [len |-> m, ver |-> 1, tail |-> m = 0]
                [] i = 3 -> [len |-> b, ver |-> 1, tail |-> FALSE]
                [] i = 4 -> [len |-> 1, ver |-> 1, tail |-> FALSE]
                [] OTHER -> NoFile]
        /\ base = [r \in Rollout |->
              IF r = 2 THEN [r |-> 1, len |-> b] ELSE NoBase]
    BY DEF Init
<1>2. PICK parent \in {{1}, {3}, {1, 3}}, copy \in BOOLEAN :
        dir = [p \in Path |->
              CASE p = Plain("sessions", 1) /\ 1 \in parent -> 1
                [] p = Plain("prerequisite", 1) /\ 3 \in parent -> 3
                [] p = Plain("sessions", 2) -> 2
                [] p = Plain("prerequisite", 2) /\ copy -> 4
                [] OTHER -> 0]
    BY DEF Init
<1>3. /\ sel \in {NoSelection, [r |-> 2, area |-> "sessions"]}
      /\ pc = "idle" /\ plan = <<>>
    BY DEF Init
<1>4. FInv
    BY InitFInv
<1>5. {Plain("sessions", 1), Plain("prerequisite", 1), Plain("sessions", 2)} \subseteq Path
    BY DEF Plain, Path, Area, Rollout
\* Every file has a plain name, and each conversation one in sessions.
<1>6. ASSUME NEW p \in Path, dir[p] # 0
      PROVE  /\ p.zst = FALSE
             /\ p.area # "prerequisite" => \/ p = Plain("sessions", 1) /\ dir[p] = 1
                                           \/ p = Plain("sessions", 2) /\ dir[p] = 2
    BY <1>2, <1>6 DEF Plain
<1>7. dir[Plain("sessions", 2)] = 2
    BY <1>2, <1>5 DEF Plain
<1>8. dir[Plain("sessions", 1)] = 1 \/ dir[Plain("prerequisite", 1)] = 3
    BY <1>2, <1>5 DEF Plain
<1>9. OneFile
    <2>1. Plain("sessions", 1).area = "sessions" /\ Plain("sessions", 2).area = "sessions"
        BY DEF Plain
    <2>2. \A p \in Path : dir[p] # 0 => p.zst = FALSE
        BY <1>6
    <2>3. \A p \in Path : dir[p] # 0 /\ p.area # "prerequisite" => p.area = "sessions"
        BY <1>6, <2>1
    <2>4. ASSUME NEW p \in Path, NEW q \in Path, p.area # "prerequisite",
                 q.area # "prerequisite", dir[p] # 0, dir[q] # 0
          PROVE  p.area = q.area /\ p.zst = q.zst
        BY <2>2, <2>3, <2>4
    <2>5. \A p \in Path : p.zst => dir[p] = 0
        BY <2>2
    <2> QED
        BY <2>4, <2>5 DEF OneFile
<1>10. Representation
    BY <1>6 DEF Representation
<1>11. Live(0) = {} /\ Live(3) = {} /\ Plain("sessions", 2) \in Live(2)
       /\ \A p \in Live(1) : dir[p] = 1
    <2>1. Plain("sessions", 1).r = 1 /\ Plain("sessions", 2).r = 2
          /\ Plain("sessions", 2).area = "sessions"
        BY DEF Plain
    <2>2. \A p \in Path : dir[p] # 0 /\ p.area # "prerequisite" =>
              p.r \in {1, 2} /\ (p.r = 1 => dir[p] = 1)
        BY <1>6, <2>1
    <2>3. Live(0) = {} /\ Live(3) = {} /\ \A p \in Live(1) : dir[p] = 1
        BY <2>2 DEF Live
    <2>4. Plain("sessions", 2) \in Live(2)
        BY <1>5, <1>7, <2>1 DEF Live
    <2> QED
        BY <2>3, <2>4
<1>12. RowPlaced
    BY <1>3, <1>11 DEF RowPlaced, NoSelection, Plain
<1>13. Inherited
    <2>1. \E p \in Path : p.r = 1 /\ dir[p] # 0
        BY <1>5, <1>8 DEF Plain
    <2>2. inode[1].len = MaxLen - 1 /\ b <= MaxLen - 1
        BY <1>1, Bounds DEF Inode
    <2>3. /\ base[1] = NoBase /\ base[3] = NoBase
          /\ base[2].r = 1 /\ base[2].len = b
        BY <1>1 DEF Rollout
    <2>4. NoBase.r = 0 /\ \A r \in Rollout : r \in {1, 2, 3}
        BY DEF NoBase, Rollout
    <2>5. ASSUME NEW r \in Rollout, NEW p \in Live(base[r].r)
          PROVE  base[r].len <= inode[dir[p]].len
        <3>1. r = 2 /\ dir[p] = 1
            BY <1>11, <2>3, <2>4, <2>5
        <3> QED
            BY <2>2, <2>3, <3>1
    <2> QED
        BY <2>1, <2>5 DEF Inherited
<1>14. FirstVersions
    <2>1. \A i \in Inode : inode[i].ver \in {0, 1}
        BY <1>1 DEF NoFile
    <2> QED
        BY <2>1 DEF FirstVersions
<1>15. Codex
    BY <1>3, <1>9, <1>10, <1>12, <1>13, <1>14 DEF Codex, SavedNow
<1>16. Calm /\ Intact /\ RefusalJustified
    BY <1>3 DEF Calm, Undisturbed, Capturing, Intact, RefusalJustified
<1> QED
    BY <1>4, <1>15, <1>16 DEF RInv

\* No step refuses without a reason.
LEMMA NextRInv ==
    ASSUME RInv, [Next]_vars
    PROVE  RInv'
<1>0. FInv /\ Codex /\ Calm /\ Intact /\ RefusalJustified
    BY DEF RInv
<1>1. FInv'
    BY <1>0, NextFInv
<1>2. CASE Native /\ ~Ended /\ Recorded
    BY <1>2, NativeRInv
<1>3. CASE Exporter /\ ~Ended /\ Recorded
    <2>1. Codex'
        BY <1>1, <1>3, ExporterCodex
    <2>2. Calm' /\ Intact' /\ RefusalJustified'
        BY <1>3, ReadSelectionRefuses, ListArchivedRefuses, ListSessionsRefuses,
           OpenRefuses, ReadFirstRefuses, ReadRestRefuses, LineageRefuses,
           RecheckRefuses, CopyRefuses DEF Exporter
    <2> QED
        BY <1>1, <2>1, <2>2 DEF RInv
<1>4. CASE UNCHANGED vars
    <2>1. /\ UNCHANGED <<inode, dir, base, sel, owed, pc, selected, found, todo>>
          /\ UNCHANGED <<end, cur, plan, stream, saved, during, later>>
        BY <1>4 DEF vars, source, capture, history
    <2>2. Live(0)' = Live(0) /\ Live(2)' = Live(2) /\ Live(3)' = Live(3)
          /\ \A r \in Rollout : Live(base[r].r)' = Live(base[r].r) /\ Live(r)' = Live(r)
        BY <2>1 DEF Live
    <2>3. Conversation' = Conversation
        BY <2>1 DEF Conversation, Live
    <2>4. OneFile' /\ Representation' /\ FirstVersions' /\ SavedNow'
        BY <1>0, <2>1, <2>3 DEF Codex, OneFile, Representation, FirstVersions, SavedNow
    <2>5. RowPlaced'
        BY <1>0, <2>1 DEF Codex, RowPlaced, Live
    <2>6. Inherited'
        BY <1>0, <2>1 DEF Codex, Inherited, Live
    <2>7. Calm'
        <3>1. (Undisturbed <=> Undisturbed') /\ (ListedNow => ListedNow')
              /\ (ReadsNow => ReadsNow')
            BY <2>1 DEF Undisturbed, ListedNow, ReadsNow
        <3>2. (ReadsOne => ReadsOne') /\ (ReadsAncestor => ReadsAncestor')
            BY <2>1 DEF ReadsOne, ReadsAncestor, Ahead
        <3> QED
            BY <1>0, <3>1, <3>2 DEF Calm
    <2>8. Intact'
        BY <1>0, <2>1 DEF Intact, ReadIntact, ItemIntact, Sending
    <2>9. RefusalJustified'
        BY <1>0, <2>1 DEF RefusalJustified, NothingSaved, ShortCopy
    <2> QED
        BY <1>1, <2>4, <2>5, <2>6, <2>7, <2>8, <2>9 DEF RInv, Codex
<1> QED
    BY <1>2, <1>3, <1>4, StepKinds

\* While Codex only appends no copy is refused, unless nothing is saved yet or a
\* managed copy is shorter than what is inherited; and once the snapshot is
\* captured only a file rewritten in place aborts its export (the descriptors
\* that captureRollout keeps open, and the checks of copyPayload against them).
THEOREM RefusalsJustified == Spec => []RefusalJustified
<1>1. Init => RInv
    BY InitRInv
<1>2. RInv /\ [Next]_vars => RInv'
    BY NextRInv
<1>3. RInv => RefusalJustified
    BY DEF RInv
<1> QED
    BY <1>1, <1>2, <1>3, PTL DEF Spec

=============================================================================
