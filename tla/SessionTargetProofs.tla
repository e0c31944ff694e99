------------------------- MODULE SessionTargetProofs -------------------------
(***************************************************************************)
(* The storage of a helper, for every set of mounts and any configuration.  *)
(***************************************************************************)
EXTENDS SessionTarget, SequenceTheorems, WellFoundedInduction, FiniteSetTheorems,
        TLAPS

-----------------------------------------------------------------------------
(* Paths.                                                                  *)

\* A path lies below another one when it agrees with it as far as that goes.
LEMMA ContainsByNames ==
    ASSUME NEW p \in Path, NEW q \in Path
    PROVE  Contains(p, q) <=> /\ Len(p) <= Len(q)
                              /\ \A i \in 1..Len(p) : q[i] = p[i]
<1> USE DEF Path
<1>1. Len(p) \in Nat /\ Len(q) \in Nat
  BY LenProperties
<1> SUFFICES ASSUME Len(p) <= Len(q)
             PROVE  SubSeq(q, 1, Len(p)) = p <=> \A i \in 1..Len(p) : q[i] = p[i]
  BY DEF Contains
<1>2. \A i \in 1..Len(p) : q[i] \in STRING
  BY <1>1, LenProperties, ElementOfSeq
<1>3. /\ SubSeq(q, 1, Len(p)) \in Seq(STRING)
      /\ Len(SubSeq(q, 1, Len(p))) = Len(p)
      /\ \A i \in 1..Len(p) : SubSeq(q, 1, Len(p))[i] = q[i]
  BY <1>1, <1>2, SubSeqProperties
<1> QED
  BY <1>1, <1>3, SeqEqual

\* Of two paths that both lead to a third, the shorter leads to the longer, and
\* two of one length are the same.
LEMMA Prefixes ==
    ASSUME NEW p \in Path, NEW q \in Path, NEW r \in Path,
           Contains(p, r), Contains(q, r)
    PROVE  /\ Len(p) <= Len(q) => Contains(p, q)
           /\ Len(p) = Len(q) => p = q
<1>1. Len(p) \in Nat /\ Len(q) \in Nat /\ Len(r) \in Nat
  BY LenProperties DEF Path
<1>2. Len(p) <= Len(q) => \A i \in 1..Len(p) : q[i] = p[i]
  BY <1>1, ContainsByNames
<1>3. Len(p) <= Len(q) => Contains(p, q)
  BY <1>2, ContainsByNames
<1>4. Len(p) = Len(q) => p = q
  BY <1>1, <1>2, SeqEqual DEF Path
<1> QED
  BY <1>3, <1>4

\* Containment of paths is a partial order.
LEMMA ContainsOrder ==
    ASSUME NEW p \in Path, NEW q \in Path, NEW r \in Path
    PROVE  /\ Contains(p, p)
           /\ Contains(p, q) /\ Contains(q, r) => Contains(p, r)
           /\ Contains(p, q) /\ Contains(q, p) => p = q
           /\ Contains(p, q) => Len(p) <= Len(q)
<1>1. Len(p) \in Nat /\ Len(q) \in Nat /\ Len(r) \in Nat
  BY LenProperties DEF Path
<1>2. Contains(p, p)
  BY <1>1, ContainsByNames
<1>3. ASSUME Contains(p, q), Contains(q, r) PROVE Contains(p, r)
  BY <1>1, <1>3, ContainsByNames
<1>4. ASSUME Contains(p, q), Contains(q, p) PROVE p = q
  BY <1>1, <1>2, <1>4, ContainsByNames, Prefixes
<1> QED
  BY <1>2, <1>3, <1>4, ContainsByNames

\* The rest of a path is a path, and leads where the path leads.
LEMMA RelativePath ==
    ASSUME NEW p \in Path, NEW q \in Path, Contains(p, q)
    PROVE  /\ Relative(p, q) \in Path
           /\ Len(Relative(p, q)) = Len(q) - Len(p)
           /\ \A i \in 1..(Len(q) - Len(p)) : Relative(p, q)[i] = q[Len(p) + i]
<1>1. Len(p) \in Nat /\ Len(q) \in Nat /\ Len(p) <= Len(q)
  BY LenProperties, ContainsByNames DEF Path
<1>2. \A i \in (Len(p) + 1)..Len(q) : q[i] \in STRING
  BY <1>1, ElementOfSeq DEF Path
<1> DEFINE s == SubSeq(q, Len(p) + 1, Len(q))
<1>3. /\ s \in Seq(STRING)
      /\ Len(s) = IF Len(p) + 1 <= Len(q) THEN Len(q) - (Len(p) + 1) + 1 ELSE 0
      /\ \A i \in 1..(Len(q) - (Len(p) + 1) + 1) : s[i] = q[Len(p) + 1 + i - 1]
  BY <1>1, <1>2, SubSeqProperties
<1> QED
  BY <1>1, <1>3 DEF Relative, Path

\* A path continued by another one.
Join(p, q) == p \o q

\* Going down in two steps leads where one step leads.
LEMMA RelativeComposes ==
    ASSUME NEW a \in Path, NEW p \in Path, NEW q \in Path, NEW r \in Path,
           Contains(p, q), Contains(q, r)
    PROVE  Join(Join(a, Relative(p, q)), Relative(q, r)) = Join(a, Relative(p, r))
<1>1. Contains(p, r)
  BY ContainsOrder
<1>2. Len(p) \in Nat /\ Len(q) \in Nat /\ Len(r) \in Nat
  BY LenProperties DEF Path
<1>3. Len(p) <= Len(q) /\ Len(q) <= Len(r)
  BY ContainsByNames
<1> DEFINE u == Relative(p, q)
           v == Relative(q, r)
           w == Relative(p, r)
<1>4. u \in Path /\ v \in Path /\ w \in Path
  BY <1>1, RelativePath
<1>5. Len(u) = Len(q) - Len(p) /\ Len(v) = Len(r) - Len(q) /\ Len(w) = Len(r) - Len(p)
  BY <1>1, RelativePath
<1>6. /\ u \o v \in Path /\ Len(u \o v) = Len(u) + Len(v)
      /\ \A i \in 1..(Len(u) + Len(v)) :
            (u \o v)[i] = IF i <= Len(u) THEN u[i] ELSE v[i - Len(u)]
  BY <1>4, ConcatProperties DEF Path
<1>7. \A i \in 1..Len(w) : (u \o v)[i] = w[i]
  <2> SUFFICES ASSUME NEW i \in 1..Len(w) PROVE (u \o v)[i] = w[i]
    OBVIOUS
  <2>1. w[i] = r[Len(p) + i]
    BY <1>1, <1>2, <1>5, RelativePath
  <2>2. CASE i <= Len(u)
    <3>1. (u \o v)[i] = q[Len(p) + i]
      <4>1. i \in 1..(Len(u) + Len(v)) /\ i \in 1..(Len(q) - Len(p))
        BY <1>2, <1>3, <1>5, <2>2
      <4>2. (u \o v)[i] = u[i]
        BY <1>6, <2>2, <4>1
      <4> QED
        BY <4>1, <4>2, RelativePath
    <3>2. q[Len(p) + i] = r[Len(p) + i]
      BY <1>2, <1>3, <1>5, <2>2, ContainsByNames
    <3> QED
      BY <2>1, <3>1, <3>2
  <2>3. CASE i > Len(u)
    <3>1. i - Len(u) \in 1..(Len(r) - Len(q))
      BY <1>2, <1>3, <1>5, <2>3
    <3>2. v[i - Len(u)] = r[Len(q) + (i - Len(u))]
      BY <3>1, RelativePath
    <3>3. Len(q) + (i - Len(u)) = Len(p) + i
      BY <1>2, <1>5
    <3>4. i \in 1..(Len(u) + Len(v)) /\ ~(i <= Len(u))
      BY <1>2, <1>3, <1>5, <2>3
    <3>5. (u \o v)[i] = v[i - Len(u)]
      BY <1>6, <3>4
    <3> QED
      BY <2>1, <3>2, <3>3, <3>5
  <2> QED
    BY <1>2, <1>5, <2>2, <2>3
<1> HIDE DEF u, v, w
<1>8. u \o v = w
  <2>1. Len(u \o v) = Len(w)
    BY <1>2, <1>5, <1>6
  <2> QED
    BY <1>4, <1>6, <1>7, <2>1, SeqEqual DEF Path
<1>9. ASSUME NEW x \in Path, NEW y \in Path PROVE (a \o x) \o y = a \o (x \o y)
  BY SMTT(30), ConcatAssociative DEF Path
<1>10. (a \o u) \o v = a \o w
  BY <1>4, <1>8, <1>9
<1> QED
  BY <1>10 DEF u, v, w, Join

-----------------------------------------------------------------------------
(* Mounts.                                                                 *)

\* Where mounts cover a path, one of them is the longest.
LEMMA BaseMountExists ==
    ASSUME NEW ms, \A m \in ms : m.dst \in Path,
           NEW p \in Path, Covering(ms, p) # {}
    PROVE  /\ BaseMount(ms, p) \in Covering(ms, p)
           /\ \A o \in Covering(ms, p) : Len(o.dst) <= Len(BaseMount(ms, p).dst)
<1>1. \A m \in Covering(ms, p) : Len(m.dst) \in Nat /\ Len(m.dst) <= Len(p)
  BY LenProperties, ContainsByNames DEF Covering, Path
<1>2. Len(p) \in Nat
  BY LenProperties DEF Path
<1> DEFINE T == {Len(p) - Len(m.dst) : m \in Covering(ms, p)}
<1>3. T \subseteq Nat /\ T # {}
  BY <1>1, <1>2
<1>4. \E x \in T : \A y \in T : ~(<<y, x>> \in OpToRel(<, Nat))
  BY <1>3, NatLessThanWellFounded, WFMin
<1>5. PICK x \in T : \A y \in T : ~(y < x)
  BY <1>3, <1>4 DEF OpToRel
<1>6. PICK m \in Covering(ms, p) : x = Len(p) - Len(m.dst)
  OBVIOUS
<1>7. \A o \in Covering(ms, p) : Len(o.dst) <= Len(m.dst)
  <2> SUFFICES ASSUME NEW o \in Covering(ms, p) PROVE Len(o.dst) <= Len(m.dst)
    OBVIOUS
  <2>1. ~(Len(p) - Len(o.dst) < Len(p) - Len(m.dst))
    BY <1>5, <1>6
  <2> QED
    BY <1>1, <1>2, <2>1
<1> QED
  BY <1>7 DEF BaseMount

\* A mount longer than every other one that covers the path is its base.
LEMMA BaseMountIs ==
    ASSUME NEW ms, \A m \in ms : m.dst \in Path,
           NEW p \in Path, NEW b \in Covering(ms, p),
           \A o \in Covering(ms, p) : o # b => Len(o.dst) < Len(b.dst)
    PROVE  BaseMount(ms, p) = b
<1>1. /\ BaseMount(ms, p) \in Covering(ms, p)
      /\ Len(b.dst) <= Len(BaseMount(ms, p).dst)
  BY BaseMountExists
<1>2. Len(b.dst) \in Nat /\ Len(BaseMount(ms, p).dst) \in Nat
  BY <1>1, LenProperties DEF Covering, Path
<1> QED
  BY <1>1, <1>2

\* The base of a path is the only mount that long.
LEMMA BaseMountUnique ==
    ASSUME NEW ms, Mounted(ms), NEW p \in Path, Covering(ms, p) # {}
    PROVE  /\ BaseMount(ms, p) \in Covering(ms, p)
           /\ \A o \in Covering(ms, p) :
                o # BaseMount(ms, p) => Len(o.dst) < Len(BaseMount(ms, p).dst)
<1>1. \A m \in ms : m.dst \in Path
  BY DEF Mounted, MountRecord
<1> DEFINE b == BaseMount(ms, p)
<1>2. b \in Covering(ms, p) /\ \A o \in Covering(ms, p) : Len(o.dst) <= Len(b.dst)
  BY <1>1, BaseMountExists
<1> HIDE DEF b
<1>3. ASSUME NEW o \in Covering(ms, p), Len(o.dst) = Len(b.dst) PROVE o = b
  BY <1>1, <1>2, <1>3, Prefixes DEF Covering, Mounted
<1>4. \A o \in Covering(ms, p) : Len(o.dst) \in Nat
  BY <1>1, LenProperties DEF Covering, Path
<1>5. \A o \in Covering(ms, p) : o # b => Len(o.dst) < Len(b.dst)
  BY <1>2, <1>3, <1>4
<1> QED
  BY <1>2, <1>5 DEF b

\* The base of a path below a directory is the directory's own, or lies below
\* the directory as well.
LEMMA BaseMountBelow ==
    ASSUME NEW ms, Mounted(ms), NEW h \in Path, NEW p \in Path,
           Covering(ms, h) # {}, Contains(h, p)
    PROVE  /\ Covering(ms, h) \subseteq Covering(ms, p)
           /\ BaseMount(ms, p) \in Covering(ms, p)
           /\ \/ BaseMount(ms, p) = BaseMount(ms, h)
              \/ /\ Contains(h, BaseMount(ms, p).dst)
                 /\ Len(h) < Len(BaseMount(ms, p).dst)
<1>1. \A m \in ms : m.dst \in Path /\ Len(m.dst) \in Nat
  BY LenProperties DEF Mounted, MountRecord, Path
<1>2. Covering(ms, h) \subseteq Covering(ms, p)
  BY <1>1, ContainsOrder DEF Covering
<1> DEFINE b == BaseMount(ms, p)
           a == BaseMount(ms, h)
<1>3. b \in Covering(ms, p) /\ \A o \in Covering(ms, p) : o # b => Len(o.dst) < Len(b.dst)
  BY <1>2, BaseMountUnique
<1>4. a \in Covering(ms, h) /\ \A o \in Covering(ms, h) : o # a => Len(o.dst) < Len(a.dst)
  BY BaseMountUnique
<1> HIDE DEF a, b
<1>5. Len(h) \in Nat /\ b.dst \in Path /\ Contains(b.dst, p) /\ Len(b.dst) \in Nat
  BY <1>1, <1>3, LenProperties DEF Covering, Path
<1>6. CASE Len(b.dst) <= Len(h)
  <2>1. b \in Covering(ms, h)
    BY <1>3, <1>5, <1>6, Prefixes DEF Covering
  <2>2. a \in ms /\ b \in ms
    BY <1>3, <1>4 DEF Covering
  <2>3. a = b
    BY <1>1, <1>2, <1>3, <1>4, <2>1, <2>2
  <2> QED
    BY <1>2, <1>3, <2>3 DEF a, b
<1>7. CASE Len(h) < Len(b.dst)
  <2>1. Contains(h, b.dst)
    BY <1>5, <1>7, Prefixes
  <2> QED
    BY <1>2, <1>3, <1>7, <2>1 DEF b
<1> QED
  BY <1>5, <1>6, <1>7

-----------------------------------------------------------------------------
(* The target that is selected from an accepted workstation.                *)

\* A workstation, the SQLite home and the access for which inspectTarget gives a
\* target.
Selectable(c, sqlite, writable) ==
    /\ Mounted(c.mounts)
    /\ c.imageVolumes \subseteq {m.dst : m \in c.mounts}
    /\ sqlite \in Path
    /\ writable \in BOOLEAN
    /\ Accepted(c, sqlite, writable)

\* The Codex home is a path.
LEMMA CodexHomePath == CodexHome \in Path
BY TargetAssumption DEF CodexHome, End

\* A narrowed mount keeps its kind, and its storage.
LEMMA NarrowedIs ==
    ASSUME NEW m \in MountRecord, NEW sqlite \in Path, NEW writable \in BOOLEAN
    PROVE  LET n == Narrowed(m, sqlite, writable) IN
           /\ n \in MountRecord
           /\ n.kind = m.kind
           /\ n.rw = (m.rw /\ writable)
           /\ Narrows(m, sqlite) =>
                n.dst = sqlite /\ n.root = Join(m.root, Relative(m.dst, sqlite))
           /\ ~Narrows(m, sqlite) => n.dst = m.dst /\ n.root = m.root
<1> DEFINE n == Narrowed(m, sqlite, writable)
<1>1. CASE Narrows(m, sqlite)
  <2>1. Relative(m.dst, sqlite) \in Path
    BY <1>1, RelativePath DEF MountRecord, Narrows
  <2>2. m.root \o Relative(m.dst, sqlite) \in Path
    BY <2>1, ConcatProperties DEF MountRecord, Path
  <2>3. n = [m EXCEPT !.dst = sqlite, !.root = @ \o Relative(m.dst, sqlite),
                      !.rw = m.rw /\ writable]
    BY <1>1 DEF Narrowed
  <2> QED
    BY <1>1, <2>2, <2>3 DEF MountRecord, Join
<1>2. CASE ~Narrows(m, sqlite)
  BY <1>2 DEF Narrowed, MountRecord
<1> QED
  BY <1>1, <1>2

\* A narrowed mount is at the SQLite home.
LEMMA NarrowedAt ==
    ASSUME NEW m \in MountRecord, NEW sqlite, NEW writable
    PROVE  Narrowed(m, sqlite, writable).dst =
                IF Narrows(m, sqlite) THEN sqlite ELSE m.dst
<1>1. CASE Narrows(m, sqlite)
  BY <1>1 DEF Narrowed, MountRecord
<1>2. CASE ~Narrows(m, sqlite)
  BY <1>2 DEF Narrowed, MountRecord
<1> QED
  BY <1>1, <1>2

\* What there is in a target: mounts of the workstation, one of which may be
\* narrowed, and that one is the base of the SQLite home.
LEMMA TargetMounts ==
    ASSUME NEW c, NEW sqlite, NEW writable, Selectable(c, sqlite, writable)
    PROVE  /\ Covering(c.mounts, CodexHome) # {} /\ Covering(c.mounts, sqlite) # {}
           /\ History(c) \subseteq c.mounts
           /\ Separate(c, sqlite) \subseteq c.mounts
           /\ \A m \in Separate(c, sqlite) : m \notin History(c)
           /\ \A m \in Separate(c, sqlite) :
                Narrows(m, sqlite) => m = BaseMount(c.mounts, sqlite)
<1> DEFINE ms == c.mounts
<1>1. Covering(ms, CodexHome) # {} /\ Covering(ms, sqlite) # {}
  BY DEF Selectable, Accepted, StorageUsable
<1>2. BaseMount(ms, CodexHome) \in ms /\ BaseMount(ms, sqlite) \in ms
  BY <1>1, CodexHomePath, BaseMountUnique DEF Selectable, Covering
<1>3. History(c) \subseteq ms /\ Separate(c, sqlite) \subseteq ms
  BY <1>2 DEF History, Separate, StorageMounts
<1>4. \A m \in Separate(c, sqlite) : m \notin History(c)
  BY DEF Separate
<1>5. ASSUME NEW m \in Separate(c, sqlite), Narrows(m, sqlite)
      PROVE  m = BaseMount(ms, sqlite)
  <2>1. m.dst \in Path /\ sqlite \in Path
    BY <1>3 DEF Selectable, Mounted, MountRecord
  <2>2. ~Contains(sqlite, m.dst)
    BY <1>5, <2>1, ContainsOrder DEF Narrows
  <2> QED
    BY <2>2 DEF Separate, StorageMounts
<1> QED
  BY <1>1, <1>3, <1>4, <1>5

\* A path of the Codex home, or of the databases.
Worked(p, sqlite) ==
    Contains(CodexHome, p) \/ p = sqlite \/ DirectDatabase(p, sqlite)

\* The base of such a path is among the mounts that are selected.
LEMMA BaseMountSelected ==
    ASSUME NEW c, NEW sqlite, NEW writable, Selectable(c, sqlite, writable),
           NEW p \in Path, Worked(p, sqlite)
    PROVE  /\ BaseMount(c.mounts, p) \in Covering(c.mounts, p)
           /\ \/ BaseMount(c.mounts, p) \in History(c)
              \/ /\ BaseMount(c.mounts, p) \in Separate(c, sqlite)
                 /\ Contains(sqlite, p)
<1> DEFINE ms == c.mounts
           b == BaseMount(ms, p)
<1>1. Mounted(ms) /\ sqlite \in Path /\ CodexHome \in Path
  BY CodexHomePath DEF Selectable
<1>2. Covering(ms, CodexHome) # {} /\ Covering(ms, sqlite) # {}
  BY TargetMounts
<1>3. CASE Contains(CodexHome, p)
  <2>1. /\ b \in Covering(ms, p)
        /\ b = BaseMount(ms, CodexHome) \/ Contains(CodexHome, b.dst)
    BY <1>1, <1>2, <1>3, BaseMountBelow
  <2>2. b \in ms
    BY <2>1 DEF Covering
  <2>3. b \in History(c)
    BY <2>1, <2>2 DEF History, StorageMounts
  <2> QED
    BY <2>1, <2>3
<1>4. CASE p = sqlite \/ DirectDatabase(p, sqlite)
  <2>1. Contains(sqlite, p)
    BY <1>1, <1>4, ContainsOrder DEF DirectDatabase
  <2>2. /\ b \in Covering(ms, p)
        /\ \/ b = BaseMount(ms, sqlite)
           \/ Contains(sqlite, b.dst) /\ Len(sqlite) < Len(b.dst)
    BY <1>1, <1>2, <2>1, BaseMountBelow
  <2>3. b \in ms /\ b.dst \in Path /\ Contains(b.dst, p)
    BY <1>1, <2>2 DEF Covering, Mounted, MountRecord
  <2> HIDE DEF b
  <2>4. b \in StorageMounts(ms, sqlite, FALSE)
    <3>1. CASE b = BaseMount(ms, sqlite)
      BY <3>1 DEF StorageMounts
    <3>2. CASE Contains(sqlite, b.dst) /\ Len(sqlite) < Len(b.dst)
      <4>1. /\ Len(b.dst) \in Nat /\ Len(sqlite) \in Nat /\ Len(p) \in Nat
            /\ Len(b.dst) <= Len(p)
        BY <1>1, <2>3, LenProperties, ContainsOrder DEF Path
      <4>2. DirectDatabase(p, sqlite) /\ Len(b.dst) = Len(p)
        BY <1>4, <3>2, <4>1 DEF DirectDatabase
      <4>3. b.dst = p
        BY <2>3, <4>2, Prefixes, ContainsOrder
      <4> QED
        BY <2>3, <3>2, <4>2, <4>3 DEF StorageMounts
    <3> QED
      BY <2>2, <3>1, <3>2
  <2>5. b \in History(c) \/ b \in Separate(c, sqlite)
    <3>1. ASSUME NEW h \in History(c), h.dst = b.dst PROVE h = b
      BY <1>1, <2>3, <3>1, TargetMounts DEF Mounted
    <3> QED
      BY <2>4, <3>1 DEF Separate
  <2> QED
    BY <2>1, <2>2, <2>5 DEF b
<1> QED
  BY <1>3, <1>4 DEF Worked

\* Mounts that a helper may have besides its target: each in the place of a
\* mount of the workstation that the target leaves out.
Extra(xs, c, t) ==
    \A x \in xs : /\ \E m \in c.mounts : m.dst = x.dst
                  /\ \A o \in t.mounts : o.dst # x.dst

\* At a path that the helper works on, the mount that it sees is the one that
\* the workstation sees, as it is or narrowed.
LEMMA SameBaseMount ==
    ASSUME NEW c, NEW sqlite, NEW writable, Selectable(c, sqlite, writable),
           NEW p \in Path, Worked(p, sqlite),
           NEW xs, Extra(xs, c, Target(c, sqlite, writable))
    PROVE  LET ms == c.mounts
               b == BaseMount(ms, p)
               view == Target(c, sqlite, writable).mounts \cup xs
           IN  /\ b \in Covering(ms, p)
               /\ BaseMount(view, p) \in Covering(view, p)
               /\ \/ BaseMount(view, p) = b
                  \/ /\ BaseMount(view, p) = Narrowed(b, sqlite, writable)
                     /\ b \in Separate(c, sqlite) /\ Contains(sqlite, p)
<1> DEFINE ms == c.mounts
           b == BaseMount(ms, p)
           s == BaseMount(ms, sqlite)
           T == Target(c, sqlite, writable).mounts
           view == T \cup xs
<1>1. Mounted(ms) /\ sqlite \in Path /\ writable \in BOOLEAN
  BY DEF Selectable
<1>2. \A m \in ms : m \in MountRecord /\ m.dst \in Path /\ Len(m.dst) \in Nat
  BY <1>1, LenProperties DEF Mounted, MountRecord, Path
<1>3. Len(sqlite) \in Nat
  BY <1>1, LenProperties DEF Path
<1>4. /\ b \in Covering(ms, p)
      /\ b \in History(c) \/ (b \in Separate(c, sqlite) /\ Contains(sqlite, p))
  BY BaseMountSelected
<1>5. \A o \in Covering(ms, p) : o # b => Len(o.dst) < Len(b.dst)
  BY <1>1, <1>4, BaseMountUnique
<1>6. /\ s \in Covering(ms, sqlite)
      /\ \A o \in Covering(ms, sqlite) : o # s => Len(o.dst) < Len(s.dst)
  BY <1>1, TargetMounts, BaseMountUnique
<1>7. T = History(c) \cup {Narrowed(m, sqlite, writable) : m \in Separate(c, sqlite)}
  BY DEF Target
<1>8. History(c) \subseteq ms /\ Separate(c, sqlite) \subseteq ms
  BY TargetMounts
<1>9. b \in ms /\ Contains(b.dst, p)
  BY <1>4 DEF Covering
<1> HIDE DEF b, s, T
<1>10. \A v \in view : v.dst \in Path
  <2>1. \A m \in Separate(c, sqlite) : Narrowed(m, sqlite, writable).dst \in Path
    <3> SUFFICES ASSUME NEW m \in Separate(c, sqlite)
                 PROVE  Narrowed(m, sqlite, writable).dst \in Path
      OBVIOUS
    <3>1. Narrowed(m, sqlite, writable) \in MountRecord
      BY <1>1, <1>2, <1>8, NarrowedIs
    <3> QED
      BY <3>1 DEF MountRecord
  <2>2. \A x \in xs : x.dst \in Path
    BY <1>2 DEF Extra
  <2> QED
    BY <1>2, <1>7, <1>8, <2>1, <2>2
\* A narrowed base of the SQLite home is shorter than a base below that home.
<1>11. ASSUME s # b, Contains(sqlite, p) PROVE Len(sqlite) < Len(b.dst)
  <2>1. s \in Covering(ms, p) /\ s \in ms
    BY <1>1, <1>2, <1>6, <1>11, ContainsOrder DEF Covering
  <2>2. Len(s.dst) < Len(b.dst)
    BY <1>5, <1>11, <2>1
  <2>3. ASSUME Len(b.dst) <= Len(sqlite) PROVE FALSE
    <3>1. b \in Covering(ms, sqlite)
      BY <1>1, <1>2, <1>9, <1>11, <2>3, Prefixes DEF Covering
    <3> QED
      BY <1>2, <1>6, <1>9, <1>11, <2>1, <2>2, <3>1
  <2> QED
    BY <1>2, <1>3, <1>9, <2>3
\* What covers p in the view.
<1>12. ASSUME NEW o \in Covering(view, p)
       PROVE  \/ o \in History(c) /\ o \in Covering(ms, p)
              \/ \E m \in Separate(c, sqlite) :
                    /\ o = Narrowed(m, sqlite, writable)
                    /\ ~Narrows(m, sqlite) /\ m \in Covering(ms, p) /\ o.dst = m.dst
              \/ /\ s \in Separate(c, sqlite) /\ Narrows(s, sqlite)
                 /\ o = Narrowed(s, sqlite, writable)
                 /\ o.dst = sqlite /\ Contains(sqlite, p)
              \/ \E m \in Covering(ms, p) :
                    m.dst = o.dst /\ \A t \in T : t.dst # o.dst
  <2>1. Contains(o.dst, p)
    BY DEF Covering
  <2>2. CASE o \in History(c)
    BY <1>8, <2>1, <2>2 DEF Covering
  <2>3. ASSUME NEW m \in Separate(c, sqlite), o = Narrowed(m, sqlite, writable),
               ~Narrows(m, sqlite)
        PROVE  m \in Covering(ms, p) /\ o.dst = m.dst
    BY <1>1, <1>2, <1>8, <2>1, <2>3, NarrowedIs DEF Covering
  <2>4. ASSUME NEW m \in Separate(c, sqlite), o = Narrowed(m, sqlite, writable),
               Narrows(m, sqlite)
        PROVE  m = s /\ o.dst = sqlite /\ Contains(sqlite, p)
    <3>1. m = s
      BY <2>4, TargetMounts DEF s
    <3>2. o.dst = sqlite
      BY <1>2, <1>8, <2>4, NarrowedAt
    <3> QED
      BY <2>1, <3>1, <3>2
  <2>5. CASE o \in xs
    BY <2>1, <2>5 DEF Extra, Covering, T
  <2> QED
    BY <1>7, <2>2, <2>3, <2>4, <2>5 DEF Covering
<1>13. CASE b \in History(c)
  <2>1. b \in Covering(view, p) /\ b \in T
    BY <1>7, <1>9, <1>13 DEF Covering
  <2>2. ASSUME NEW o \in Covering(view, p), o # b PROVE Len(o.dst) < Len(b.dst)
    <3>1. CASE o \in History(c) /\ o \in Covering(ms, p)
      BY <1>5, <2>2, <3>1
    <3>2. ASSUME NEW m \in Separate(c, sqlite), m \in Covering(ms, p), o.dst = m.dst
          PROVE  Len(o.dst) < Len(b.dst)
      BY <1>5, <1>13, <3>2, TargetMounts
    <3>3. CASE s \in Separate(c, sqlite) /\ o.dst = sqlite /\ Contains(sqlite, p)
      <4>1. s # b
        BY <1>13, <3>3, TargetMounts
      <4> QED
        BY <1>11, <3>3, <4>1
    <3>4. ASSUME NEW m \in Covering(ms, p), m.dst = o.dst, \A t \in T : t.dst # o.dst
          PROVE  Len(o.dst) < Len(b.dst)
      BY <1>5, <2>1, <3>4
    <3> QED
      BY <1>12, <2>2, <3>1, <3>2, <3>3, <3>4
  <2>3. BaseMount(view, p) = b
    BY <1>10, <2>1, <2>2, BaseMountIs
  <2> QED
    BY <1>4, <2>1, <2>3 DEF b, T
<1>14. CASE b \notin History(c)
  <2> DEFINE n == Narrowed(b, sqlite, writable)
  <2>1. b \in Separate(c, sqlite) /\ Contains(sqlite, p) /\ b \in MountRecord
    BY <1>2, <1>4, <1>9, <1>14
  <2>2. n \in T
    BY <1>7, <2>1
  <2>3. CASE ~Narrows(b, sqlite)
    <3>1. n.dst = b.dst
      BY <1>1, <2>1, <2>3, NarrowedIs
    <3>2. n \in Covering(view, p)
      BY <1>9, <2>2, <3>1 DEF Covering
    <3>3. ASSUME NEW o \in Covering(view, p), o # n PROVE Len(o.dst) < Len(n.dst)
      <4>1. CASE o \in History(c) /\ o \in Covering(ms, p)
        BY <1>5, <1>14, <3>1, <4>1
      <4>2. ASSUME NEW m \in Separate(c, sqlite), o = Narrowed(m, sqlite, writable),
                   m \in Covering(ms, p), o.dst = m.dst
            PROVE  Len(o.dst) < Len(n.dst)
        BY <1>5, <3>1, <3>3, <4>2
      <4>3. CASE Narrows(s, sqlite) /\ o.dst = sqlite /\ Contains(sqlite, p)
        BY <1>11, <2>3, <3>1, <4>3
      <4>4. ASSUME NEW m \in Covering(ms, p), m.dst = o.dst,
                   \A t \in T : t.dst # o.dst
            PROVE  Len(o.dst) < Len(n.dst)
        BY <1>5, <2>2, <3>1, <4>4
      <4> QED
        BY <1>12, <3>3, <4>1, <4>2, <4>3, <4>4
    <3>4. BaseMount(view, p) = n
      BY <1>10, <3>2, <3>3, BaseMountIs
    <3> QED
      BY <1>4, <2>1, <3>2, <3>4 DEF b, T
  <2>4. CASE Narrows(b, sqlite)
    <3>1. n.dst = sqlite /\ b = s
      <4>1. b = s
        BY <2>1, <2>4, TargetMounts DEF s
      <4>2. n.dst = sqlite
        BY <2>1, <2>4, NarrowedAt
      <4> QED
        BY <4>1, <4>2
    <3>2. n \in Covering(view, p)
      BY <2>1, <2>2, <3>1 DEF Covering
    <3>3. Len(b.dst) < Len(sqlite)
      <4>1. Contains(b.dst, sqlite) /\ b.dst # sqlite
        BY <2>4 DEF Narrows
      <4>2. Len(b.dst) <= Len(sqlite) /\ Len(b.dst) # Len(sqlite)
        BY <1>1, <1>2, <1>9, <4>1, Prefixes, ContainsOrder
      <4> QED
        BY <1>2, <1>3, <1>9, <4>2
    <3>4. ASSUME NEW m \in Covering(ms, p) PROVE Len(m.dst) < Len(sqlite)
      <4>1. m \in ms
        BY DEF Covering
      <4> QED
        BY <1>2, <1>3, <1>5, <1>9, <3>3, <4>1
    <3>5. ASSUME NEW o \in Covering(view, p), o # n PROVE Len(o.dst) < Len(n.dst)
      BY <1>12, <3>1, <3>4, <3>5
    <3>6. BaseMount(view, p) = n
      BY <1>10, <3>2, <3>5, BaseMountIs
    <3> QED
      BY <1>4, <2>1, <3>2, <3>6 DEF b, T
  <2> QED
    BY <2>3, <2>4
<1> QED
  BY <1>13, <1>14

\* The tmpfs mounts over the volumes of the image that the target leaves out.
Blanks(c, t) ==
    {[dst |-> v, kind |-> "tmpfs", root |-> <<>>, rw |-> TRUE] : v \in Uncovered(c, t)}

\* At a path that it works on, a helper with the mounts of the target sees the
\* storage that the workstation sees.
LEMMA TargetStorage ==
    ASSUME NEW c, NEW sqlite, NEW writable, Selectable(c, sqlite, writable),
           NEW p \in Path, Worked(p, sqlite)
    PROVE  LET t == Target(c, sqlite, writable) IN
           Storage(t.mounts \cup Blanks(c, t), p) = Storage(c.mounts, p)
<1> DEFINE ms == c.mounts
           t == Target(c, sqlite, writable)
           xs == Blanks(c, t)
           view == t.mounts \cup xs
           b == BaseMount(ms, p)
           n == BaseMount(view, p)
<1>1. Mounted(ms) /\ sqlite \in Path /\ writable \in BOOLEAN
  BY DEF Selectable
<1>2. Extra(xs, c, t)
  BY DEF Extra, Blanks, Uncovered, Selectable
<1>3. /\ b \in Covering(ms, p)
      /\ n \in Covering(view, p)
      /\ \/ n = b
         \/ /\ n = Narrowed(b, sqlite, writable)
            /\ b \in Separate(c, sqlite) /\ Contains(sqlite, p)
  BY <1>2, SameBaseMount
<1>4. b \in MountRecord
  BY <1>1, <1>3 DEF Covering, Mounted
<1>5. Covering(ms, p) # {} /\ Covering(view, p) # {}
  BY <1>3
<1>6. CASE n = b
  BY <1>5, <1>6 DEF Storage
<1> HIDE DEF n, b
<1>7. CASE n = Narrowed(b, sqlite, writable) /\ ~Narrows(b, sqlite)
  <2>1. n.dst = b.dst /\ n.root = b.root /\ n.kind = b.kind
    BY <1>1, <1>4, <1>7, NarrowedIs
  <2> QED
    BY <1>5, <2>1 DEF Storage, n, b
<1>8. CASE /\ n = Narrowed(b, sqlite, writable) /\ Narrows(b, sqlite)
           /\ b \in Separate(c, sqlite) /\ Contains(sqlite, p)
  <2>1. /\ n.dst = sqlite /\ n.root = Join(b.root, Relative(b.dst, sqlite))
        /\ n.kind = b.kind
    BY <1>1, <1>4, <1>8, NarrowedIs
  <2>2. Join(n.root, Relative(n.dst, p)) = Join(b.root, Relative(b.dst, p))
    <3>1. b.root \in Path /\ b.dst \in Path /\ Contains(b.dst, sqlite)
      BY <1>4, <1>8 DEF MountRecord, Narrows
    <3>2. Join(Join(b.root, Relative(b.dst, sqlite)), Relative(sqlite, p))
            = Join(b.root, Relative(b.dst, p))
      BY <1>1, <1>8, <3>1, RelativeComposes
    <3> QED
      BY <2>1, <3>2
  <2>3. n.kind # "nonrecursive" /\ n.kind # "tmpfs"
    BY <1>4, <1>8, <2>1 DEF Selectable, Accepted, Narrowable, MountRecord, MountKind
  <2> QED
    BY <1>5, <2>1, <2>2, <2>3 DEF Storage, Join, n, b
<1> QED
  BY <1>3, <1>6, <1>7, <1>8

\* A helper writes nowhere that the workstation does not, an export writes to no
\* separate storage, and a target shows nothing else.
LEMMA TargetAccess ==
    ASSUME NEW c, NEW sqlite, NEW writable, Selectable(c, sqlite, writable),
           NEW p \in Path, Covering(Target(c, sqlite, writable).mounts, p) # {}
    PROVE  LET ms == Target(c, sqlite, writable).mounts IN
           /\ Worked(p, sqlite) /\ Writable(ms, p) => Writable(c.mounts, p)
           /\ ~Contains(BaseMount(c.mounts, CodexHome).dst, p) =>
                Contains(sqlite, p) /\ (~writable => ~Writable(ms, p))
<1> DEFINE T == Target(c, sqlite, writable).mounts
           n == BaseMount(T, p)
           h == BaseMount(c.mounts, CodexHome)
<1>1. Mounted(c.mounts) /\ sqlite \in Path /\ writable \in BOOLEAN
  BY DEF Selectable
<1>2. T = History(c) \cup {Narrowed(m, sqlite, writable) : m \in Separate(c, sqlite)}
  BY DEF Target
<1>3. History(c) \subseteq c.mounts /\ Separate(c, sqlite) \subseteq c.mounts
  BY TargetMounts
<1>4. \A m \in c.mounts : m \in MountRecord /\ m.dst \in Path
  BY <1>1 DEF Mounted, MountRecord
<1>5. ASSUME Worked(p, sqlite), Writable(T, p) PROVE Writable(c.mounts, p)
  <2> DEFINE b == BaseMount(c.mounts, p)
  <2>1. Extra({}, c, Target(c, sqlite, writable))
    BY DEF Extra
  <2>2. T \cup {} = T
    OBVIOUS
  <2>3. b \in Covering(c.mounts, p) /\ (n = b \/ n = Narrowed(b, sqlite, writable))
    BY <1>5, <2>1, <2>2, SameBaseMount
  <2>4. b \in MountRecord /\ n.rw
    BY <1>4, <1>5, <2>3 DEF Covering, Writable
  <2>5. n = Narrowed(b, sqlite, writable) => b.rw
    BY ZenonT(30), <1>1, <2>4, NarrowedIs
  <2> QED
    BY <2>3, <2>4, <2>5 DEF Writable
<1>6. ASSUME ~Contains(h.dst, p)
      PROVE  Contains(sqlite, p) /\ (~writable => ~Writable(T, p))
  <2>1. CodexHome \in Path /\ h \in Covering(c.mounts, CodexHome)
    BY <1>1, CodexHomePath, TargetMounts, BaseMountUnique
  <2>2. h \in c.mounts /\ Contains(h.dst, CodexHome)
    BY <2>1 DEF Covering
  <2>3. \A m \in History(c) : ~Contains(m.dst, p)
    BY <1>3, <1>4, <1>6, <2>1, <2>2, ContainsOrder DEF History, StorageMounts
  <2>4. ASSUME NEW o \in Covering(T, p)
        PROVE  \E m \in Separate(c, sqlite) : o = Narrowed(m, sqlite, writable)
    BY <1>2, <2>3 DEF Covering
  <2>5. PICK o \in Covering(T, p) : TRUE
    OBVIOUS
  <2>6. PICK m \in Separate(c, sqlite) : o = Narrowed(m, sqlite, writable)
    BY <2>4
  <2>7. Contains(sqlite, p)
    <3>1. Contains(o.dst, p) /\ m.dst \in Path
      BY <1>3, <1>4 DEF Covering
    <3>2. CASE Narrows(m, sqlite)
      BY <1>3, <1>4, <2>6, <3>1, <3>2, NarrowedAt
    <3>3. CASE ~Narrows(m, sqlite)
      <4>1. o.dst = m.dst
        BY <1>3, <1>4, <2>6, <3>3, NarrowedAt
      <4>2. m = BaseMount(c.mounts, sqlite) \/ Contains(sqlite, m.dst)
        BY DEF Separate, StorageMounts
      <4>3. BaseMount(c.mounts, sqlite) \in Covering(c.mounts, sqlite)
        BY <1>1, TargetMounts, BaseMountUnique
      <4>4. Contains(sqlite, m.dst)
        BY <1>1, <3>1, <3>3, <4>2, <4>3, ContainsOrder DEF Narrows, Covering
      <4> QED
        BY <1>1, <3>1, <4>1, <4>4, ContainsOrder
    <3> QED
      BY <3>2, <3>3
  <2>8. ASSUME ~writable PROVE ~Writable(T, p)
    <3>1. \A m1 \in T : m1.dst \in Path
      <4>1. \A m1 \in Separate(c, sqlite) : Narrowed(m1, sqlite, writable).dst \in Path
        BY <1>1, <1>3, <1>4, NarrowedAt
      <4> QED
        BY <1>2, <1>3, <1>4, <4>1
    <3>2. n \in Covering(T, p)
      BY <3>1, BaseMountExists
    <3>3. PICK m1 \in Separate(c, sqlite) : n = Narrowed(m1, sqlite, writable)
      BY <2>4, <3>2
    <3>4. ~n.rw
      BY <1>1, <1>3, <1>4, <2>8, <3>3, NarrowedIs
    <3> QED
      BY <3>4 DEF Writable
  <2> QED
    BY <2>7, <2>8
<1> QED
  BY <1>5, <1>6

\* The volumes of a target are volumes of the workstation.
LEMMA TargetVolumes ==
    ASSUME NEW c, NEW sqlite, NEW writable, Selectable(c, sqlite, writable)
    PROVE  VolumesOf(Target(c, sqlite, writable).mounts) \subseteq VolumesOf(c.mounts)
<1> SUFFICES ASSUME NEW o \in Target(c, sqlite, writable).mounts, o.kind = "volume"
             PROVE  Head(o.root) \in VolumesOf(c.mounts)
  BY DEF VolumesOf
<1>1. Mounted(c.mounts) /\ sqlite \in Path /\ writable \in BOOLEAN
  BY DEF Selectable
<1>2. CASE o \in History(c)
  BY <1>2, TargetMounts DEF VolumesOf
<1>3. ASSUME NEW m \in Separate(c, sqlite), o = Narrowed(m, sqlite, writable)
      PROVE  Head(o.root) \in VolumesOf(c.mounts)
  <2>1. m \in c.mounts /\ m \in MountRecord
    BY <1>1, TargetMounts DEF Mounted
  <2>2. m.kind = "volume"
    BY <1>1, <1>3, <2>1, NarrowedIs
  <2>3. m.root \in Path /\ m.root # <<>> /\ m.dst \in Path
    BY <1>1, <2>1, <2>2 DEF Mounted, MountRecord
  <2>4. Head(o.root) = Head(m.root)
    <3>1. CASE Narrows(m, sqlite)
      <4>1. o.root = Join(m.root, Relative(m.dst, sqlite))
        BY <1>1, <1>3, <2>1, <3>1, NarrowedIs
      <4>2. Relative(m.dst, sqlite) \in Path
        BY <1>1, <2>3, <3>1, RelativePath DEF Narrows
      <4>3. \A x \in Path : Head(Join(m.root, x)) = Head(m.root)
        BY <2>3 DEF Join, Path
      <4> QED
        BY <4>1, <4>2, <4>3
    <3>2. CASE ~Narrows(m, sqlite)
      BY <1>1, <1>3, <2>1, <3>2, NarrowedIs
    <3> QED
      BY <3>1, <3>2
  <2> QED
    BY <2>1, <2>2, <2>4 DEF VolumesOf
<1> QED
  BY <1>2, <1>3 DEF Target

-----------------------------------------------------------------------------
(* The invariant.                                                          *)

BoxType == [id : Nat, status : Status \cup {"none"}, sound : BOOLEAN,
            mounts : SUBSET MountRecord, imageVolumes : SUBSET Path]

\* What a daemon can show of a workstation.
Deployable(b) ==
    /\ b \in BoxType
    /\ Mounted(b.mounts)
    /\ b.imageVolumes \subseteq {m.dst : m \in b.mounts}

Containers ==
    /\ Deployable(box) /\ Deployable(cand)
    /\ vol \in [Volume -> [inst : Nat, foreign : BOOLEAN]]
    /\ helper \in [st : {"none", "created", "started"}, inst : [Volume -> Nat]]
    /\ origin \in [Volume -> Nat]
    /\ lastId \in Nat \ {0}

\* The discovery handles paths, and has found one before a target is selected.
Discovery ==
    /\ request.op \in {"import", "export"}
    /\ DOMAIN request.explicit = End
    /\ \A e \in End : request.explicit[e] # None => request.explicit[e] \in Path
    /\ config \in [End -> [Layer \cup {"env"} -> Said]]
    /\ disc \in [end : End, at : 1..(Len(Layers) + 1), path : Path, managed : BOOLEAN]
    /\ found \in [End -> Path \cup {None}]
    /\ pc = "select" => found["container"] \in Path
    /\ edits \in Nat /\ events \in Nat

\* Until the inspected workstation is removed it keeps its mounts, and its
\* volumes are those of the inspection; one that replaces it has another ID.
Workstation ==
    /\ box.id <= lastId
    /\ cand.id \in {0, 1}
    /\ pc = "inspect" => cand.id = 0 /\ box.id \in {0, 1}
    /\ box.id = 0 => box = NoBox
    /\ \A v \in VolumesOf(box.mounts) : vol[v].inst # 0
    /\ box.id = 1 /\ cand.id = 1 =>
          /\ box.mounts = cand.mounts
          /\ \A v \in VolumesOf(box.mounts) : vol[v].inst = origin[v]

\* The target is the one that inspectTarget gives for the inspected workstation.
Selected ==
    pc \notin {"inspect", "failed"} =>
        /\ cand.id = 1 /\ target.id = 1
        /\ Selectable(cand, target.sqlite, target.writable)
        /\ target = Target(cand, target.sqlite, target.writable)
        /\ pc \notin {"host", "container", "read", "select"} =>
              target.writable = (request.op = "import")

\* A helper holds its volumes, and one that may start has the inspected ones.
Held ==
    /\ pc \in {"inspect", "host", "container", "read", "select", "run", "create",
               "recheck", "start", "started", "failed"}
    /\ helper.st # "none" => HelperPrepared
    /\ helper.st = "started" => pc = "started"
    /\ pc \in {"recheck", "start", "started"} => helper.st # "none"
    /\ helper.st # "none" =>
          \A v \in VolumesOf(target.mounts) :
              vol[v].inst # 0 /\ helper.inst[v] = vol[v].inst
    /\ pc \in {"start", "started"} =>
          \A v \in VolumesOf(target.mounts) : helper.inst[v] = origin[v]

IInv == Containers /\ Discovery /\ Workstation /\ Selected /\ Held

\* The volumes of a workstation are known.
LEMMA VolumesKnown == ASSUME NEW ms, Mounted(ms) PROVE VolumesOf(ms) \subseteq Volume
BY DEF Mounted, VolumesOf

\* A container that is created leaves existing volumes as they are, and all of
\* its own exist.
LEMMA EnsuredVolumes ==
    ASSUME Containers, NEW ms
    PROVE  /\ Ensured(ms) \in [Volume -> [inst : Nat, foreign : BOOLEAN]]
           /\ \A v \in Volume : vol[v].inst # 0 => Ensured(ms)[v] = vol[v]
           /\ \A v \in Volume : v \in VolumesOf(ms) => Ensured(ms)[v].inst # 0
<1>1. lastId + 1 \in Nat /\ lastId + 1 # 0
  BY DEF Containers
<1> QED
  BY <1>1 DEF Containers, Ensured

\* That there is no workstation is a state of the daemon too.
LEMMA NoBoxDeployable == Deployable(NoBox)
<1>1. ASSUME NEW st \in Status \cup {"none"}, NEW fact \in BOOLEAN
      PROVE  [id |-> 0, status |-> st, sound |-> fact, mounts |-> {},
              imageVolumes |-> {}] \in BoxType
  BY DEF BoxType
<1>2. NoBox \in BoxType
  BY <1>1 DEF NoBox
<1>3. Mounted(NoBox.mounts) /\ NoBox.imageVolumes = {}
  BY DEF NoBox, Mounted
<1> QED
  BY <1>2, <1>3 DEF Deployable

\* The initial states satisfy the invariant.
LEMMA InitIInv == Init => IInv
<1> SUFFICES ASSUME Init PROVE IInv
  OBVIOUS
<1>1. PICK s \in Scenarios :
        /\ request = s.request
        /\ box = [id |-> 1, status |-> s.deployment.status,
                  sound |-> s.deployment.sound, mounts |-> s.deployment.mounts,
                  imageVolumes |-> s.deployment.imageVolumes]
        /\ vol = [v \in Volume |->
                    [inst |-> IF v \in VolumesOf(s.deployment.mounts) THEN 1 ELSE 0,
                     foreign |-> v \in s.deployment.foreign]]
        /\ config = s.config
        /\ edits = s.edits
        /\ events = s.events
  BY DEF Init
<1>2. /\ pc = "inspect" /\ cand = NoBox /\ disc = NoDiscovery
      /\ found = [e \in End |-> None] /\ helper = NoHelper /\ lastId = 1
      /\ origin = [v \in Volume |-> 0]
  BY DEF Init
<1> DEFINE d == s.deployment
<1>3. /\ d.status \in Status /\ d.sound \in BOOLEAN /\ Mounted(d.mounts)
      /\ d.imageVolumes \subseteq {m.dst : m \in d.mounts}
  BY TargetAssumption
<1>4. d.mounts \subseteq MountRecord /\ d.imageVolumes \subseteq Path
  BY <1>3 DEF Mounted, MountRecord
<1>5. Containers
  <2>1. Deployable(box)
    BY <1>1, <1>3, <1>4 DEF Deployable, BoxType
  <2>2. Deployable(cand)
    BY <1>2, NoBoxDeployable
  <2>3. vol \in [Volume -> [inst : Nat, foreign : BOOLEAN]]
    BY <1>1
  <2>4. helper \in [st : {"none", "created", "started"}, inst : [Volume -> Nat]]
    BY <1>2 DEF NoHelper
  <2> QED
    BY <1>2, <2>1, <2>2, <2>3, <2>4 DEF Containers
<1>6. Discovery
  <2>1. /\ request.op \in {"import", "export"}
        /\ DOMAIN request.explicit = End
        /\ \A e \in End : request.explicit[e] # None => request.explicit[e] \in Path
        /\ config \in [End -> [Layer \cup {"env"} -> Said]]
        /\ edits \in Nat /\ events \in Nat
    BY <1>1, TargetAssumption
  <2>2. disc \in [end : End, at : 1..(Len(Layers) + 1), path : Path,
                  managed : BOOLEAN]
    <3>1. <<>> \in Path /\ 1 \in 1..(Len(Layers) + 1) /\ "host" \in End
      BY EmptySeq DEF Path, Layers, End
    <3> QED
      BY <1>2, <3>1 DEF NoDiscovery
  <2> QED
    BY <1>2, <2>1, <2>2 DEF Discovery
<1>7. Workstation
  <2>1. \A v \in VolumesOf(box.mounts) : vol[v].inst # 0
    BY <1>1, <1>3, VolumesKnown
  <2> QED
    BY <1>1, <1>2, <2>1 DEF Workstation, NoBox
<1>8. Selected /\ Held
  BY <1>2 DEF Selected, Held, NoHelper
<1> QED
  BY <1>5, <1>6, <1>7, <1>8 DEF IInv

\* A command that fails keeps the invariant.
LEMMA FailIInv ==
    ASSUME IInv, Fail, events' \in Nat,
           UNCHANGED <<daemon, config, edits, ghosts>>
    PROVE  IInv'
<1> USE DEF IInv, Fail, daemon, ghosts
<1>1. Containers'
  BY DEF Containers, NoHelper
<1>2. Discovery'
  BY DEF Discovery
<1>3. Workstation'
  BY DEF Workstation
<1>4. Selected' /\ Held'
  BY DEF Selected, Held, NoHelper
<1> QED
  BY <1>1, <1>2, <1>3, <1>4

\* A step of the discovery leaves the storage, the target and the helper alone.
LEMMA DiscoveryFrame ==
    ASSUME IInv, UNCHANGED <<request, cand, target, helper, daemon, origin>>,
           pc \in {"host", "container", "read", "select"},
           pc' \in {"host", "container", "read", "select"}
    PROVE  Containers' /\ Workstation' /\ Selected' /\ Held'
<1> USE DEF IInv, daemon
<1>1. Containers'
  BY DEF Containers
<1>2. Workstation'
  BY DEF Workstation
<1>3. Selected'
  BY DEF Selected
<1>4. Held'
  BY DEF Held, HelperPrepared
<1> QED
  BY <1>1, <1>2, <1>3, <1>4

\* A value that is set stands for a path.
LEMMA ResolvedPath ==
    ASSUME NEW e \in End, NEW l, NEW value \in SettingValue
    PROVE  Resolved(e, l, value) \in Path
<1>1. BaseDirectory(e, l) \in Path
  <2>1. Codex[e] \in Path /\ WorkDir[e] \in Path
    BY TargetAssumption
  <2>2. SystemDirectory \in Path
    BY TargetAssumption
  <2> QED
    BY <2>1, <2>2 DEF BaseDirectory
<1>2. value.path \in Path
  BY DEF SettingValue
<1>3. ASSUME NEW p \in Path, NEW q \in Path PROVE p \o q \in Path
  BY DEF Path
<1> QED
  BY <1>1, <1>2, <1>3 DEF Resolved

\* The inspection keeps the invariant.
LEMMA InspectIInv == ASSUME IInv, InspectTarget PROVE IInv'
<1>1. CASE Fail /\ UNCHANGED origin
  BY <1>1, FailIInv DEF InspectTarget, ghosts, IInv, Discovery
<1>2. CASE /\ Accepted(box, CodexHome, FALSE)
           /\ cand' = box
           /\ target' = Target(box, CodexHome, FALSE)
           /\ Goto("host")
           /\ origin' = Instances
           /\ UNCHANGED <<request, disc, found, helper>>
  <2>1. pc = "inspect" /\ pc' = "host" /\ UNCHANGED <<daemon, config, edits, events>>
    BY <1>2 DEF InspectTarget, Goto
  <2>2. Deployable(box) /\ box.id = 1
    BY <1>2, <2>1 DEF IInv, Containers, Workstation, NoBox, Accepted
  <2>3. origin' \in [Volume -> Nat] /\ \A v \in Volume : origin'[v] = vol[v].inst
    BY <1>2 DEF Instances, IInv, Containers
  <2>4. Containers'
    BY <1>2, <2>1, <2>2, <2>3 DEF IInv, Containers, daemon
  <2>5. Discovery'
    BY <1>2, <2>1 DEF IInv, Discovery
  <2>6. Workstation'
    <3>1. VolumesOf(box.mounts) \subseteq Volume
      BY <2>2, VolumesKnown DEF Deployable
    <3> QED
      BY <1>2, <2>1, <2>2, <2>3, <3>1 DEF IInv, Workstation, daemon
  <2>7. Selected'
    <3>1. Selectable(box, CodexHome, FALSE)
      BY <1>2, <2>2, CodexHomePath DEF Selectable, Deployable
    <3>2. target'.id = 1 /\ target'.sqlite = CodexHome /\ target'.writable = FALSE
      BY <1>2, <2>2 DEF Target
    <3> QED
      BY <1>2, <2>1, <2>2, <3>1, <3>2 DEF Selected
  <2>8. Held'
    BY <1>2, <2>1 DEF IInv, Held, HelperPrepared
  <2> QED
    BY <2>4, <2>5, <2>6, <2>7, <2>8 DEF IInv
<1> QED
  BY <1>1, <1>2 DEF InspectTarget

\* The beginning of a discovery keeps the invariant.
LEMMA BeginIInv == ASSUME IInv, NEW e \in End, BeginDiscovery(e) PROVE IInv'
<1>1. pc = e /\ pc \in {"host", "container"}
  BY DEF BeginDiscovery, End
<1>2. UNCHANGED <<daemon, config, edits, events, origin, edited>>
  BY DEF BeginDiscovery
<1>3. CASE /\ request.explicit[e] # None
           /\ found' = [found EXCEPT ![e] = request.explicit[e]]
           /\ Goto(IF e = "host" THEN "container" ELSE "select")
           /\ UNCHANGED <<request, cand, disc, target, helper, effective>>
  <2>1. pc' = IF e = "host" THEN "container" ELSE "select"
    BY <1>3 DEF Goto
  <2>2. found' \in [End -> Path \cup {None}] /\ found'[e] \in Path
    BY <1>3 DEF IInv, Discovery
  <2>3. Discovery'
    BY <1>2, <1>3, <2>1, <2>2 DEF IInv, Discovery, End
  <2>4. Containers' /\ Workstation' /\ Selected' /\ Held'
    BY <1>1, <1>2, <1>3, <2>1, DiscoveryFrame
  <2> QED
    BY <2>3, <2>4 DEF IInv
<1>4. CASE /\ config[e]["env"] # Bad
           /\ disc' = [end |-> e, at |-> 1, path |-> Fallback(e), managed |-> FALSE]
           /\ Goto("read")
           /\ UNCHANGED <<request, cand, found, target, helper>>
  <2>1. pc' = "read"
    BY <1>4 DEF Goto
  <2>2. Fallback(e) \in Path
    <3>1. config[e]["env"] \in Said
      BY DEF IInv, Discovery
    <3>2. config[e]["env"] # None => config[e]["env"] \in SettingValue
      BY <1>4, <3>1 DEF Said
    <3> QED
      BY <3>2, ResolvedPath, TargetAssumption DEF Fallback
  <2>3. disc' \in [end : End, at : 1..(Len(Layers) + 1), path : Path,
                   managed : BOOLEAN]
    <3>1. 1 \in 1..(Len(Layers) + 1)
      BY DEF Layers
    <3> QED
      BY <1>4, <2>2, <3>1
  <2>4. Discovery'
    BY <1>2, <1>4, <2>1, <2>3 DEF IInv, Discovery
  <2>5. Containers' /\ Workstation' /\ Selected' /\ Held'
    BY <1>1, <1>2, <1>4, <2>1, DiscoveryFrame
  <2> QED
    BY <2>4, <2>5 DEF IInv
<1>5. CASE Fail /\ UNCHANGED effective
  BY <1>2, <1>5, FailIInv DEF ghosts, IInv, Discovery
<1> QED
  BY <1>3, <1>4, <1>5 DEF BeginDiscovery

\* Reading one file keeps the invariant.
LEMMA ReadIInv == ASSUME IInv, ReadLayer PROVE IInv'
<1>1. pc = "read" /\ ~LayersDone /\ UNCHANGED <<daemon, config, edits, events, ghosts>>
  BY DEF ReadLayer
<1>2. CASE Fail
  BY <1>1, <1>2, FailIInv DEF IInv, Discovery
<1> DEFINE e == disc.end
           l == Layers[disc.at]
           value == config[e][l]
<1>3. CASE /\ value # Bad
           /\ disc' = [disc EXCEPT
                      !.at = @ + 1,
                      !.path = IF value # None /\ Overrides(disc.at)
                               THEN Resolved(e, l, value) ELSE @,
                      !.managed = @ \/ (value # None /\ disc.at \in {3, 4})]
           /\ UNCHANGED <<request, pc, cand, found, target, helper>>
  <2>1. e \in End /\ disc.at \in 1..Len(Layers) /\ disc.path \in Path
    <3>1. Len(Layers) = 6
      BY DEF Layers
    <3> QED
      BY <1>1, <3>1 DEF IInv, Discovery, LayersDone
  <2>2. value \in Said
    <3>1. l \in Layer
      BY <2>1 DEF Layer
    <3> QED
      BY <2>1, <3>1 DEF IInv, Discovery
  <2>3. value # None => Resolved(e, l, value) \in Path
    BY <1>3, <2>1, <2>2, ResolvedPath DEF Said
  <2>4. disc' \in [end : End, at : 1..(Len(Layers) + 1), path : Path,
                   managed : BOOLEAN]
    <3> HIDE DEF value, l, e
    <3> DEFINE path == IF value # None /\ Overrides(disc.at)
                       THEN Resolved(e, l, value) ELSE disc.path
               managed == disc.managed \/ (value # None /\ disc.at \in {3, 4})
    <3>1. disc' = [disc EXCEPT !.at = disc.at + 1, !.path = path, !.managed = managed]
      BY <1>3
    <3>2. path \in Path
      BY <2>1, <2>3
    <3>3. managed \in BOOLEAN
      BY DEF IInv, Discovery
    <3>4. disc.at + 1 \in 1..(Len(Layers) + 1)
      <4>1. Len(Layers) = 6
        BY DEF Layers
      <4> QED
        BY <2>1, <4>1
    <3>5. disc \in [end : End, at : 1..(Len(Layers) + 1), path : Path,
                    managed : BOOLEAN]
      BY DEF IInv, Discovery
    <3> HIDE DEF path, managed
    <3> QED
      BY <3>1, <3>2, <3>3, <3>4, <3>5
  <2>5. Discovery'
    BY <1>1, <1>3, <2>4 DEF IInv, Discovery
  <2>6. Containers' /\ Workstation' /\ Selected' /\ Held'
    BY <1>1, <1>3, DiscoveryFrame DEF ghosts
  <2> QED
    BY <2>5, <2>6 DEF IInv
<1> QED
  BY <1>2, <1>3 DEF ReadLayer

\* The end of a discovery keeps the invariant.
LEMMA EndIInv == ASSUME IInv, EndDiscovery PROVE IInv'
<1>1. pc = "read" /\ UNCHANGED <<daemon, config, edits, events, ghosts>>
  BY DEF EndDiscovery
<1>2. CASE Fail
  BY <1>1, <1>2, FailIInv DEF IInv, Discovery
<1>3. CASE /\ found' = [found EXCEPT ![disc.end] = disc.path]
           /\ disc' = NoDiscovery
           /\ Goto(IF disc.end = "host" THEN "container" ELSE "select")
           /\ UNCHANGED <<request, cand, target, helper>>
  <2>1. pc' = IF disc.end = "host" THEN "container" ELSE "select"
    BY <1>3 DEF Goto
  <2>2. disc.end \in End /\ disc.path \in Path
    BY DEF IInv, Discovery
  <2>3. found' \in [End -> Path \cup {None}] /\ found'[disc.end] \in Path
    BY <1>3, <2>2 DEF IInv, Discovery
  <2>4. disc' \in [end : End, at : 1..(Len(Layers) + 1), path : Path,
                   managed : BOOLEAN]
    <3>1. <<>> \in Path /\ 1 \in 1..(Len(Layers) + 1) /\ "host" \in End
      BY EmptySeq DEF Path, Layers, End
    <3> QED
      BY <1>3, <3>1 DEF NoDiscovery
  <2>5. pc' = "select" => found'["container"] \in Path
    BY <2>1, <2>2, <2>3 DEF End
  <2>6. Discovery'
    BY <1>1, <1>3, <2>3, <2>4, <2>5 DEF IInv, Discovery
  <2>7. Containers' /\ Workstation' /\ Selected' /\ Held'
    BY <1>1, <1>3, <2>1, DiscoveryFrame DEF ghosts
  <2> QED
    BY <2>6, <2>7 DEF IInv
<1> QED
  BY <1>2, <1>3 DEF EndDiscovery

\* The selection of the target keeps the invariant.
LEMMA SelectIInv == ASSUME IInv, SelectTarget PROVE IInv'
<1> DEFINE import == request.op = "import"
           sqlite == found["container"]
<1>1. pc = "select" /\ UNCHANGED <<daemon, config, edits, events, ghosts>>
  BY DEF SelectTarget
<1>2. CASE Fail
  BY <1>1, <1>2, FailIInv DEF IInv, Discovery
<1>3. CASE /\ Accepted(cand, sqlite, import)
           /\ target' = Target(cand, sqlite, import)
           /\ Goto("run")
           /\ UNCHANGED <<request, cand, disc, found, helper>>
  <2>1. pc' = "run"
    BY <1>3 DEF Goto
  <2>2. Containers'
    BY <1>1, <1>3 DEF IInv, Containers, daemon, ghosts
  <2>3. Discovery'
    BY <1>1, <1>3, <2>1 DEF IInv, Discovery
  <2>4. Workstation'
    BY <1>1, <1>3, <2>1 DEF IInv, Workstation, daemon, ghosts
  <2>5. Selected'
    <3>1. sqlite \in Path /\ import \in BOOLEAN
      BY <1>1 DEF IInv, Discovery
    <3>2. Selectable(cand, sqlite, import)
      BY <1>3, <3>1 DEF Selectable, IInv, Containers, Deployable
    <3>3. cand.id = 1
      BY <1>1 DEF IInv, Selected
    <3> HIDE DEF sqlite, import
    <3>4. target'.id = 1 /\ target'.sqlite = sqlite /\ target'.writable = import
      BY <1>3, <3>3 DEF Target
    <3>5. /\ cand'.id = 1 /\ target'.id = 1
          /\ Selectable(cand', target'.sqlite, target'.writable)
          /\ target' = Target(cand', target'.sqlite, target'.writable)
      BY <1>3, <3>2, <3>3, <3>4
    <3>6. target'.writable = (request'.op = "import")
      BY <1>3, <3>4 DEF import
    <3> QED
      BY <3>5, <3>6 DEF Selected
  <2>6. Held'
    BY <1>1, <1>3, <2>1 DEF IInv, Held, HelperPrepared
  <2> QED
    BY <2>2, <2>3, <2>4, <2>5, <2>6 DEF IInv
<1> QED
  BY <1>2, <1>3 DEF SelectTarget

\* A step of the command after the selection leaves the discovery and the
\* target alone.
LEMMA PreparedFrame ==
    ASSUME IInv, UNCHANGED <<request, cand, disc, found, target, config, edits, events>>,
           pc \in {"run", "create", "recheck", "start"},
           pc' \in {"create", "recheck", "start", "started"}
    PROVE  Discovery' /\ Selected'
<1>1. Discovery'
  BY DEF IInv, Discovery
<1>2. Selected'
  BY DEF IInv, Selected
<1> QED
  BY <1>1, <1>2

\* The volumes of the target are volumes of the inspected workstation.
LEMMA SelectedVolumes ==
    ASSUME IInv, pc \notin {"inspect", "failed"}
    PROVE  /\ VolumesOf(target.mounts) \subseteq VolumesOf(cand.mounts)
           /\ VolumesOf(target.mounts) \subseteq Volume
<1> DEFINE t == Target(cand, target.sqlite, target.writable)
<1>1. Selectable(cand, target.sqlite, target.writable) /\ target = t
  BY DEF IInv, Selected
<1>2. VolumesOf(t.mounts) \subseteq VolumesOf(cand.mounts)
  BY <1>1, TargetVolumes
<1>3. VolumesOf(cand.mounts) \subseteq Volume
  BY <1>1, VolumesKnown DEF Selectable
<1> HIDE DEF t
<1> QED
  BY <1>1, <1>2, <1>3

\* The first recheck keeps the invariant.
LEMMA FirstRecheckIInv == ASSUME IInv, FirstRecheck PROVE IInv'
<1>1. pc = "run" /\ UNCHANGED <<daemon, config, edits, events, ghosts>>
  BY DEF FirstRecheck
<1>2. CASE Fail
  BY <1>1, <1>2, FailIInv DEF IInv, Discovery
<1>3. CASE Goto("create") /\ UNCHANGED <<request, cand, disc, found, target, helper>>
  <2>1. pc' = "create"
    BY <1>3 DEF Goto
  <2>2. Containers'
    BY <1>1, <1>3 DEF IInv, Containers, daemon, ghosts
  <2>3. Workstation'
    BY <1>1, <1>3, <2>1 DEF IInv, Workstation, daemon, ghosts
  <2>4. Held'
    BY <1>1, <1>3, <2>1 DEF IInv, Held, HelperPrepared
  <2> QED
    BY <1>1, <1>3, <2>1, <2>2, <2>3, <2>4, PreparedFrame DEF IInv
<1> QED
  BY <1>2, <1>3 DEF FirstRecheck

\* The creation of the helper keeps the invariant: volumes that it makes are not
\* those of the workstation.
LEMMA CreateIInv == ASSUME IInv, CreateHelper PROVE IInv'
<1>1. /\ pc = "create" /\ pc' = "recheck"
      /\ vol' = Ensured(target.mounts)
      /\ lastId' = lastId + 1
      /\ helper' = [st |-> "created", inst |-> [v \in Volume |-> vol'[v].inst]]
      /\ UNCHANGED <<request, cand, disc, found, target, box, config, edits, events,
                     ghosts>>
  BY DEF CreateHelper, Goto
<1>2. /\ vol' \in [Volume -> [inst : Nat, foreign : BOOLEAN]]
      /\ \A v \in Volume : vol[v].inst # 0 => vol'[v] = vol[v]
      /\ \A v \in Volume : v \in VolumesOf(target.mounts) => vol'[v].inst # 0
  BY <1>1, EnsuredVolumes DEF IInv
<1>3. lastId' \in Nat \ {0} /\ lastId < lastId' /\ lastId \in Nat
  BY <1>1 DEF IInv, Containers
<1>4. VolumesOf(box.mounts) \subseteq Volume
  BY VolumesKnown DEF IInv, Containers, Deployable
<1>5. Containers'
  <2>1. helper' \in [st : {"none", "created", "started"}, inst : [Volume -> Nat]]
    BY <1>1, <1>2
  <2> QED
    BY <1>1, <1>2, <1>3, <2>1 DEF IInv, Containers, ghosts
<1>6. Workstation'
  <2>1. \A v \in VolumesOf(box.mounts) : vol'[v] = vol[v]
    BY <1>2, <1>4 DEF IInv, Workstation
  <2>2. box.id \in Nat
    BY DEF IInv, Containers, Deployable, BoxType
  <2>3. box'.id <= lastId'
    BY <1>1, <1>3, <2>2 DEF IInv, Workstation
  <2> QED
    BY <1>1, <2>1, <2>3 DEF IInv, Workstation, ghosts
<1>7. Held'
  <2>1. \A v \in VolumesOf(target.mounts) :
            vol'[v].inst # 0 /\ helper'.inst[v] = vol'[v].inst
    BY <1>1, <1>2, SelectedVolumes
  <2>2. helper'.st = "created" /\ UNCHANGED target
    BY <1>1
  <2> QED
    BY <1>1, <2>1, <2>2 DEF Held, HelperPrepared
<1> QED
  BY <1>1, <1>5, <1>6, <1>7, PreparedFrame DEF IInv

\* The second recheck keeps the invariant: the workstation is the inspected one,
\* and its volumes are those that the helper mounts.
LEMMA SecondRecheckIInv == ASSUME IInv, SecondRecheck PROVE IInv'
<1>1. pc = "recheck" /\ UNCHANGED <<daemon, config, edits, events, ghosts>>
  BY DEF SecondRecheck
<1>2. CASE Fail
  BY <1>1, <1>2, FailIInv DEF IInv, Discovery
<1>3. CASE /\ Recheck(target) /\ Goto("start")
           /\ UNCHANGED <<request, cand, disc, found, target, helper>>
  <2>1. pc' = "start"
    BY <1>3 DEF Goto
  <2>2. Containers'
    BY <1>1, <1>3 DEF IInv, Containers, daemon, ghosts
  <2>3. Workstation'
    BY <1>1, <1>3, <2>1 DEF IInv, Workstation, daemon, ghosts
  <2>4. \A v \in VolumesOf(target.mounts) : helper.inst[v] = origin[v]
    <3>1. box.id = 1 /\ cand.id = 1
      BY <1>1, <1>3 DEF IInv, Selected, Recheck
    <3>2. \A v \in VolumesOf(cand.mounts) : vol[v].inst = origin[v]
      BY <3>1 DEF IInv, Workstation
    <3> QED
      BY <1>1, <3>2, SelectedVolumes DEF IInv, Held
  <2>5. Held'
    BY <1>1, <1>3, <2>1, <2>4 DEF IInv, Held, HelperPrepared, daemon, ghosts
  <2> QED
    BY <1>1, <1>3, <2>1, <2>2, <2>3, <2>5, PreparedFrame DEF IInv
<1> QED
  BY <1>2, <1>3 DEF SecondRecheck

\* The start of the helper keeps the invariant.
LEMMA StartIInv == ASSUME IInv, StartHelper PROVE IInv'
<1>1. /\ pc = "start" /\ pc' = "started"
      /\ helper' = [helper EXCEPT !.st = "started"]
      /\ UNCHANGED <<request, cand, disc, found, target, daemon, config, edits, events,
                     ghosts>>
  BY DEF StartHelper, Goto
<1>2. /\ helper' \in [st : {"none", "created", "started"}, inst : [Volume -> Nat]]
      /\ helper'.st = "started" /\ helper'.inst = helper.inst
  BY <1>1 DEF IInv, Containers
<1>3. Containers'
  BY <1>1, <1>2 DEF IInv, Containers, daemon, ghosts
<1>4. Workstation'
  BY <1>1 DEF IInv, Workstation, daemon, ghosts
<1>5. Held'
  BY <1>1, <1>2 DEF IInv, Held, HelperPrepared, daemon, ghosts
<1> QED
  BY <1>1, <1>3, <1>4, <1>5, PreparedFrame DEF IInv

\* An event leaves the command, its discovery and its target alone.
LEMMA EventFrame ==
    ASSUME IInv, Event, UNCHANGED <<command, config, edits, ghosts>>
    PROVE  Discovery' /\ Selected' /\ Active
<1>1. events' \in Nat
  BY DEF IInv, Discovery, Event
<1>2. Discovery'
  BY <1>1 DEF IInv, Discovery, command
<1>3. Selected'
  BY DEF IInv, Selected, command
<1> QED
  BY <1>2, <1>3 DEF Event

\* An edit of a configuration file keeps the invariant.
LEMMA EditIInv ==
    ASSUME IInv, NEW e \in End, NEW l \in Layer, EditConfig(e, l) PROVE IInv'
<1>1. UNCHANGED <<command, daemon, events, origin>> /\ edits' \in Nat
  BY DEF EditConfig, IInv, Discovery
<1>2. config' \in [End -> [Layer \cup {"env"} -> Said]]
  <2>1. PICK value \in Setting[l] \cup {None, Bad} :
            config' = [config EXCEPT ![e][l] = value]
    BY DEF EditConfig
  <2>2. value \in Said
    BY TargetAssumption DEF Said
  <2>3. config \in [End -> [Layer \cup {"env"} -> Said]]
    BY DEF IInv, Discovery
  <2>4. [config[e] EXCEPT ![l] = value] \in [Layer \cup {"env"} -> Said]
    BY <2>2, <2>3
  <2> QED
    BY <2>1, <2>3, <2>4
<1>3. Containers'
  BY <1>1 DEF IInv, Containers, command, daemon
<1>4. Discovery'
  BY <1>1, <1>2 DEF IInv, Discovery, command
<1>5. Workstation'
  BY <1>1 DEF IInv, Workstation, command, daemon
<1>6. Selected'
  BY <1>1 DEF IInv, Selected, command
<1>7. Held'
  BY <1>1 DEF IInv, Held, HelperPrepared, command, daemon
<1> QED
  BY <1>3, <1>4, <1>5, <1>6, <1>7 DEF IInv

\* The removal of the workstation keeps the invariant.
LEMMA RemoveWorkstationIInv == ASSUME IInv, RemoveWorkstation PROVE IInv'
<1>1. /\ Event /\ box' = NoBox
      /\ UNCHANGED <<command, vol, lastId, config, edits, ghosts>>
  BY DEF RemoveWorkstation
<1>2. Deployable(NoBox) /\ NoBox.id = 0 /\ NoBox.mounts = {}
  BY NoBoxDeployable DEF NoBox
<1>3. Containers'
  BY <1>1, <1>2 DEF IInv, Containers, command, ghosts
<1>4. Workstation'
  <2>1. VolumesOf(NoBox.mounts) = {}
    BY <1>2 DEF VolumesOf
  <2>2. box'.id <= lastId' /\ box'.id # 1
    BY <1>1, <1>2 DEF IInv, Containers
  <2> QED
    BY <1>1, <1>2, <2>1, <2>2 DEF IInv, Workstation, command, ghosts
<1>5. Held'
  BY <1>1 DEF IInv, Held, HelperPrepared, command, ghosts
<1> QED
  BY <1>1, <1>3, <1>4, <1>5, EventFrame DEF IInv

\* The removal of a volume keeps the invariant: it is in nobody's use.
LEMMA RemoveVolumeIInv ==
    ASSUME IInv, NEW v \in Volume, RemoveVolume(v) PROVE IInv'
<1>1. /\ Event /\ v \notin VolumesOf(box.mounts)
      /\ helper.st # "none" => v \notin VolumesOf(target.mounts)
      /\ vol' = [vol EXCEPT ![v] = [inst |-> 0, foreign |-> FALSE]]
      /\ UNCHANGED <<command, box, lastId, config, edits, ghosts>>
  BY DEF RemoveVolume
<1>2. /\ vol' \in [Volume -> [inst : Nat, foreign : BOOLEAN]]
      /\ \A w \in Volume : w # v => vol'[w] = vol[w]
  BY <1>1 DEF IInv, Containers
<1>3. Containers'
  BY <1>1, <1>2 DEF IInv, Containers, command, ghosts
<1>4. Workstation'
  <2>1. \A w \in VolumesOf(box.mounts) : vol'[w] = vol[w]
    BY <1>1, <1>2, VolumesKnown DEF IInv, Containers, Deployable
  <2> QED
    BY <1>1, <2>1 DEF IInv, Workstation, command, ghosts
<1>5. Held'
  <2>1. ASSUME helper.st # "none"
        PROVE  \A w \in VolumesOf(target.mounts) : vol'[w] = vol[w]
    <3>1. pc \notin {"inspect", "failed"}
      BY <2>1 DEF IInv, Held, HelperPrepared
    <3> QED
      BY <1>1, <1>2, <2>1, <3>1, SelectedVolumes
  <2> QED
    BY <1>1, <2>1 DEF IInv, Held, HelperPrepared, command, ghosts
<1> QED
  BY <1>1, <1>3, <1>4, <1>5, EventFrame DEF IInv

\* A workstation that replaces the inspected one keeps the invariant: its ID is
\* another one, and volumes that a helper holds are not replaced.
LEMMA RecreateIInv == ASSUME IInv, RecreateWorkstation PROVE IInv'
<1>1. /\ Event /\ cand.id # 0 /\ lastId' = lastId + 1
      /\ box' = [cand EXCEPT !.id = lastId']
      /\ vol' = Ensured(cand.mounts)
      /\ UNCHANGED <<command, config, edits, ghosts>>
  BY DEF RecreateWorkstation
<1>2. /\ vol' \in [Volume -> [inst : Nat, foreign : BOOLEAN]]
      /\ \A v \in Volume : vol[v].inst # 0 => vol'[v] = vol[v]
      /\ \A v \in Volume : v \in VolumesOf(cand.mounts) => vol'[v].inst # 0
  BY <1>1, EnsuredVolumes DEF IInv
<1>3. lastId' \in Nat \ {0} /\ lastId' > 1
  BY <1>1 DEF IInv, Containers
<1>4. /\ box' \in BoxType /\ box'.id = lastId' /\ box'.mounts = cand.mounts
      /\ box'.imageVolumes = cand.imageVolumes
  <2>1. cand \in BoxType
    BY DEF IInv, Containers, Deployable
  <2> QED
    BY <1>1, <1>3, <2>1 DEF BoxType
<1>5. Containers'
  <2>1. Deployable(box')
    BY <1>4 DEF IInv, Containers, Deployable
  <2> QED
    BY <1>1, <1>2, <1>3, <2>1 DEF IInv, Containers, command, ghosts
<1>6. Workstation'
  <2>1. pc # "inspect" /\ cand.id \in {0, 1}
    BY <1>1 DEF IInv, Workstation
  <2>2. \A v \in VolumesOf(box'.mounts) : vol'[v].inst # 0
    BY <1>2, <1>4, VolumesKnown DEF IInv, Containers, Deployable
  <2>3. box'.id <= lastId' /\ box'.id # 0 /\ box'.id # 1
    BY <1>3, <1>4
  <2> QED
    BY <1>1, <2>1, <2>2, <2>3 DEF Workstation, command
<1>7. Held'
  <2>1. ASSUME helper.st # "none"
        PROVE  \A w \in VolumesOf(target.mounts) : vol'[w] = vol[w]
    <3>1. pc \notin {"inspect", "failed"}
      BY <2>1 DEF IInv, Held, HelperPrepared
    <3>2. \A w \in VolumesOf(target.mounts) : vol[w].inst # 0
      BY <2>1 DEF IInv, Held
    <3> QED
      BY <1>2, <3>1, <3>2, SelectedVolumes
  <2> QED
    BY <1>1, <2>1 DEF IInv, Held, HelperPrepared, command, ghosts
<1> QED
  BY <1>1, <1>5, <1>6, <1>7, EventFrame DEF IInv

\* A pause keeps the invariant.
LEMMA PauseIInv == ASSUME IInv, PauseWorkstation PROVE IInv'
<1> DEFINE status == IF box.status = "running" THEN "paused" ELSE "running"
<1>1. /\ Event /\ box.status \in {"running", "paused"}
      /\ box' = [box EXCEPT !.status = status]
      /\ UNCHANGED <<command, vol, lastId, config, edits, ghosts>>
  BY DEF PauseWorkstation
<1>2. box \in BoxType /\ status \in Status \cup {"none"}
  BY DEF IInv, Containers, Deployable, Status
<1> HIDE DEF status
<1>3. /\ box' \in BoxType /\ box'.id = box.id /\ box'.mounts = box.mounts
      /\ box'.imageVolumes = box.imageVolumes
  BY <1>1, <1>2 DEF BoxType
<1>4. Containers'
  BY <1>1, <1>3 DEF IInv, Containers, Deployable, command, ghosts
<1>5. Workstation'
  <2>1. box.id # 0
    BY <1>1 DEF IInv, Workstation, NoBox
  <2> QED
    BY <1>1, <1>3, <2>1 DEF IInv, Workstation, command, ghosts
<1>6. Held'
  BY <1>1 DEF IInv, Held, HelperPrepared, command, ghosts
<1> QED
  BY <1>1, <1>4, <1>5, <1>6, EventFrame DEF IInv

\* A failing call keeps the invariant.
LEMMA CallFailsIInv == ASSUME IInv, CallFails PROVE IInv'
<1>1. events' \in Nat
  BY DEF IInv, Discovery, CallFails, Event
<1> QED
  BY <1>1, FailIInv DEF CallFails

\* A step that changes nothing keeps the invariant.
LEMMA StutterIInv == ASSUME IInv, UNCHANGED vars PROVE IInv'
<1> USE DEF IInv, vars, command, daemon, ghosts
<1>1. Containers'
  BY DEF Containers
<1>2. Discovery'
  BY DEF Discovery
<1>3. Workstation'
  BY DEF Workstation
<1>4. Selected'
  BY DEF Selected
<1>5. Held'
  BY DEF Held, HelperPrepared
<1> QED
  BY <1>1, <1>2, <1>3, <1>4, <1>5

\* Every step keeps the invariant.
LEMMA NextIInv == IInv /\ [Next]_vars => IInv'
<1> SUFFICES ASSUME IInv, [Next]_vars PROVE IInv'
  OBVIOUS
<1>1. ASSUME Step PROVE IInv'
  BY <1>1, InspectIInv, BeginIInv, ReadIInv, EndIInv, SelectIInv, FirstRecheckIInv,
     CreateIInv, SecondRecheckIInv, StartIInv DEF Step
<1>2. ASSUME World PROVE IInv'
  BY <1>2, CallFailsIInv, EditIInv, RemoveWorkstationIInv, RecreateIInv, PauseIInv,
     RemoveVolumeIInv DEF World
<1> QED
  BY <1>1, <1>2, StutterIInv DEF Next, Finished

-----------------------------------------------------------------------------
(* The theorems.                                                           *)

\* In every behaviour of session.go, target.go and docker.go the target is the
\* one that inspectTarget gives for the inspected workstation, and the helper
\* holds its volumes.
THEOREM Invariance == Spec => []IInv
<1>1. Init => IInv
  BY InitIInv
<1>2. IInv /\ [Next]_vars => IInv'
  BY NextIInv
<1> QED
  BY <1>1, <1>2, PTL DEF Spec

\* The variables keep their types, and a helper exists only when prepared.
THEOREM TypeCorrect == Spec => []TypeOK
<1>1. IInv => TypeOK
  <2> SUFFICES ASSUME IInv PROVE TypeOK
    OBVIOUS
  <2>1. /\ request.op \in {"import", "export"} /\ DOMAIN request.explicit = End
        /\ disc.end \in End /\ disc.at \in 1..(Len(Layers) + 1)
        /\ DOMAIN found = End
        /\ edits \in Nat /\ events \in Nat
    BY DEF IInv, Discovery
  <2>2. pc \in {"host", "container", "read", "select", "run"} => cand.id = 1
    BY DEF IInv, Selected
  <2> QED
    BY <2>1, <2>2 DEF IInv, Held, TypeOK
<1> QED
  BY <1>1, Invariance, PTL

\* A helper is only ever started on the volumes that the inspected workstation
\* had (Run, recheck), whatever is removed and created meanwhile.
THEOREM StartedOnInspectedStorage == Spec => []RunsOnInspectedStorage
<1>1. IInv => RunsOnInspectedStorage
  BY DEF IInv, Held, RunsOnInspectedStorage
<1> QED
  BY <1>1, Invariance, PTL

\* For every set of mounts, the helper finds the Codex home and the databases in
\* the storage where the workstation has them (storageMounts, inspectTarget).
THEOREM HelperSeesSameStorage == Spec => []SameStorage
<1>1. IInv => SameStorage
  <2> SUFFICES ASSUME IInv, HelperPrepared, NEW p \in Needed
               PROVE  Storage(HelperView, p) = Storage(cand.mounts, p)
    BY DEF SameStorage
  <2> DEFINE t == Target(cand, target.sqlite, target.writable)
  <2>1. Selectable(cand, target.sqlite, target.writable) /\ target = t
    BY DEF IInv, Selected, HelperPrepared
  <2>2. p \in Path /\ Worked(p, target.sqlite)
    BY TargetAssumption DEF Needed, Worked
  <2>3. Storage(t.mounts \cup Blanks(cand, t), p) = Storage(cand.mounts, p)
    BY <2>1, <2>2, TargetStorage
  <2> HIDE DEF t
  <2>4. HelperView = t.mounts \cup Blanks(cand, t)
    BY <2>1 DEF HelperView, Blanks
  <2> QED
    BY <2>3, <2>4
<1> QED
  BY <1>1, Invariance, PTL

\* For every set of mounts, the helper has no more access than the workstation,
\* and sees nothing but the selected storage (target.go).
THEOREM HelperHasLeastAccess == Spec => []LeastAccess
<1>1. IInv => LeastAccess
  <2> DEFINE ms == target.mounts
             history == BaseMount(cand.mounts, CodexHome).dst
  <2> SUFFICES ASSUME IInv, HelperPrepared, NEW p \in Probe, Covering(ms, p) # {}
               PROVE  /\ p \in Needed /\ Writable(ms, p) => Writable(cand.mounts, p)
                      /\ ~Contains(history, p) =>
                            /\ Contains(target.sqlite, p)
                            /\ request.op = "export" => ~Writable(ms, p)
    BY DEF LeastAccess
  <2> DEFINE t == Target(cand, target.sqlite, target.writable)
  <2>1. /\ Selectable(cand, target.sqlite, target.writable) /\ target = t
        /\ target.writable = (request.op = "import")
    BY DEF IInv, Selected, HelperPrepared
  <2>2. p \in Path /\ (p \in Needed => Worked(p, target.sqlite))
    BY TargetAssumption DEF Needed, Worked
  <2>3. t.mounts = ms
    BY <2>1
  <2>4. /\ Worked(p, target.sqlite) /\ Writable(ms, p) => Writable(cand.mounts, p)
        /\ ~Contains(history, p) =>
             Contains(target.sqlite, p) /\ (~target.writable => ~Writable(ms, p))
    BY <2>1, <2>2, <2>3, TargetAccess
  <2>5. request.op = "export" => ~target.writable
    BY <2>1
  <2> QED
    BY <2>2, <2>4, <2>5
<1> QED
  BY <1>1, Invariance, PTL

-----------------------------------------------------------------------------
(* The discovery of the SQLite home.                                       *)

Configuration == [Layer \cup {"env"} -> Said]

FallbackOf(e, c) == IF c["env"] = None THEN Codex[e] ELSE Resolved(e, "env", c["env"])

\* Reference, for any configuration.
ReferenceOf(e, c) ==
    LET managed == {l \in {"requirements", "managed"} : c[l] # None}
        consulted == {"env"} \cup
                     (Layer \ IF managed = {} THEN {} ELSE {"project", "parent"})
    IN  IF \E l \in consulted : c[l] = Bad THEN None
        ELSE IF "managed" \in managed THEN Resolved(e, "managed", c["managed"])
        ELSE IF managed # {} THEN Resolved(e, "requirements", c["requirements"])
        ELSE IF c["project"] # None \/ c["parent"] # None THEN None
        ELSE IF c["user"] # None THEN Resolved(e, "user", c["user"])
        ELSE IF c["system"] # None THEN Resolved(e, "system", c["system"])
        ELSE FallbackOf(e, c)

\* What the discovery has when the layers before the one at place at were read
\* from configuration c.
PathAt(e, c, at) ==
    IF at > 4 /\ c["managed"] # None THEN Resolved(e, "managed", c["managed"])
    ELSE IF at > 3 /\ c["requirements"] # None
         THEN Resolved(e, "requirements", c["requirements"])
    ELSE IF at > 2 /\ c["user"] # None THEN Resolved(e, "user", c["user"])
    ELSE IF at > 1 /\ c["system"] # None THEN Resolved(e, "system", c["system"])
    ELSE FallbackOf(e, c)

ManagedAt(c, at) ==
    (at > 3 /\ c["requirements"] # None) \/ (at > 4 /\ c["managed"] # None)

\* Nothing that was read stopped the discovery.
Readable(c, at) ==
    /\ c["env"] # Bad
    /\ at > 1 => c["system"] # Bad
    /\ at > 2 => c["user"] # Bad
    /\ at > 3 => c["requirements"] # Bad
    /\ at > 4 => c["managed"] # Bad
    /\ at > 5 => c["project"] = None
    /\ at > 6 => c["parent"] = None

\* The layers by place.
LEMMA LayerNames ==
    /\ Len(Layers) = 6
    /\ Layers[1] = "system" /\ Layers[2] = "user" /\ Layers[3] = "requirements"
    /\ Layers[4] = "managed" /\ Layers[5] = "project" /\ Layers[6] = "parent"
    /\ Layer = {"system", "user", "requirements", "managed", "project", "parent"}
    /\ \A i, j \in 1..6 : Layers[i] = Layers[j] => i = j
<1>1. /\ Len(Layers) = 6
      /\ Layers[1] = "system" /\ Layers[2] = "user" /\ Layers[3] = "requirements"
      /\ Layers[4] = "managed" /\ Layers[5] = "project" /\ Layers[6] = "parent"
  BY DEF Layers
<1>2. \A i \in 1..6 : i = 1 \/ i = 2 \/ i = 3 \/ i = 4 \/ i = 5 \/ i = 6
  OBVIOUS
<1>3. Layer = {"system", "user", "requirements", "managed", "project", "parent"}
  BY <1>1, <1>2 DEF Layer
<1>4. \A i, j \in 1..6 : Layers[i] = Layers[j] => i = j
  BY <1>1, <1>2
<1> QED
  BY <1>1, <1>3, <1>4

\* The reference in force.
LEMMA ReferenceNow ==
    ASSUME NEW e \in End
    PROVE  Reference(e) = ReferenceOf(e, config[e]) /\ Fallback(e) = FallbackOf(e, config[e])
BY DEF Reference, ReferenceOf, Fallback, FallbackOf

\* One more layer.
LEMMA ReadAt ==
    ASSUME NEW e \in End, NEW c \in Configuration, NEW at \in 1..6, Readable(c, at),
           c[Layers[at]] # Bad, c[Layers[at]] # None => at <= 4
    PROVE  /\ Readable(c, at + 1)
           /\ PathAt(e, c, at + 1) =
                IF c[Layers[at]] # None /\ at <= 4 THEN Resolved(e, Layers[at], c[Layers[at]])
                ELSE PathAt(e, c, at)
           /\ ManagedAt(c, at + 1) <=>
                ManagedAt(c, at) \/ (c[Layers[at]] # None /\ at \in {3, 4})
<1>1. at = 1 \/ at = 2 \/ at = 3 \/ at = 4 \/ at = 5 \/ at = 6
  OBVIOUS
<1>2. Readable(c, at + 1)
  BY <1>1, LayerNames DEF Readable
<1>3. PathAt(e, c, at + 1) =
        IF c[Layers[at]] # None /\ at <= 4 THEN Resolved(e, Layers[at], c[Layers[at]])
        ELSE PathAt(e, c, at)
  BY <1>1, LayerNames DEF PathAt
<1>4. ManagedAt(c, at + 1) <=>
        ManagedAt(c, at) \/ (c[Layers[at]] # None /\ at \in {3, 4})
  BY <1>1, LayerNames DEF ManagedAt
<1> QED
  BY <1>2, <1>3, <1>4

\* All layers that count.
LEMMA EndAt ==
    ASSUME NEW e \in End, NEW c \in Configuration, NEW at \in 1..7, Readable(c, at),
           at = 7 \/ (at = 5 /\ ManagedAt(c, at))
    PROVE  PathAt(e, c, at) = ReferenceOf(e, c)
<1> DEFINE managed == {l \in {"requirements", "managed"} : c[l] # None}
           consulted == {"env"} \cup
                        (Layer \ IF managed = {} THEN {} ELSE {"project", "parent"})
<1>1. None # Bad
  BY TargetAssumption
<1>2. /\ c["env"] # Bad /\ c["system"] # Bad /\ c["user"] # Bad
      /\ c["requirements"] # Bad /\ c["managed"] # Bad
      /\ at = 7 => c["project"] = None /\ c["parent"] = None
  BY DEF Readable
<1>3. managed = {} <=> c["requirements"] = None /\ c["managed"] = None
  OBVIOUS
<1>4. at = 5 => managed # {}
  BY <1>3 DEF ManagedAt
<1>5. ~\E l \in consulted : c[l] = Bad
  <2>1. ASSUME NEW l \in consulted PROVE c[l] # Bad
    BY <1>1, <1>2, <1>4, LayerNames
  <2> QED
    BY <2>1
<1>6. "managed" \in managed <=> c["managed"] # None
  OBVIOUS
<1>7. ReferenceOf(e, c) =
        IF c["managed"] # None THEN Resolved(e, "managed", c["managed"])
        ELSE IF c["requirements"] # None THEN Resolved(e, "requirements", c["requirements"])
        ELSE IF c["project"] # None \/ c["parent"] # None THEN None
        ELSE IF c["user"] # None THEN Resolved(e, "user", c["user"])
        ELSE IF c["system"] # None THEN Resolved(e, "system", c["system"])
        ELSE FallbackOf(e, c)
  BY <1>3, <1>5, <1>6 DEF ReferenceOf
<1>8. CASE at = 7
  BY <1>2, <1>7, <1>8 DEF PathAt
<1>9. CASE at = 5 /\ ManagedAt(c, at)
  BY <1>7, <1>9 DEF PathAt, ManagedAt
<1> QED
  BY <1>8, <1>9

\* At most one file changed while the SQLite home of end e was discovered.
Unique(e) == \E l \in Layer : edited[e] \subseteq {l}

\* The discovery is what it would be in a configuration c that was in force: c is
\* the present one but for a file that was read and edited afterwards.
ReadFrom(e, c) ==
    /\ ReferenceOf(e, c) \in effective[e]
    /\ \A k \in (Layer \cup {"env"}) \ edited[e] : c[k] = config[e][k]
    /\ \A i \in 1..6 : disc.at <= i => c[Layers[i]] = config[e][Layers[i]]
    /\ Readable(c, disc.at)
    /\ disc.path = PathAt(e, c, disc.at)
    /\ disc.managed <=> ManagedAt(c, disc.at)

Consistent ==
    pc = "read" /\ Unique(disc.end) => \E c \in Configuration : ReadFrom(disc.end, c)

\* Ends are discovered one after the other.
Phases ==
    /\ edited \in [End -> SUBSET Layer] /\ DOMAIN effective = End
    /\ \A e \in End : IsFiniteSet(edited[e])
    /\ pc \in {"inspect", "host"} => \A e \in End : found[e] = None /\ edited[e] = {}
    /\ pc = "container" \/ (pc = "read" /\ disc.end = "host") =>
          found["container"] = None /\ edited["container"] = {}
    /\ pc = "read" => found[disc.end] = None

Answered ==
    \A e \in End : found[e] # None /\ request.explicit[e] = None /\ Unique(e) =>
        found[e] \in effective[e]

DInv == IInv /\ Phases /\ Consistent /\ Answered

\* A step that has nothing to do with the discovery.
LEMMA DiscoveryKept ==
    ASSUME DInv, UNCHANGED <<request, found, config, disc, effective, edited>>,
           \/ pc' = pc
           \/ pc' \notin {"inspect", "host", "container", "read"}
           \/ pc = "inspect" /\ pc' = "host"
    PROVE  Phases' /\ Consistent' /\ Answered'
<1>1. Phases'
  BY DEF DInv, Phases
<1>2. Consistent'
  <2>1. CASE pc' = pc
    BY <2>1 DEF DInv, Consistent, Unique, ReadFrom
  <2>2. CASE pc' # "read"
    BY <2>2 DEF Consistent
  <2> QED
    BY <2>1, <2>2
<1>3. Answered'
  BY DEF DInv, Answered, Unique
<1> QED
  BY <1>1, <1>2, <1>3

\* What holds of discovery when an invocation begins.
LEMMA BeginDiscovers ==
    ASSUME DInv, NEW e \in End, BeginDiscovery(e)
    PROVE  Phases' /\ Consistent' /\ Answered'
<1>0. Phases /\ Answered /\ Discovery
  BY DEF DInv, IInv
<1>1. /\ pc = e /\ UNCHANGED <<config, edited, request>>
      /\ found \in [End -> Path \cup {None}] /\ End = {"host", "container"}
  BY <1>0 DEF BeginDiscovery, Fail, Discovery, End
<1>2. found[e] = None /\ edited[e] = {}
  BY <1>0, <1>1 DEF Phases
<1>3. CASE request.explicit[e] # None
  <2>1. /\ found' = [found EXCEPT ![e] = request.explicit[e]]
        /\ pc' = IF e = "host" THEN "container" ELSE "select"
        /\ UNCHANGED <<disc, effective>>
    BY <1>3 DEF BeginDiscovery, Goto
  <2>2. Phases'
    BY <1>0, <1>1, <2>1 DEF Phases
  <2>3. Consistent'
    BY <2>1 DEF Consistent
  <2>4. Answered'
    BY <1>0, <1>1, <1>3, <2>1 DEF Answered, Unique
  <2> QED
    BY <2>2, <2>3, <2>4
<1>4. CASE Fail /\ UNCHANGED effective
  <2>1. pc' = "failed" /\ UNCHANGED <<request, found, disc>>
    BY <1>4 DEF Fail
  <2> QED
    BY <1>1, <1>4, <2>1, DiscoveryKept
<1>5. CASE /\ request.explicit[e] = None /\ config[e]["env"] # Bad
           /\ disc' = [end |-> e, at |-> 1, path |-> Fallback(e), managed |-> FALSE]
           /\ effective' = [effective EXCEPT ![e] = {Reference(e)}]
           /\ Goto("read")
           /\ UNCHANGED <<request, cand, found, target, helper>>
  <2>1. pc' = "read" /\ disc'.end = e /\ disc'.at = 1 /\ disc'.path = Fallback(e)
        /\ ~disc'.managed
    BY <1>5 DEF Goto
  <2>2. effective'[e] = {Reference(e)} /\ DOMAIN effective' = End
        /\ \A x \in End : x # e => effective'[x] = effective[x]
    BY <1>0, <1>5 DEF Phases
  <2>3. Phases'
    BY <1>0, <1>1, <1>2, <1>5, <2>1, <2>2 DEF Phases
  <2>4. ReadFrom(e, config[e])'
    <3> DEFINE c == config[e]
    <3>1. ReferenceOf(e, c) \in effective'[e]
      BY <2>2, ReferenceNow
    <3>2. Readable(c, 1)
      BY <1>5 DEF Readable
    <3>3. Fallback(e) = PathAt(e, c, 1) /\ ~ManagedAt(c, 1)
      BY ReferenceNow DEF PathAt, ManagedAt
    <3> QED
      BY <1>1, <2>1, <3>1, <3>2, <3>3 DEF ReadFrom
  <2>5. Consistent'
    <3>1. config' \in [End -> Configuration]
      BY <1>0, <1>1 DEF Discovery, Configuration
    <3> QED
      BY <2>1, <2>4, <3>1 DEF Consistent
  <2>6. Answered'
    BY <1>0, <1>1, <1>2, <1>5, <2>2 DEF Answered, Unique
  <2> QED
    BY <2>3, <2>5, <2>6
<1> QED
  BY <1>3, <1>4, <1>5 DEF BeginDiscovery

\* A layer is read as configuration c has it.
LEMMA ReadDiscovers ==
    ASSUME DInv, ReadLayer
    PROVE  Phases' /\ Consistent' /\ Answered'
<1> DEFINE e == disc.end
           at == disc.at
           value == config[e][Layers[at]]
<1>0. Phases /\ Consistent /\ Answered /\ Discovery
  BY DEF DInv, IInv
<1>1. /\ pc = "read" /\ e \in End /\ at \in 1..6
      /\ UNCHANGED <<request, found, config, effective, edited>>
  <2>1. disc \in [end : End, at : 1..7, path : Path, managed : BOOLEAN]
    BY <1>0, LayerNames DEF Discovery
  <2>2. ~(at > 6)
    BY LayerNames DEF ReadLayer, LayersDone
  <2> QED
    BY <2>1, <2>2 DEF ReadLayer, Fail, ghosts
<1>2. CASE Fail
  <2>1. pc' = "failed" /\ UNCHANGED disc
    BY <1>2 DEF Fail
  <2> QED
    BY <1>1, <2>1, DiscoveryKept
<1>3. CASE /\ value # Bad /\ ~(value # None /\ at > 4)
           /\ disc' = [disc EXCEPT
                 !.at = @ + 1,
                 !.path = IF value # None /\ Overrides(at)
                          THEN Resolved(e, Layers[at], value) ELSE @,
                 !.managed = @ \/ (value # None /\ at \in {3, 4})]
           /\ UNCHANGED pc
  <2>0. disc \in [end : End, at : 1..7, path : Path, managed : BOOLEAN]
    BY <1>0, LayerNames DEF Discovery
  <2>1. /\ disc'.end = e /\ disc'.at = at + 1
        /\ disc'.path = IF value # None /\ at <= 4
                        THEN Resolved(e, Layers[at], value) ELSE disc.path
        /\ disc'.managed <=> disc.managed \/ (value # None /\ at \in {3, 4})
    <3>1. disc'.end = e /\ disc'.at = at + 1
      BY <1>3, <2>0
    <3>2. disc'.path = IF value # None /\ at <= 4
                       THEN Resolved(e, Layers[at], value) ELSE disc.path
      BY <1>3, <2>0 DEF Overrides
    <3>3. disc'.managed <=> disc.managed \/ (value # None /\ at \in {3, 4})
      BY <1>3, <2>0
    <3> QED
      BY <3>1, <3>2, <3>3
  <2>2. Phases'
    BY <1>0, <1>1, <1>3, <2>1 DEF Phases
  <2>3. Answered'
    BY <1>0, <1>1 DEF Answered, Unique
  <2>4. ASSUME Unique(e) PROVE \E c \in Configuration : ReadFrom(e, c)'
    <3>1. PICK c \in Configuration : ReadFrom(e, c)
      BY <1>0, <1>1, <2>4 DEF Consistent
    <3>2. /\ ReferenceOf(e, c) \in effective[e]
          /\ \A k \in (Layer \cup {"env"}) \ edited[e] : c[k] = config[e][k]
          /\ \A i \in 1..6 : at <= i => c[Layers[i]] = config[e][Layers[i]]
          /\ Readable(c, at) /\ disc.path = PathAt(e, c, at)
          /\ disc.managed <=> ManagedAt(c, at)
      BY <3>1 DEF ReadFrom
    <3>3. c[Layers[at]] = value
      BY <1>1, <3>2
    <3>4. /\ Readable(c, at + 1)
          /\ PathAt(e, c, at + 1) =
               IF value # None /\ at <= 4 THEN Resolved(e, Layers[at], value)
               ELSE PathAt(e, c, at)
          /\ ManagedAt(c, at + 1) <=> ManagedAt(c, at) \/ (value # None /\ at \in {3, 4})
      BY <1>1, <1>3, <3>2, <3>3, ReadAt
    <3>5. \A i \in 1..6 : at + 1 <= i => c[Layers[i]] = config[e][Layers[i]]
      BY <1>1, <3>2
    <3>6. ReadFrom(e, c)'
      BY <1>1, <2>1, <3>2, <3>4, <3>5 DEF ReadFrom
    <3> QED
      BY <3>6
  <2>5. Consistent'
    BY <1>1, <2>1, <2>4 DEF Consistent, Unique
  <2> QED
    BY <2>2, <2>3, <2>5
<1> QED
  BY <1>2, <1>3 DEF ReadLayer

\* What the discovery returns is the reference of configuration c.
LEMMA EndDiscovers ==
    ASSUME DInv, EndDiscovery
    PROVE  Phases' /\ Consistent' /\ Answered'
<1> DEFINE e == disc.end
           at == disc.at
<1>0. Phases /\ Consistent /\ Answered /\ Discovery
  BY DEF DInv, IInv
<1>1. /\ pc = "read" /\ LayersDone /\ End = {"host", "container"}
      /\ UNCHANGED <<request, config, effective, edited>>
      /\ disc \in [end : End, at : 1..7, path : Path, managed : BOOLEAN]
      /\ found \in [End -> Path \cup {None}]
  BY <1>0, LayerNames DEF EndDiscovery, Fail, ghosts, Discovery, End
<1>2. CASE Fail
  <2>1. pc' = "failed" /\ UNCHANGED <<found, disc>>
    BY <1>2 DEF Fail
  <2> QED
    BY <1>1, <2>1, DiscoveryKept
<1>3. CASE /\ found' = [found EXCEPT ![disc.end] = disc.path]
           /\ pc' = IF disc.end = "host" THEN "container" ELSE "select"
  <2>1. Phases'
    BY <1>0, <1>1, <1>3 DEF Phases
  <2>2. Consistent'
    BY <1>3 DEF Consistent
  <2>3. ASSUME Unique(e) PROVE disc.path \in effective[e]
    <3>1. PICK c \in Configuration : ReadFrom(e, c)
      BY <1>0, <1>1, <2>3 DEF Consistent
    <3>2. /\ ReferenceOf(e, c) \in effective[e]
          /\ Readable(c, at) /\ disc.path = PathAt(e, c, at)
          /\ disc.managed <=> ManagedAt(c, at)
      BY <3>1 DEF ReadFrom
    <3>3. e \in End /\ at \in 1..7 /\ (at = 7 \/ (at = 5 /\ ManagedAt(c, at)))
      BY <1>1, <3>2, LayerNames DEF LayersDone
    <3>4. PathAt(e, c, at) = ReferenceOf(e, c)
      BY <3>2, <3>3, EndAt
    <3> QED
      BY <3>2, <3>4
  <2>4. Answered'
    <3> SUFFICES ASSUME NEW x \in End, found'[x] # None, request.explicit[x] = None,
                        Unique(x)
                 PROVE  found'[x] \in effective[x]
      BY <1>1 DEF Answered, Unique
    <3>1. CASE x = e
      BY <1>1, <1>3, <2>3, <3>1
    <3>2. CASE x # e
      BY <1>0, <1>1, <1>3, <3>2 DEF Answered
    <3> QED
      BY <3>1, <3>2
  <2> QED
    BY <2>1, <2>2, <2>4
<1> QED
  BY <1>2, <1>3 DEF EndDiscovery, Goto

\* Configurations that agree on what was read give the same discovery.
LEMMA ReadAgree ==
    ASSUME NEW e \in End, NEW c, NEW d, NEW at \in 1..7, c["env"] = d["env"],
           \A i \in 1..6 : i < at => c[Layers[i]] = d[Layers[i]]
    PROVE  /\ Readable(c, at) <=> Readable(d, at)
           /\ PathAt(e, c, at) = PathAt(e, d, at)
           /\ ManagedAt(c, at) <=> ManagedAt(d, at)
<1>1. /\ at > 1 => c["system"] = d["system"]
      /\ at > 2 => c["user"] = d["user"]
      /\ at > 3 => c["requirements"] = d["requirements"]
      /\ at > 4 => c["managed"] = d["managed"]
      /\ at > 5 => c["project"] = d["project"]
      /\ at > 6 => c["parent"] = d["parent"]
  BY LayerNames
<1>2. FallbackOf(e, c) = FallbackOf(e, d)
  BY DEF FallbackOf
<1>3. Readable(c, at) <=> Readable(d, at)
  BY <1>1 DEF Readable
<1>4. PathAt(e, c, at) = PathAt(e, d, at)
  BY <1>1, <1>2 DEF PathAt
<1>5. ManagedAt(c, at) <=> ManagedAt(d, at)
  BY <1>1 DEF ManagedAt
<1> QED
  BY <1>3, <1>4, <1>5

\* A file edited before it is read belongs to the configuration that is read, one
\* edited afterwards does not.
LEMMA EditDiscovers ==
    ASSUME DInv, NEW e \in End, NEW l \in Layer, EditConfig(e, l)
    PROVE  Phases' /\ Consistent' /\ Answered'
<1> DEFINE at == disc.at
<1>0. Phases /\ Consistent /\ Answered /\ Discovery
  BY DEF DInv, IInv
<1>1. /\ found[e] = None /\ request.explicit[e] = None
      /\ UNCHANGED <<request, pc, disc, found>>
      /\ disc \in [end : End, at : 1..7, path : Path, managed : BOOLEAN]
      /\ config \in [End -> Configuration]
  BY <1>0, LayerNames DEF EditConfig, command, Discovery, Configuration
<1>2. PICK v : v \in Said /\ config' = [config EXCEPT ![e][l] = v]
  <2>1. PICK v \in (Setting[l] \cup {None, Bad}) \ {config[e][l]} :
            config' = [config EXCEPT ![e][l] = v]
    BY DEF EditConfig
  <2>2. v \in Said
    BY <2>1, TargetAssumption DEF Said
  <2> QED
    BY <2>1, <2>2
<1>3. /\ config' \in [End -> Configuration]
      /\ \A x \in End : x # e => config'[x] = config[x]
      /\ \A k \in Layer \cup {"env"} : k # l => config'[e][k] = config[e][k]
  BY <1>1, <1>2 DEF Configuration
<1>4. CASE ~(pc = "read" /\ disc.end = e)
  <2>1. UNCHANGED <<effective, edited>>
    BY <1>4 DEF EditConfig
  <2>2. Phases'
    BY <1>0, <1>1, <2>1 DEF Phases
  <2>3. Answered'
    BY <1>0, <1>1, <2>1 DEF Answered, Unique
  <2>4. pc = "read" => config'[disc.end] = config[disc.end]
    BY <1>1, <1>3, <1>4
  <2>5. Consistent'
    <3> SUFFICES ASSUME pc = "read", Unique(disc.end)
                 PROVE  \E c \in Configuration : ReadFrom(disc.end, c)'
      BY <1>1, <2>1 DEF Consistent, Unique
    <3>1. PICK c \in Configuration : ReadFrom(disc.end, c)
      BY <1>0 DEF Consistent
    <3>2. ReadFrom(disc.end, c)'
      BY <1>1, <2>1, <2>4, <3>1 DEF ReadFrom
    <3> QED
      BY <3>2
  <2> QED
    BY <2>2, <2>3, <2>5
<1>5. CASE pc = "read" /\ disc.end = e
  <2>1. /\ effective' = [effective EXCEPT ![e] = @ \cup {Reference(e)'}]
        /\ edited' = [edited EXCEPT ![e] = @ \cup {l}]
    BY <1>5 DEF EditConfig
  <2>2. /\ effective'[e] = effective[e] \cup {Reference(e)'} /\ DOMAIN effective' = End
        /\ edited'[e] = edited[e] \cup {l} /\ edited' \in [End -> SUBSET Layer]
        /\ \A x \in End : x # e => effective'[x] = effective[x] /\ edited'[x] = edited[x]
    BY <1>0, <2>1 DEF Phases
  <2>3. \A x \in End : IsFiniteSet(edited'[x])
    <3>1. IsFiniteSet(edited[e] \cup {l})
      BY <1>0, FS_AddElement DEF Phases
    <3> QED
      BY <1>0, <2>2, <3>1 DEF Phases
  <2>4. Phases'
    BY <1>0, <1>1, <1>5, <2>2, <2>3 DEF Phases, End
  <2>5. Answered'
    BY <1>0, <1>1, <2>2 DEF Answered, Unique
  <2>6. ASSUME Unique(e)' PROVE \E c \in Configuration : ReadFrom(e, c)'
    <3>1. edited[e] \subseteq {l} /\ edited'[e] = {l} /\ Unique(e)
      BY <2>2, <2>6 DEF Unique
    <3>2. PICK c \in Configuration : ReadFrom(e, c)
      BY <1>0, <1>5, <3>1 DEF Consistent
    <3>3. /\ ReferenceOf(e, c) \in effective[e]
          /\ \A k \in Layer \cup {"env"} : k # l => c[k] = config[e][k]
          /\ \A i \in 1..6 : at <= i => c[Layers[i]] = config[e][Layers[i]]
          /\ Readable(c, at) /\ disc.path = PathAt(e, c, at)
          /\ disc.managed <=> ManagedAt(c, at)
      BY <3>1, <3>2 DEF ReadFrom
    <3>4. PICK n \in 1..6 : l = Layers[n]
      BY LayerNames DEF Layer
    <3>5. \A i \in 1..6 : Layers[i] \in Layer /\ (i # n => Layers[i] # l)
      BY <3>4, LayerNames DEF Layer
    <3>6. CASE at <= n
      <4>0. PICK d \in Configuration : d = config'[e]
        BY <1>3
      <4>1. Reference(e)' = ReferenceOf(e, d)
        BY <4>0 DEF Reference, ReferenceOf, Fallback, FallbackOf
      <4>2. \A k \in Layer \cup {"env"} : k # l => c[k] = d[k]
        BY <1>3, <3>3, <4>0
      <4>3. /\ c["env"] = d["env"]
            /\ \A i \in 1..6 : i < at => c[Layers[i]] = d[Layers[i]]
        <5>1. "env" # l
          BY LayerNames
        <5>2. at \in 1..7
          BY <1>1
        <5> QED
          BY <3>5, <3>6, <4>2, <5>1, <5>2
      <4>4. /\ Readable(d, at) /\ disc.path = PathAt(e, d, at)
            /\ disc.managed <=> ManagedAt(d, at)
        BY <1>1, <3>3, <4>3, ReadAgree
      <4>5. ReadFrom(e, d)'
        BY <1>1, <2>2, <4>0, <4>1, <4>4 DEF ReadFrom
      <4> QED
        BY <4>5
    <3>7. CASE n < at
      <4>1. \A i \in 1..6 : at <= i => c[Layers[i]] = config'[e][Layers[i]]
        <5>1. at \in 1..7
          BY <1>1
        <5> QED
          BY <1>3, <3>3, <3>5, <3>7, <5>1
      <4>2. \A k \in (Layer \cup {"env"}) \ edited'[e] : c[k] = config'[e][k]
        BY <1>3, <3>1, <3>3
      <4>3. ReadFrom(e, c)'
        BY <1>1, <2>2, <3>3, <4>1, <4>2 DEF ReadFrom
      <4> QED
        BY <4>3
    <3>8. at \in 1..7
      BY <1>1
    <3> QED
      BY <3>6, <3>7, <3>8
  <2>7. Consistent'
    BY <1>1, <1>5, <2>6 DEF Consistent
  <2> QED
    BY <2>4, <2>5, <2>7
<1> QED
  BY <1>4, <1>5

\* No invocation has discovered anything yet.
LEMMA InitDInv == Init => DInv
<1> SUFFICES ASSUME Init PROVE DInv
  OBVIOUS
<1>1. IInv
  BY InitIInv
<1>2. pc = "inspect" /\ \A e \in End : found[e] = None /\ edited[e] = {}
  BY DEF Init
<1>3. edited \in [End -> SUBSET Layer] /\ DOMAIN effective = End
  BY DEF Init
<1>4. Phases
  BY <1>2, <1>3, FS_EmptySet DEF Phases
<1> QED
  BY <1>1, <1>2, <1>4 DEF DInv, Consistent, Answered

\* Every step keeps what is known of the discovered configuration.
LEMMA NextDInv == DInv /\ [Next]_vars => DInv'
<1> SUFFICES ASSUME DInv, [Next]_vars PROVE DInv'
  OBVIOUS
<1>1. IInv'
  BY NextIInv DEF DInv
<1>2. ASSUME UNCHANGED <<request, found, config, disc, effective, edited>>,
             \/ pc' = pc
             \/ pc' \notin {"inspect", "host", "container", "read"}
             \/ pc = "inspect" /\ pc' = "host"
      PROVE  Phases' /\ Consistent' /\ Answered'
  BY <1>2, DiscoveryKept
<1>3. ASSUME InspectTarget PROVE Phases' /\ Consistent' /\ Answered'
  BY <1>2, <1>3 DEF InspectTarget, Fail, Goto
<1>4. ASSUME SelectTarget \/ FirstRecheck \/ SecondRecheck
      PROVE  Phases' /\ Consistent' /\ Answered'
  BY <1>2, <1>4 DEF SelectTarget, FirstRecheck, SecondRecheck, Fail, Goto, ghosts
<1>5. ASSUME CreateHelper \/ StartHelper PROVE Phases' /\ Consistent' /\ Answered'
  BY <1>2, <1>5 DEF CreateHelper, StartHelper, Goto, ghosts
<1>6. ASSUME CallFails PROVE Phases' /\ Consistent' /\ Answered'
  BY <1>2, <1>6 DEF CallFails, Fail, ghosts
<1>7. ASSUME \/ RemoveWorkstation \/ RecreateWorkstation \/ PauseWorkstation
             \/ \E v \in Volume : RemoveVolume(v)
             \/ UNCHANGED vars
      PROVE  Phases' /\ Consistent' /\ Answered'
  BY <1>2, <1>7 DEF RemoveWorkstation, RecreateWorkstation, PauseWorkstation,
     RemoveVolume, command, ghosts, vars
<1>8. ASSUME Step PROVE Phases' /\ Consistent' /\ Answered'
  BY <1>3, <1>4, <1>5, <1>8, BeginDiscovers, ReadDiscovers, EndDiscovers DEF Step
<1>9. ASSUME World PROVE Phases' /\ Consistent' /\ Answered'
  BY <1>6, <1>7, <1>9, EditDiscovers DEF World
<1> QED
  BY <1>1, <1>7, <1>8, <1>9 DEF DInv, Next, Finished

\* A discovered SQLite home was the one in force at some moment of the discovery
\* (SQLiteHome in sqlite.go), for any configuration and any number of edits of
\* one file.
THEOREM DiscoveredAsConfigured == Spec => []ResolvedAsConfigured
<1>1. DInv => ResolvedAsConfigured
  <2> SUFFICES ASSUME DInv, NEW e \in End, found[e] # None, request.explicit[e] = None,
                      Cardinality(edited[e]) <= 1
               PROVE  found[e] \in effective[e]
    BY DEF ResolvedAsConfigured
  <2>1. IsFiniteSet(edited[e]) /\ edited[e] \subseteq Layer
    BY DEF DInv, Phases
  <2>2. Cardinality(edited[e]) \in Nat
    BY <2>1, FS_CardinalityType
  <2>3. edited[e] = {} \/ \E x : edited[e] = {x}
    <3>1. Cardinality(edited[e]) = 0 \/ Cardinality(edited[e]) = 1
      BY <2>2
    <3>2. Cardinality(edited[e]) = 0 <=> edited[e] = {}
      BY <2>1, FS_EmptySet
    <3>3. Cardinality(edited[e]) = 1 <=> \E x : edited[e] = {x}
      BY <2>1, FS_Singleton
    <3> QED
      BY <3>1, <3>2, <3>3
  <2>4. Unique(e)
    BY <2>1, <2>3, LayerNames DEF Unique
  <2> QED
    BY <2>4 DEF DInv, Answered
<1>2. Spec => []DInv
  BY InitDInv, NextDInv, PTL DEF Spec
<1> QED
  BY <1>1, <1>2, PTL

=============================================================================
