-------------------------- MODULE PublicationProofs --------------------------
(***************************************************************************)
(* Proofs about Publication: the home stays typed, no history is lost or   *)
(* rewritten, a visible conversation always has what it inherits, the      *)
(* database never selects a file that is not there, and the home           *)
(* implements SessionStore.                                                *)
(*                                                                         *)
(* The argument follows one importer.  Its writer locks keep everybody     *)
(* else away from the rollouts of its plan (Guarded), so what it compared  *)
(* stays true until it acts on it (Working).  Files are therefore          *)
(* installed one after the other, ancestors first, and only the one being  *)
(* synced may differ from the disk (Durable), which closes the lineage on  *)
(* disk as well as in view.                                                *)
(***************************************************************************)
EXTENDS Publication, TLAPS

-----------------------------------------------------------------------------
(* What an importer knows about file i of its plan pl, having made the      *)
(* choices c, in a home.                                                    *)

Copy(home, pl, i, loc) == home[<<loc, pl.files[i].rollout>>]

\* Compatible, in any home.
Agrees(home, pl, i, loc) ==
    LET incoming == pl.files[i].content
        existing == Copy(home, pl, i, loc)
    IN  \/ existing = Absent
        \/ i # Last(pl) /\ IsPrefixOf(incoming, existing)
        \/ i = Last(pl) /\ existing = incoming
        \/ loc = "pre" /\ IsPrefixOf(existing, incoming)

\* The file was compared and nothing has been done about it yet.
Pending(home, pl, c, i) ==
    /\ \A loc \in Loc : Agrees(home, pl, i, loc)
    /\ c.old[i] = Copy(home, pl, i, "pre")
    /\ i \in c.extend <=> /\ Copy(home, pl, i, "pre") # Absent
                          /\ Len(Copy(home, pl, i, "pre")) < Len(pl.files[i].content)
    /\ i \in c.exists <=> \/ Copy(home, pl, i, "full") # Absent
                          \/ i # Last(pl) /\ Copy(home, pl, i, "pre") # Absent

\* Its managed prefix has been replaced by the longer one.
Grown(home, pl, c, i) ==
    /\ Copy(home, pl, i, "pre") = pl.files[i].content
    /\ c.old[i] # Absent
    /\ IsPrefixOf(c.old[i], pl.files[i].content)
    /\ Agrees(home, pl, i, "full")
    /\ i \in c.exists <=> i # Last(pl) \/ Copy(home, pl, i, "full") # Absent

\* It has just been linked.
Linked(home, pl, i) ==
    /\ home[Destination(pl, i)] = pl.files[i].content
    /\ IF i = Last(pl)
       THEN IsPrefixOf(Copy(home, pl, i, "pre"), pl.files[i].content)
       ELSE Copy(home, pl, i, "full") = Absent

\* It is in place: some copy of an ancestor, and every copy covers the cutoff.
Placed(home, pl, i) ==
    IF i = Last(pl) THEN VisibleIn(home, pl)
    ELSE /\ \E loc \in Loc : Copy(home, pl, i, loc) # Absent
         /\ \A loc \in Loc : \/ Copy(home, pl, i, loc) = Absent
                             \/ IsPrefixOf(pl.files[i].content, Copy(home, pl, i, loc))

Finishing == {"commit", "confirm", "rereserve", "recommit"}

\* What an importer at point l, working on file k, knows of file i.
Knows(home, l, pl, k, c, i) ==
    /\ i > k \/ (i = k /\ l \in {"reserve", "file"}) => Pending(home, pl, c, i)
    /\ i = k /\ l \in {"syncPrefix", "link"} => Grown(home, pl, c, i)
    /\ i = k /\ l = "syncLink" => Linked(home, pl, i)
    /\ i < k \/ (i = k /\ l \in Finishing) => Placed(home, pl, i)

-----------------------------------------------------------------------------
(* The inductive invariant.                                                *)

Choice == [extend : SUBSET Nat, exists : SUBSET Nat, promoted : BOOLEAN,
           repair : Place \cup {None}, old : Seq(Seq(Record))]

Control ==
    /\ at \in [Proc -> Nat]
    /\ choice \in [Proc -> Choice]
    /\ \A p \in Proc : pc[p] \in {"idle", "check", "reserve"} => at[p] = 1
    /\ \A p \in Proc : pc[p] \in Finishing => at[p] = Last(plan[p])

\* Writer locks: the importers and native Codex exclude each other.
Guarded ==
    /\ \A p \in Proc : guards[p] = IF pc[p] = "idle" THEN {} ELSE Ids(plan[p])
    /\ \A p, q \in Proc : p # q => guards[p] \cap guards[q] = {}
    /\ \A p \in Proc : guards[p] \cap loaded = {}

\* A repair holds the database from its first file to the commit.
Reserved ==
    \A p \in Proc :
        /\ pc[p] = "reserve" => choice[p].repair # None
        /\ dbTx = p <=> \/ /\ pc[p] \in {"file", "syncPrefix", "link", "syncLink"}
                           /\ choice[p].repair # None
                        \/ pc[p] \in {"commit", "recommit"}

Working ==
    \A p \in Proc : pc[p] \notin {"idle", "check"} =>
        \A i \in Indices(plan[p]) : Knows(live, pc[p], plan[p], at[p], choice[p], i)

\* p has changed place and not synced it yet.
Unsynced(p, place) ==
    \/ /\ pc[p] = "syncPrefix"
       /\ place = <<"pre", plan[p].files[at[p]].rollout>>
       /\ liveD[place] = choice[p].old[at[p]]
    \/ /\ pc[p] = "syncLink"
       /\ place = Destination(plan[p], at[p])
       /\ liveD[place] = Absent

\* Until something is interrupted, only a file in work differs from the disk.
Durable ==
    interrupts = 0 =>
        \A place \in Place :
            liveD[place] = live[place] \/ \E p \in Proc : Unsynced(p, place)

Closed(home) == \A pl \in Plans : VisibleIn(home, pl) => InheritsIn(home, pl)
Kept(home) == \A pl \in confirmed : VisibleIn(home, pl)

Resumable ==
    /\ Closed(live) /\ Kept(live)
    /\ interrupts = 0 => Closed(liveD) /\ Kept(liveD)

Scanned == \A place \in index.found : live[place] # Absent

IInv ==
    /\ TypeOK /\ Control /\ Guarded /\ Reserved /\ Working /\ Durable
    /\ Resumable /\ Scanned /\ NoDanglingSelection

-----------------------------------------------------------------------------
(* Prefixes of histories.                                                  *)

History == Seq(Record)

\* The length of a history.
LEMMA HistoryLength ==
    ASSUME NEW s \in History
    PROVE  Len(s) \in Nat
BY DEF History

\* A prefix, record by record.
LEMMA PrefixByRecord ==
    ASSUME NEW s \in History, NEW t \in History
    PROVE  IsPrefixOf(s, t) <=> /\ Len(s) <= Len(t)
                                /\ \A k \in 1..Len(s) : s[k] = t[k]
<1>1. ASSUME Len(s) <= Len(t)
      PROVE  /\ SubSeq(t, 1, Len(s)) \in History
             /\ Len(SubSeq(t, 1, Len(s))) = Len(s)
             /\ \A k \in 1..Len(s) : SubSeq(t, 1, Len(s))[k] = t[k]
    BY <1>1 DEF History
<1>2. ASSUME Len(s) <= Len(t), \A k \in 1..Len(s) : s[k] = t[k]
      PROVE  s = SubSeq(t, 1, Len(s))
    BY <1>1, <1>2 DEF History
<1>3. ASSUME Len(s) <= Len(t), s = SubSeq(t, 1, Len(s))
      PROVE  \A k \in 1..Len(s) : s[k] = t[k]
    BY <1>1, <1>3
<1> QED
    BY <1>2, <1>3 DEF IsPrefixOf

\* Every history extends itself and the absent one.
LEMMA PrefixReflexive ==
    ASSUME NEW s \in History
    PROVE  IsPrefixOf(s, s) /\ IsPrefixOf(Absent, s) /\ Absent \in History
<1>1. Absent \in History /\ Len(Absent) = 0 /\ Len(s) \in Nat
    BY DEF Absent, History
<1> QED
    BY <1>1, PrefixByRecord

\* Extending twice is extending.
LEMMA PrefixTransitive ==
    ASSUME NEW s \in History, NEW t \in History, NEW u \in History,
           IsPrefixOf(s, t), IsPrefixOf(t, u)
    PROVE  IsPrefixOf(s, u)
<1>1. Len(s) \in Nat /\ Len(t) \in Nat /\ Len(u) \in Nat
    BY DEF History
<1> QED
    BY <1>1, PrefixByRecord

\* What extends a history that is there is there.
LEMMA PrefixPresent ==
    ASSUME NEW s \in History, NEW t \in History, IsPrefixOf(s, t), s # Absent
    PROVE  t # Absent
<1>1. Len(s) \in Nat /\ Len(s) # 0
    BY DEF History, Absent
<1>2. Len(s) <= Len(t)
    BY DEF IsPrefixOf
<1> QED
    BY <1>1, <1>2 DEF Absent

\* A prefix that is not shorter is the whole.
LEMMA PrefixWhole ==
    ASSUME NEW s \in History, NEW t \in History, IsPrefixOf(s, t),
           ~(Len(s) < Len(t))
    PROVE  s = t
<1>1. Len(s) \in Nat /\ Len(t) \in Nat /\ Len(s) = Len(t)
    BY DEF History, IsPrefixOf
<1>2. \A k \in 1..Len(s) : s[k] = t[k]
    BY PrefixByRecord
<1> QED
    BY <1>1, <1>2 DEF History

\* An appended record extends a history; what does not contain the record and
\* is a prefix afterwards was one before.
LEMMA PrefixAppend ==
    ASSUME NEW s \in History, NEW x \in Record
    PROVE  /\ Append(s, x) \in History /\ Append(s, x) # Absent
           /\ IsPrefixOf(s, Append(s, x))
           /\ \A c \in History :
                 (IsPrefixOf(c, Append(s, x)) /\ \A k \in 1..Len(c) : c[k] # x) =>
                     IsPrefixOf(c, s)
<1> DEFINE a == Append(s, x)
<1>1. /\ a \in History /\ Len(s) \in Nat /\ Len(a) = Len(s) + 1
      /\ \A k \in 1..Len(s) : a[k] = s[k]
      /\ a[Len(s) + 1] = x
    BY DEF History
<1>2. a # Absent
    BY <1>1 DEF Absent
<1> HIDE DEF a
<1>3. IsPrefixOf(s, a)
    BY <1>1, PrefixByRecord
<1>4. ASSUME NEW c \in History, IsPrefixOf(c, a), \A k \in 1..Len(c) : c[k] # x
      PROVE  IsPrefixOf(c, s)
    <2>1. Len(c) \in Nat /\ Len(c) <= Len(a) /\ \A k \in 1..Len(c) : c[k] = a[k]
        BY <1>1, <1>4, PrefixByRecord DEF History
    <2>2. Len(c) # Len(s) + 1
        BY <2>1, <1>1, <1>4
    <2> QED
        BY <2>1, <2>2, <1>1, PrefixByRecord
<1> QED
    BY <1>1, <1>2, <1>3, <1>4 DEF a

-----------------------------------------------------------------------------
(* Plans.                                                                  *)

\* The shape of a plan.
LEMMA PlanShape ==
    ASSUME NEW pl \in Plans
    PROVE  /\ pl.thread \in Thread /\ pl # None
           /\ Last(pl) \in Nat /\ Last(pl) >= 1
           /\ Last(pl) \in Indices(pl) /\ 1 \in Indices(pl)
           /\ Indices(pl) \subseteq Nat
           /\ \A i \in Indices(pl) :
                 /\ pl.files[i].rollout \in Rollout
                 /\ pl.files[i].content \in History
                 /\ pl.files[i].content # Absent
                 /\ ThreadOf[pl.files[i].rollout] \in Thread
                 /\ pl.files[i].rollout \in Ids(pl)
                 /\ ThreadOf[pl.files[i].rollout] \in Ids(pl)
           /\ pl.files[Last(pl)] = Main(pl)
           /\ ThreadOf[Main(pl).rollout] = pl.thread
           /\ Ids(pl) \in SUBSET (Thread \cup Rollout)
<1> DEFINE F == [rollout : Rollout, content : Seq(Record)]
<1>1. /\ pl \in [thread : Thread, files : Seq(F)]
      /\ pl.files # <<>> /\ pl # None
      /\ ThreadOf[pl.files[Len(pl.files)].rollout] = pl.thread
      /\ \A i \in 1..Len(pl.files) : pl.files[i].content # Absent
      /\ ThreadOf \in [Rollout -> Thread]
    BY PublicationAssumption
<1>2. pl.thread \in Thread /\ pl.files \in Seq(F)
    BY <1>1
<1>3. Last(pl) \in Nat /\ Last(pl) >= 1 /\ \A i \in Indices(pl) : pl.files[i] \in F
    <2> HIDE DEF F
    <2>1. Len(pl.files) \in Nat /\ Len(pl.files) # 0
        BY <1>1, <1>2
    <2>2. \A i \in 1..Len(pl.files) : pl.files[i] \in F
        BY <1>2
    <2> QED
        BY <2>1, <2>2 DEF Last, Indices
<1>4. \A i \in Indices(pl) :
          /\ pl.files[i].rollout \in Rollout
          /\ pl.files[i].content \in History
          /\ pl.files[i].content # Absent
          /\ ThreadOf[pl.files[i].rollout] \in Thread
    BY <1>1, <1>3 DEF History, Indices, Last
<1>5. \A i \in Indices(pl) : /\ pl.files[i].rollout \in Ids(pl)
                             /\ ThreadOf[pl.files[i].rollout] \in Ids(pl)
    BY DEF Ids
<1>6. Ids(pl) \in SUBSET (Thread \cup Rollout)
    BY <1>4 DEF Ids
<1>7. Last(pl) \in Indices(pl) /\ 1 \in Indices(pl) /\ Indices(pl) \subseteq Nat
    BY <1>3 DEF Indices
<1> QED
    BY <1>1, <1>2, <1>3, <1>4, <1>5, <1>6, <1>7 DEF Main, Last

\* Destinations of a plan are places.
LEMMA Places ==
    /\ \A loc \in Loc, r \in Rollout :
          <<loc, r>> \in Place /\ <<loc, r>>[1] = loc /\ <<loc, r>>[2] = r
    /\ \A place \in Place :
          place = <<place[1], place[2]>> /\ place[1] \in Loc /\ place[2] \in Rollout
    /\ None \notin Place
    /\ \A pl \in Plans : \A i \in Indices(pl) :
          /\ Destination(pl, i) \in Place
          /\ Destination(pl, i)[2] = pl.files[i].rollout
          /\ Destination(pl, i) =
                 <<IF i = Last(pl) THEN "full" ELSE "pre", pl.files[i].rollout>>
          /\ MainPlace(pl) = <<"full", Main(pl).rollout>>
          /\ MainPlace(pl) \in Place
<1>1. \A loc \in Loc, r \in Rollout :
          <<loc, r>> \in Place /\ <<loc, r>>[1] = loc /\ <<loc, r>>[2] = r
    BY DEF Place
<1>2. \A place \in Place :
          place = <<place[1], place[2]>> /\ place[1] \in Loc /\ place[2] \in Rollout
    BY DEF Place
<1>3. None \notin Place
    BY PublicationAssumption
<1>4. ASSUME NEW pl \in Plans, NEW i \in Indices(pl)
      PROVE  /\ Destination(pl, i) \in Place
             /\ Destination(pl, i)[2] = pl.files[i].rollout
             /\ Destination(pl, i) =
                    <<IF i = Last(pl) THEN "full" ELSE "pre", pl.files[i].rollout>>
             /\ MainPlace(pl) = <<"full", Main(pl).rollout>>
             /\ MainPlace(pl) \in Place
    BY <1>1, PlanShape DEF Destination, MainPlace, Main, Loc
<1> QED
    BY <1>1, <1>2, <1>3, <1>4

-----------------------------------------------------------------------------
(* Homes.                                                                  *)

Home == [Place -> History]

\* An ancestor of a plan, seen as InheritsIn and as Placed see it.
LEMMA InheritsByPlace ==
    ASSUME NEW home \in Home, NEW pl \in Plans
    PROVE  InheritsIn(home, pl) <=>
               \A i \in Indices(pl) \ {Last(pl)} : Placed(home, pl, i)
<1> DEFINE copies(i) == {home[<<loc, pl.files[i].rollout>>] : loc \in Loc} \ {Absent}
<1> SUFFICES ASSUME NEW i \in Indices(pl) \ {Last(pl)}
             PROVE  (/\ copies(i) # {}
                     /\ \A c \in copies(i) : IsPrefixOf(pl.files[i].content, c))
                    <=> Placed(home, pl, i)
    BY Zenon DEF InheritsIn
<1>1. i # Last(pl)
    OBVIOUS
<1>2. copies(i) # {} <=> \E loc \in Loc : Copy(home, pl, i, loc) # Absent
    BY DEF Copy
<1>3. (\A c \in copies(i) : IsPrefixOf(pl.files[i].content, c)) <=>
      \A loc \in Loc : \/ Copy(home, pl, i, loc) = Absent
                       \/ IsPrefixOf(pl.files[i].content, Copy(home, pl, i, loc))
    BY DEF Copy
<1> QED
    BY <1>1, <1>2, <1>3, Zenon DEF Placed

\* What a home says of a plan depends on the copies of its rollouts only.
LEMMA Untouched ==
    ASSUME NEW pl \in Plans, NEW home, NEW other, NEW l, NEW k, NEW c,
           \A i \in Indices(pl), loc \in Loc :
               other[<<loc, pl.files[i].rollout>>] = home[<<loc, pl.files[i].rollout>>]
    PROVE  /\ VisibleIn(other, pl) <=> VisibleIn(home, pl)
           /\ \A i \in Indices(pl) :
                 /\ \A loc \in Loc : Copy(other, pl, i, loc) = Copy(home, pl, i, loc)
                 /\ other[Destination(pl, i)] = home[Destination(pl, i)]
                 /\ Placed(other, pl, i) <=> Placed(home, pl, i)
                 /\ Knows(other, l, pl, k, c, i) <=> Knows(home, l, pl, k, c, i)
<1>1. \A i \in Indices(pl) : \A loc \in Loc : Copy(other, pl, i, loc) = Copy(home, pl, i, loc)
    BY DEF Copy
<1>2. \A i \in Indices(pl) : other[Destination(pl, i)] = home[Destination(pl, i)]
    BY DEF Destination, Loc
<1>3. VisibleIn(other, pl) <=> VisibleIn(home, pl)
    BY <1>2, PlanShape DEF VisibleIn, MainPlace
<1>4. ASSUME NEW i \in Indices(pl)
      PROVE  /\ Placed(other, pl, i) <=> Placed(home, pl, i)
             /\ Knows(other, l, pl, k, c, i) <=> Knows(home, l, pl, k, c, i)
    <2>1. "pre" \in Loc /\ "full" \in Loc
        BY DEF Loc
    <2>2. \A loc \in Loc : Agrees(other, pl, i, loc) <=> Agrees(home, pl, i, loc)
        BY <1>1 DEF Agrees
    <2>3. Placed(other, pl, i) <=> Placed(home, pl, i)
        BY <1>1, <1>3 DEF Placed
    <2>4. Linked(other, pl, i) <=> Linked(home, pl, i)
        BY <1>1, <1>2, <2>1 DEF Linked
    <2>5. Grown(other, pl, c, i) <=> Grown(home, pl, c, i)
        BY <1>1, <2>1, <2>2 DEF Grown
    <2>6. Pending(other, pl, c, i) <=> Pending(home, pl, c, i)
        BY <1>1, <2>1, <2>2 DEF Pending
    <2> QED
        BY <2>3, <2>4, <2>5, <2>6, Zenon DEF Knows
<1> QED
    BY <1>1, <1>2, <1>3, <1>4

\* A step of a home at one place: the file there grows, or a new one extends the
\* other copy of the rollout; a conversation that becomes visible by it already
\* had what it inherits.
Grows(home, place, new) ==
    /\ place \in Place /\ new \in History /\ new # Absent
    /\ IsPrefixOf(home[place], new)
    /\ home[place] = Absent =>
           \A loc \in Loc : IsPrefixOf(home[<<loc, place[2]>>], new)
    /\ \A pl \in Plans :
           MainPlace(pl) = place /\ IsPrefixOf(Main(pl).content, new) =>
               VisibleIn(home, pl) \/ InheritsIn(home, pl)

\* Such a step loses no conversation.
LEMMA GrowKeeps ==
    ASSUME NEW home \in Home, NEW place, NEW new, Grows(home, place, new),
           NEW pl \in Plans, VisibleIn(home, pl)
    PROVE  VisibleIn([home EXCEPT ![place] = new], pl)
<1> DEFINE next == [home EXCEPT ![place] = new]
<1>1. MainPlace(pl) \in Place /\ Main(pl).content \in History
    BY Places, PlanShape
<1>2. place \in Place /\ new \in History /\ IsPrefixOf(home[place], new)
    BY DEF Grows
<1>3. CASE MainPlace(pl) = place
    <2>1. IsPrefixOf(Main(pl).content, home[place]) /\ home[place] \in History
        BY <1>2, <1>3 DEF VisibleIn, Home
    <2>2. IsPrefixOf(Main(pl).content, new)
        BY <2>1, <1>1, <1>2, PrefixTransitive
    <2> QED
        BY <2>2, <1>2, <1>3 DEF VisibleIn, Home
<1>4. CASE MainPlace(pl) # place
    BY <1>1, <1>4 DEF VisibleIn, Home
<1> QED
    BY <1>3, <1>4

\* And it keeps every lineage closed.
LEMMA GrowCloses ==
    ASSUME NEW home \in Home, NEW place, NEW new, Grows(home, place, new),
           Closed(home)
    PROVE  Closed([home EXCEPT ![place] = new])
<1> DEFINE next == [home EXCEPT ![place] = new]
<1>1. place \in Place /\ new \in History /\ new # Absent /\ next \in Home
    BY DEF Grows, Home
<1>2. \A q \in Place : next[q] = IF q = place THEN new ELSE home[q]
    BY DEF Home
<1> HIDE DEF next
<1> SUFFICES ASSUME NEW pl \in Plans, VisibleIn(next, pl)
             PROVE  InheritsIn(next, pl)
    BY DEF Closed, next
<1>3. InheritsIn(home, pl)
    <2>1. CASE MainPlace(pl) = place
        <3>1. IsPrefixOf(Main(pl).content, new)
            BY <1>1, <1>2, <2>1 DEF VisibleIn
        <3>2. VisibleIn(home, pl) \/ InheritsIn(home, pl)
            BY <3>1, <2>1 DEF Grows
        <3> QED
            BY <3>2 DEF Closed
    <2>2. CASE MainPlace(pl) # place
        <3>1. VisibleIn(home, pl)
            BY <1>2, <2>2, Places, PlanShape DEF VisibleIn
        <3> QED
            BY <3>1 DEF Closed
    <2> QED
        BY <2>1, <2>2
<1>4. ASSUME NEW i \in Indices(pl) \ {Last(pl)}
      PROVE  Placed(next, pl, i)
    <2> DEFINE r == pl.files[i].rollout
               content == pl.files[i].content
    <2>1. r \in Rollout /\ content \in History
        BY PlanShape
    <2>2. Placed(home, pl, i)
        BY <1>3, InheritsByPlace
    <2>3. /\ \E loc \in Loc : home[<<loc, r>>] # Absent
          /\ \A loc \in Loc : \/ home[<<loc, r>>] = Absent
                              \/ IsPrefixOf(content, home[<<loc, r>>])
        BY <2>2 DEF Placed, Copy
    <2>4. \A loc \in Loc : <<loc, r>> \in Place /\ home[<<loc, r>>] \in History
        BY <2>1, Places DEF Home
    <2> HIDE DEF r, content
    <2>5. \E loc \in Loc : next[<<loc, r>>] # Absent
        BY <2>3, <2>4, <1>1, <1>2
    <2>6. ASSUME NEW loc \in Loc
          PROVE  next[<<loc, r>>] = Absent \/ IsPrefixOf(content, next[<<loc, r>>])
        <3>1. CASE <<loc, r>> # place
            BY <3>1, <2>3, <2>4, <1>2
        <3>2. CASE <<loc, r>> = place
            <4>1. place[2] = r
                BY <3>2, <2>1, Places DEF r
            <4>2. PICK old \in Loc : /\ IsPrefixOf(content, home[<<old, r>>])
                                     /\ IsPrefixOf(home[<<old, r>>], new)
                <5>1. CASE home[place] = Absent
                    <6>1. PICK old \in Loc : home[<<old, r>>] # Absent
                        BY <2>3
                    <6>2. IsPrefixOf(home[<<old, r>>], new)
                        BY <5>1, <4>1 DEF Grows
                    <6> QED
                        BY <6>1, <6>2, <2>3
                <5>2. CASE home[place] # Absent
                    BY <5>2, <3>2, <2>3 DEF Grows
                <5> QED
                    BY <5>1, <5>2
            <4>3. IsPrefixOf(content, new)
                BY <4>2, <2>1, <2>4, <1>1, PrefixTransitive DEF content
            <4> QED
                BY <4>3, <3>2, <1>1, <1>2
        <3> QED
            BY <3>1, <3>2
    <2>7. i # Last(pl)
        OBVIOUS
    <2> QED
        BY <2>5, <2>6, <2>7 DEF Placed, Copy, r, content
<1> QED
    BY <1>1, <1>4, InheritsByPlace

-----------------------------------------------------------------------------
(* How an importer moves: its own control, and nobody else's.               *)

Returned(p) ==
    /\ pc'[p] = "idle" /\ plan'[p] = None /\ at'[p] = 1
    /\ choice'[p] = NoChoice /\ guards'[p] = {}
    /\ dbTx' = IF dbTx = p THEN None ELSE dbTx

Acquired(p, pl) ==
    /\ pc[p] = "idle" /\ pc'[p] = "check"
    /\ plan'[p] = pl /\ at'[p] = at[p] /\ choice'[p] = choice[p]
    /\ guards'[p] = Ids(pl)
    /\ Ids(pl) \cap (loaded \cup UNION {guards[q] : q \in Proc}) = {}
    /\ dbTx' = dbTx

Compared(p) ==
    /\ pc[p] = "check" /\ ~Conflict(plan[p])
    /\ choice'[p] = Choices(plan[p])
    /\ pc'[p] = IF Repairs(plan[p]) THEN "reserve" ELSE "file"
    /\ plan'[p] = plan[p] /\ at'[p] = at[p] /\ guards'[p] = guards[p]
    /\ dbTx' = dbTx

\* A prerequisite was selected after all: it is to be repaired.
Reread(p) ==
    /\ pc[p] = "confirm" /\ pc'[p] = "rereserve"
    /\ choice'[p] = [choice[p] EXCEPT !.repair = row[plan[p].thread]]
    /\ plan'[p] = plan[p] /\ at'[p] = at[p] /\ guards'[p] = guards[p]
    /\ dbTx' = dbTx

\* From one point to the next, on the same file.
Onward(p) ==
    \/ pc[p] = "reserve" /\ pc'[p] = "file" /\ dbTx = None /\ dbTx' = p
    \/ pc[p] = "rereserve" /\ pc'[p] = "recommit" /\ dbTx = None /\ dbTx' = p
    \/ /\ pc[p] = "file" /\ at[p] \in choice[p].extend
       /\ pc'[p] = "syncPrefix" /\ dbTx' = dbTx
    \/ pc[p] = "syncPrefix" /\ pc'[p] = "link" /\ dbTx' = dbTx
    \/ AtLink(p) /\ pc'[p] = "syncLink" /\ dbTx' = dbTx
    \/ pc[p] = "commit" /\ pc'[p] = "confirm" /\ dbTx' = None

\* File at[p] is in place.
Finished(p) == pc[p] = "syncLink" \/ (AtLink(p) /\ at[p] \in choice[p].exists)

\* The last file is in place: commit the repair, or confirm the selection.
Ending(p) ==
    /\ Finished(p) /\ at[p] = Last(plan[p])
    /\ pc'[p] = IF choice[p].repair # None THEN "commit" ELSE "confirm"
    /\ dbTx' = dbTx

Advanced(p) ==
    /\ plan'[p] = plan[p] /\ choice'[p] = choice[p] /\ guards'[p] = guards[p]
    /\ \/ at'[p] = at[p] /\ (Onward(p) \/ Ending(p))
       \/ /\ Finished(p) /\ at[p] < Last(plan[p])
          /\ at'[p] = at[p] + 1 /\ pc'[p] = "file" /\ dbTx' = dbTx

Moves(p) ==
    \/ Returned(p) \/ Compared(p) \/ Reread(p) \/ Advanced(p)
    \/ \E pl \in Plans : Acquired(p, pl)

\* Only the importer's own control changes.
Own(p) ==
    /\ pc' = [pc EXCEPT ![p] = pc'[p]]
    /\ plan' = [plan EXCEPT ![p] = plan'[p]]
    /\ at' = [at EXCEPT ![p] = at'[p]]
    /\ choice' = [choice EXCEPT ![p] = choice'[p]]
    /\ guards' = [guards EXCEPT ![p] = guards'[p]]
    /\ UNCHANGED <<loaded, index, failures>>

Frames == /\ pc \in [Proc -> PC] /\ plan \in [Proc -> Plans \cup {None}]
          /\ at \in [Proc -> Nat] /\ choice \in [Proc -> Choice]
          /\ guards \in [Proc -> SUBSET (Thread \cup Rollout)]

\* Return clears what the importer holds.
LEMMA ReturnMoves ==
    ASSUME Frames, NEW p \in Proc, Return(p), UNCHANGED <<loaded, index, failures>>
    PROVE  /\ Own(p) /\ pc'[p] = "idle" /\ plan'[p] = None /\ at'[p] = 1
           /\ choice'[p] = NoChoice /\ guards'[p] = {}
<1>1. /\ pc' = [pc EXCEPT ![p] = "idle"] /\ pc'[p] = "idle"
      /\ plan' = [plan EXCEPT ![p] = None] /\ plan'[p] = None
      /\ at' = [at EXCEPT ![p] = 1] /\ at'[p] = 1
    BY DEF Return, Frames
<1>2. /\ choice' = [choice EXCEPT ![p] = NoChoice] /\ choice'[p] = NoChoice
      /\ guards' = [guards EXCEPT ![p] = {}] /\ guards'[p] = {}
    BY DEF Return, Frames
<1> QED
    BY <1>1, <1>2 DEF Own

\* A failed step returns and gives the reservation back.
LEMMA FailMoves ==
    ASSUME Frames, NEW p \in Proc, Fail(p), UNCHANGED <<loaded, index, failures>>
    PROVE  Own(p) /\ Returned(p)
BY ReturnMoves DEF Fail, Release, Returned

\* A step along the plan.
LEMMA GotoMoves ==
    ASSUME Frames, NEW p \in Proc, NEW l, Goto(p, l),
           UNCHANGED <<plan, guards, loaded, index, failures>>
    PROVE  /\ pc'[p] = l /\ plan'[p] = plan[p] /\ guards'[p] = guards[p]
           /\ at' = at => at'[p] = at[p]
           /\ choice' = choice => choice'[p] = choice[p]
           /\ at' = at /\ choice' = choice => Own(p)
<1>1. pc' = [pc EXCEPT ![p] = l] /\ pc'[p] = l
    BY DEF Goto, Frames
<1>2. /\ plan' = [plan EXCEPT ![p] = plan'[p]]
      /\ guards' = [guards EXCEPT ![p] = guards'[p]]
    BY DEF Frames
<1>3. at' = at => at' = [at EXCEPT ![p] = at'[p]]
    BY DEF Frames
<1>4. choice' = choice => choice' = [choice EXCEPT ![p] = choice'[p]]
    BY DEF Frames
<1> QED
    BY <1>1, <1>2, <1>3, <1>4 DEF Own

\* The step after a file that is in place.
LEMMA NextFileMoves ==
    ASSUME Frames, Reserved, NEW p \in Proc, NextFile(p), Finished(p),
           at[p] \in Indices(plan[p]), plan[p] \in Plans, dbTx' = dbTx,
           UNCHANGED <<loaded, index, failures>>
    PROVE  /\ Own(p) /\ Moves(p)
           /\ \/ confirmed' = confirmed
              \/ /\ confirmed' = confirmed \cup {plan[p]}
                 /\ at[p] = Last(plan[p]) /\ choice[p].repair = None /\ ~Confirms(p)
<1>1. CASE at[p] < Last(plan[p])
    <2>1. /\ at' = [at EXCEPT ![p] = at[p] + 1] /\ Goto(p, "file")
          /\ UNCHANGED <<plan, choice, guards, confirmed>>
        BY <1>1 DEF NextFile
    <2>2. at'[p] = at[p] + 1 /\ at' = [at EXCEPT ![p] = at'[p]]
        BY <2>1 DEF Frames
    <2>3. choice' = [choice EXCEPT ![p] = choice'[p]] /\ choice'[p] = choice[p]
        BY <2>1 DEF Frames
    <2>4. pc'[p] = "file" /\ plan'[p] = plan[p] /\ guards'[p] = guards[p]
        BY <2>1, GotoMoves
    <2>5. Own(p)
        BY <2>1, <2>2, <2>3, <2>4 DEF Own, Goto, Frames
    <2> QED
        BY <1>1, <2>1, <2>2, <2>3, <2>4, <2>5 DEF Moves, Advanced
<1>2. CASE ~(at[p] < Last(plan[p])) /\ (choice[p].repair # None \/ Confirms(p))
    <2>1. /\ Goto(p, IF choice[p].repair # None THEN "commit" ELSE "confirm")
          /\ UNCHANGED <<plan, at, choice, guards, confirmed>>
        BY <1>2 DEF NextFile
    <2>2. /\ pc'[p] = IF choice[p].repair # None THEN "commit" ELSE "confirm"
          /\ plan'[p] = plan[p] /\ guards'[p] = guards[p]
          /\ at'[p] = at[p] /\ choice'[p] = choice[p] /\ Own(p)
        BY <2>1, GotoMoves
    <2>3. at[p] = Last(plan[p])
        BY <1>2, PlanShape DEF Indices
    <2> QED
        BY <2>1, <2>2, <2>3 DEF Moves, Advanced, Ending
<1>3. CASE ~(at[p] < Last(plan[p])) /\ ~(choice[p].repair # None \/ Confirms(p))
    <2>1. confirmed' = confirmed \cup {plan[p]} /\ Return(p)
        BY <1>3 DEF NextFile
    <2>2. /\ Own(p) /\ pc'[p] = "idle" /\ plan'[p] = None /\ at'[p] = 1
          /\ choice'[p] = NoChoice /\ guards'[p] = {}
        BY <2>1, ReturnMoves
    <2>3. at[p] = Last(plan[p])
        BY <1>3, PlanShape DEF Indices
    <2>4. dbTx # p
        BY <1>3 DEF Reserved, Finished, AtLink
    <2> QED
        BY <1>3, <2>1, <2>2, <2>3, <2>4 DEF Moves, Returned
<1> QED
    BY <1>1, <1>2, <1>3

\* Every step of an importer is a move of its own.
LEMMA ImporterMoves ==
    ASSUME TypeOK, Control, Reserved, NEW p \in Proc, Importer(p)
    PROVE  Own(p) /\ Moves(p)
<1>1. Frames
    BY DEF TypeOK, Control, Frames
<1>2. ASSUME pc[p] # "idle" PROVE plan[p] \in Plans /\ at[p] \in Indices(plan[p])
    BY <1>2 DEF TypeOK
<1>3. ASSUME NEW pl \in Plans, Acquire(p, pl) PROVE Own(p) /\ Moves(p)
    <2>1. /\ pc[p] = "idle" /\ Goto(p, "check") /\ dbTx' = dbTx
          /\ Ids(pl) \cap (loaded \cup UNION {guards[q] : q \in Proc}) = {}
          /\ guards' = [guards EXCEPT ![p] = Ids(pl)]
          /\ plan' = [plan EXCEPT ![p] = pl]
          /\ UNCHANGED <<at, choice, loaded, index, failures>>
        BY <1>3 DEF Acquire, dbVars, nativeVars
    <2>2. /\ pc' = [pc EXCEPT ![p] = "check"] /\ pc'[p] = "check"
          /\ guards'[p] = Ids(pl) /\ plan'[p] = pl
        BY <2>1, <1>1 DEF Goto, Frames
    <2>3. at' = [at EXCEPT ![p] = at'[p]] /\ choice' = [choice EXCEPT ![p] = choice'[p]]
        BY <2>1, <1>1 DEF Frames
    <2>4. Own(p)
        BY <2>1, <2>2, <2>3 DEF Own
    <2>5. Acquired(p, pl)
        BY <2>1, <2>2 DEF Acquired
    <2> QED
        BY <2>4, <2>5 DEF Moves
<1>4. ASSUME CheckConflicts(p) PROVE Own(p) /\ Moves(p)
    <2>1. pc[p] = "check" /\ UNCHANGED <<loaded, index, failures>>
        BY <1>4 DEF CheckConflicts, nativeVars
    <2>2. CASE Conflict(plan[p])
        BY <2>1, <2>2, <1>1, <1>4, FailMoves DEF CheckConflicts, Moves
    <2>3. CASE ~Conflict(plan[p])
        <3>1. /\ choice' = [choice EXCEPT ![p] = Choices(plan[p])]
              /\ Goto(p, IF Repairs(plan[p]) THEN "reserve" ELSE "file")
              /\ UNCHANGED <<plan, at, guards>> /\ dbTx' = dbTx
            BY <2>3, <1>4 DEF CheckConflicts, dbVars
        <3>2. choice'[p] = Choices(plan[p]) /\ choice' = [choice EXCEPT ![p] = choice'[p]]
            BY <3>1, <1>1 DEF Frames
        <3>3. /\ pc'[p] = IF Repairs(plan[p]) THEN "reserve" ELSE "file"
              /\ plan'[p] = plan[p] /\ guards'[p] = guards[p] /\ at'[p] = at[p]
            BY <3>1, <2>1, <1>1, GotoMoves
        <3>4. Own(p)
            BY <3>1, <3>2, <3>3, <2>1, <1>1 DEF Own, Goto, Frames
        <3>5. Compared(p)
            BY <3>1, <3>2, <3>3, <2>1, <2>3 DEF Compared
        <3> QED
            BY <3>4, <3>5 DEF Moves
    <2> QED
        BY <2>2, <2>3
<1>5. ASSUME BeginSelectionUpdate(p) PROVE Own(p) /\ Moves(p)
    <2>1. /\ pc[p] \in {"reserve", "rereserve"} /\ UNCHANGED <<loaded, index, failures>>
        BY <1>5 DEF BeginSelectionUpdate, nativeVars
    <2>2. CASE ~Reservable(p)
        BY <2>1, <2>2, <1>1, <1>5, FailMoves DEF BeginSelectionUpdate, Moves
    <2>3. CASE Reservable(p)
        <3>1. /\ Goto(p, IF pc[p] = "reserve" THEN "file" ELSE "recommit")
              /\ UNCHANGED <<plan, at, choice, guards>> /\ dbTx = None /\ dbTx' = p
            BY <2>3, <1>5 DEF BeginSelectionUpdate
        <3>2. /\ pc'[p] = IF pc[p] = "reserve" THEN "file" ELSE "recommit"
              /\ plan'[p] = plan[p] /\ guards'[p] = guards[p]
              /\ at'[p] = at[p] /\ choice'[p] = choice[p] /\ Own(p)
            BY <3>1, <2>1, <1>1, GotoMoves
        <3> QED
            BY <3>1, <3>2, <2>1 DEF Moves, Advanced, Onward
    <2> QED
        BY <2>2, <2>3
<1>6. ASSUME PublishPrefix(p) PROVE Own(p) /\ Moves(p)
    <2>1. /\ pc[p] = "file" /\ at[p] \in choice[p].extend
          /\ UNCHANGED <<loaded, index, failures>>
          /\ \/ Fail(p)
             \/ Goto(p, "syncPrefix") /\ UNCHANGED <<plan, at, choice, guards, dbTx>>
        BY <1>6 DEF PublishPrefix, nativeVars, dbVars
    <2>2. CASE Fail(p)
        BY <2>1, <2>2, <1>1, FailMoves DEF Moves
    <2>3. CASE Goto(p, "syncPrefix") /\ UNCHANGED <<plan, at, choice, guards, dbTx>>
        BY <2>1, <2>3, <1>1, GotoMoves DEF Moves, Advanced, Onward
    <2> QED
        BY <2>1, <2>2, <2>3
<1>7. ASSUME SyncPrefix(p) PROVE Own(p) /\ Moves(p)
    <2>1. /\ pc[p] = "syncPrefix" /\ UNCHANGED <<loaded, index, failures>>
          /\ Goto(p, "link") /\ UNCHANGED <<plan, at, choice, guards, dbTx>>
        BY <1>7 DEF SyncPrefix, nativeVars, dbVars
    <2> QED
        BY <2>1, <1>1, GotoMoves DEF Moves, Advanced, Onward
<1>8. ASSUME LinkFile(p) PROVE Own(p) /\ Moves(p)
    <2>1. /\ AtLink(p) /\ UNCHANGED <<loaded, index, failures>>
          /\ \/ Fail(p)
             \/ Goto(p, "syncLink") /\ UNCHANGED <<plan, at, choice, guards, dbTx>>
        BY <1>8 DEF LinkFile, nativeVars, dbVars
    <2>2. CASE Fail(p)
        BY <2>1, <2>2, <1>1, FailMoves DEF Moves
    <2>3. CASE Goto(p, "syncLink") /\ UNCHANGED <<plan, at, choice, guards, dbTx>>
        BY <2>1, <2>3, <1>1, GotoMoves DEF Moves, Advanced, Onward
    <2> QED
        BY <2>1, <2>2, <2>3
<1>9. ASSUME SyncLink(p) \/ ReuseFile(p) PROVE Own(p) /\ Moves(p)
    <2>1. /\ NextFile(p) /\ Finished(p) /\ pc[p] # "idle"
          /\ UNCHANGED <<loaded, index, failures, dbTx>>
        BY <1>9 DEF SyncLink, ReuseFile, Finished, AtLink, nativeVars, dbVars
    <2> QED
        BY <2>1, <1>1, <1>2, NextFileMoves
<1>10. ASSUME FinishUpdate(p) PROVE Own(p) /\ Moves(p)
    <2>1. /\ pc[p] \in {"commit", "recommit"} /\ UNCHANGED <<loaded, index, failures>>
          /\ dbTx' = None /\ dbTx = p
        BY <1>10 DEF FinishUpdate, nativeVars, Reserved
    <2>2. CASE pc[p] = "commit"
        <3>1. Goto(p, "confirm") /\ UNCHANGED <<plan, at, choice, guards>>
            BY <2>2, <1>10 DEF FinishUpdate
        <3> QED
            BY <3>1, <2>1, <2>2, <1>1, GotoMoves DEF Moves, Advanced, Onward
    <2>3. CASE pc[p] # "commit"
        <3>1. Return(p)
            BY <2>3, <1>10 DEF FinishUpdate
        <3> QED
            BY <3>1, <2>1, <1>1, ReturnMoves DEF Moves, Returned
    <2> QED
        BY <2>2, <2>3
<1>11. ASSUME FinishPublicationSelection(p) PROVE Own(p) /\ Moves(p)
    <2> DEFINE selected == row[plan[p].thread]
    <2>1. pc[p] = "confirm" /\ UNCHANGED <<loaded, index, failures>> /\ dbTx # p
        BY <1>11 DEF FinishPublicationSelection, nativeVars, Reserved
    <2>2. CASE selected \in {None, MainPlace(plan[p])}
        <3>1. Return(p) /\ dbTx' = dbTx
            BY <2>2, <1>11 DEF FinishPublicationSelection, dbVars
        <3> QED
            BY <3>1, <2>1, <1>1, ReturnMoves DEF Moves, Returned
    <2>3. CASE /\ selected \notin {None, MainPlace(plan[p])}
               /\ selected[1] = "pre" /\ ~Conflict(plan[p])
        <3>1. /\ choice' = [choice EXCEPT ![p].repair = selected]
              /\ Goto(p, "rereserve") /\ UNCHANGED <<plan, at, guards>> /\ dbTx' = dbTx
            BY <2>3, <1>11 DEF FinishPublicationSelection, dbVars
        <3>2. /\ choice'[p] = [choice[p] EXCEPT !.repair = selected]
              /\ choice' = [choice EXCEPT ![p] = choice'[p]]
            BY <3>1, <1>1 DEF Frames
        <3>3. /\ pc'[p] = "rereserve"
              /\ plan'[p] = plan[p] /\ guards'[p] = guards[p] /\ at'[p] = at[p]
            BY <3>1, <2>1, <1>1, GotoMoves
        <3>4. Own(p)
            BY <3>1, <3>2, <3>3, <2>1, <1>1 DEF Own, Goto, Frames
        <3> QED
            BY <3>1, <3>2, <3>3, <3>4, <2>1 DEF Moves, Reread
    <2>4. CASE /\ selected \notin {None, MainPlace(plan[p])}
               /\ ~(selected[1] = "pre" /\ ~Conflict(plan[p]))
        BY <2>1, <2>4, <1>1, <1>11, FailMoves DEF FinishPublicationSelection, Moves
    <2> QED
        BY <2>2, <2>3, <2>4
<1>12. ASSUME CommitUnknown(p) PROVE Own(p) /\ Moves(p)
    <2>1. /\ Return(p) /\ UNCHANGED <<loaded, index, failures>>
          /\ dbTx' = None /\ dbTx = p
        BY <1>12 DEF CommitUnknown, nativeVars, Reserved
    <2> QED
        BY <2>1, <1>1, ReturnMoves DEF Moves, Returned
<1>13. ASSUME Interrupt(p) PROVE Own(p) /\ Moves(p)
    BY <1>13, <1>1, FailMoves DEF Interrupt, Moves, nativeVars
<1> QED
    BY <1>3, <1>4, <1>5, <1>6, <1>7, <1>8, <1>9, <1>10, <1>11, <1>12, <1>13
    DEF Importer, Progress

-----------------------------------------------------------------------------
(* Control, locks and the reservation.                                      *)

\* Steps that belong to no importer leave the importers alone.
LEMMA NativeFrame ==
    ASSUME Native \/ (\E place \in Place : WriteBack(place)) \/ UNCHANGED vars
    PROVE  UNCHANGED <<pc, plan, at, choice, guards, dbTx, confirmed,
                       interrupts, failures>>
BY DEF Native, Indexer, NativeCreate, IndexStart, IndexScan, IndexUpsert,
       IndexComplete, NativeLoad, NativeUnload, NativeAppend, NativeRevert,
       WriteBack, vars, importVars, dbVars, nativeVars

\* Steps: of an importer, of the machine, or of neither.
LEMMA StepKinds ==
    ASSUME [Next]_vars
    PROVE  \/ \E p \in Proc : Importer(p)
           \/ Native \/ (\E place \in Place : WriteBack(place)) \/ UNCHANGED vars
           \/ MachineFailure
BY DEF Next, Machine

\* What the comparison records.
LEMMA ChoicesTyped ==
    ASSUME TypeOK, NEW pl \in Plans
    PROVE  Choices(pl) \in Choice /\ NoChoice \in Choice
<1> DEFINE pre(i) == live[<<"pre", pl.files[i].rollout>>]
           full(i) == live[<<"full", pl.files[i].rollout>>]
           extend == {i \in Indices(pl) : /\ pre(i) # Absent
                                          /\ Len(pre(i)) < Len(pl.files[i].content)}
           exists == {i \in Indices(pl) : \/ full(i) # Absent
                                          \/ i # Last(pl) /\ pre(i) # Absent}
           promoted == pre(Last(pl)) # Absent
           repair == IF Repairs(pl) THEN row[pl.thread] ELSE None
           old == [i \in Indices(pl) |-> pre(i)]
<1>1. extend \in SUBSET Nat /\ exists \in SUBSET Nat /\ promoted \in BOOLEAN
    BY PlanShape
<1>2. repair \in Place \cup {None}
    BY PlanShape DEF TypeOK
<1>3. old \in Seq(Seq(Record))
    <2>1. \A i \in Indices(pl) : pre(i) \in Seq(Record)
        BY PlanShape, Places DEF TypeOK, Loc
    <2>2. Last(pl) \in Nat /\ Indices(pl) = 1..Last(pl)
        BY PlanShape DEF Indices
    <2> HIDE DEF pre
    <2> QED
        BY <2>1, <2>2
<1>4. Choices(pl) = [extend |-> extend, exists |-> exists, promoted |-> promoted,
                     repair |-> repair, old |-> old]
    BY Zenon DEF Choices
<1> HIDE DEF extend, exists, promoted, repair, old
<1>5. Choices(pl) \in Choice
    BY <1>1, <1>2, <1>3, <1>4 DEF Choice
<1>6. NoChoice \in Choice
    BY DEF NoChoice, Choice, Absent
<1> QED
    BY <1>5, <1>6

\* A move keeps the control of the importer well formed.
LEMMA MovedControl ==
    ASSUME TypeOK, Control, NEW p \in Proc, Moves(p)
    PROVE  /\ pc'[p] \in PC /\ plan'[p] \in Plans \cup {None}
           /\ at'[p] \in Nat /\ choice'[p] \in Choice
           /\ pc'[p] # "idle" => plan'[p] # None /\ at'[p] \in Indices(plan'[p])
           /\ pc'[p] \in {"idle", "check", "reserve"} => at'[p] = 1
           /\ pc'[p] \in Finishing => at'[p] = Last(plan'[p])
<1>1. /\ pc[p] \in PC /\ plan[p] \in Plans \cup {None}
      /\ at[p] \in Nat /\ choice[p] \in Choice
      /\ pc[p] # "idle" => plan[p] \in Plans /\ at[p] \in Indices(plan[p])
      /\ pc[p] \in {"idle", "check", "reserve"} => at[p] = 1
      /\ pc[p] \in Finishing => at[p] = Last(plan[p])
    BY DEF TypeOK, Control
<1>2. CASE Returned(p)
    <2>1. NoChoice \in Choice
        BY DEF NoChoice, Choice, Absent
    <2> QED
        BY <1>2, <2>1 DEF Returned, PC, Finishing
<1>3. ASSUME NEW pl \in Plans, Acquired(p, pl)
      PROVE  /\ pc'[p] = "check" /\ plan'[p] = pl /\ plan'[p] # None
             /\ at'[p] = 1 /\ 1 \in Indices(pl) /\ choice'[p] \in Choice
    BY <1>1, <1>3, PlanShape DEF Acquired
<1>4. CASE Compared(p)
    <2>1. /\ pc'[p] \in {"reserve", "file"} /\ plan'[p] = plan[p] /\ at'[p] = 1
          /\ plan[p] \in Plans /\ choice'[p] = Choices(plan[p])
        BY <1>1, <1>4 DEF Compared
    <2>2. choice'[p] \in Choice /\ 1 \in Indices(plan[p]) /\ plan[p] # None
        BY <2>1, ChoicesTyped, PlanShape
    <2> QED
        BY <2>1, <2>2 DEF PC, Finishing
<1>5. CASE Reread(p)
    <2>1. /\ pc'[p] = "rereserve" /\ plan'[p] = plan[p] /\ at'[p] = at[p]
          /\ plan[p] \in Plans /\ at[p] \in Indices(plan[p]) /\ at[p] = Last(plan[p])
          /\ choice'[p] = [choice[p] EXCEPT !.repair = row[plan[p].thread]]
        BY <1>1, <1>5 DEF Reread, Finishing
    <2>2. row[plan[p].thread] \in Place \cup {None} /\ plan[p] # None
        BY <2>1, PlanShape DEF TypeOK
    <2>3. choice'[p] \in Choice
        BY <2>1, <2>2, <1>1 DEF Choice
    <2> QED
        BY <2>1, <2>2, <2>3, <1>1 DEF PC, Finishing
<1>6. CASE Advanced(p)
    <2>1. plan'[p] = plan[p] /\ choice'[p] = choice[p] /\ pc[p] # "idle"
        BY <1>6 DEF Advanced, Onward, Ending, Finished, AtLink
    <2>2. /\ plan[p] \in Plans /\ at[p] \in Indices(plan[p]) /\ plan[p] # None
          /\ Last(plan[p]) \in Nat
        BY <2>1, <1>1, PlanShape
    <2>3. CASE at'[p] = at[p] /\ Onward(p)
        BY <2>1, <2>2, <2>3, <1>1 DEF Onward, PC, Finishing, AtLink
    <2>4. CASE at'[p] = at[p] /\ Ending(p)
        BY <2>1, <2>2, <2>4, <1>1 DEF Ending, PC, Finishing
    <2>5. CASE at[p] < Last(plan[p]) /\ at'[p] = at[p] + 1 /\ pc'[p] = "file"
        BY <2>1, <2>2, <2>5, <1>1 DEF PC, Finishing, Indices
    <2> QED
        BY <1>6, <2>3, <2>4, <2>5 DEF Advanced
<1> QED
    BY <1>2, <1>3, <1>4, <1>5, <1>6 DEF Moves, PC, Finishing

\* The control of every importer, after a step.
LEMMA ControlStep ==
    ASSUME TypeOK, Control, Reserved, [Next]_vars
    PROVE  /\ Control'
           /\ pc' \in [Proc -> PC] /\ plan' \in [Proc -> Plans \cup {None}]
           /\ \A p \in Proc : pc'[p] # "idle" =>
                  plan'[p] # None /\ at'[p] \in Indices(plan'[p])
<1>1. ASSUME NEW p \in Proc, Importer(p)
      PROVE  /\ Control'
             /\ pc' \in [Proc -> PC] /\ plan' \in [Proc -> Plans \cup {None}]
             /\ \A q \in Proc : pc'[q] # "idle" =>
                    plan'[q] # None /\ at'[q] \in Indices(plan'[q])
    <2>1. Own(p) /\ Moves(p)
        BY <1>1, ImporterMoves
    <2>2. /\ pc'[p] \in PC /\ plan'[p] \in Plans \cup {None}
          /\ at'[p] \in Nat /\ choice'[p] \in Choice
          /\ pc'[p] # "idle" => plan'[p] # None /\ at'[p] \in Indices(plan'[p])
          /\ pc'[p] \in {"idle", "check", "reserve"} => at'[p] = 1
          /\ pc'[p] \in Finishing => at'[p] = Last(plan'[p])
        BY <2>1, MovedControl
    <2>3. /\ pc' \in [Proc -> PC] /\ plan' \in [Proc -> Plans \cup {None}]
          /\ at' \in [Proc -> Nat] /\ choice' \in [Proc -> Choice]
        BY <2>1, <2>2 DEF Own, TypeOK, Control
    <2>4. \A q \in Proc : q # p => /\ pc'[q] = pc[q] /\ plan'[q] = plan[q]
                                   /\ at'[q] = at[q]
        BY <2>1 DEF Own, TypeOK, Control
    <2>5. \A q \in Proc : pc'[q] # "idle" =>
              plan'[q] # None /\ at'[q] \in Indices(plan'[q])
        BY <2>2, <2>4 DEF TypeOK
    <2>6. \A q \in Proc : pc'[q] \in {"idle", "check", "reserve"} => at'[q] = 1
        BY <2>2, <2>4 DEF Control
    <2>7. \A q \in Proc : pc'[q] \in Finishing => at'[q] = Last(plan'[q])
        BY <2>2, <2>4 DEF Control
    <2> QED
        BY <2>3, <2>5, <2>6, <2>7 DEF Control
<1>2. ASSUME Native \/ (\E place \in Place : WriteBack(place)) \/ UNCHANGED vars
      PROVE  /\ Control'
             /\ pc' \in [Proc -> PC] /\ plan' \in [Proc -> Plans \cup {None}]
             /\ \A q \in Proc : pc'[q] # "idle" =>
                    plan'[q] # None /\ at'[q] \in Indices(plan'[q])
    <2>1. UNCHANGED <<pc, plan, at, choice>>
        BY <1>2, NativeFrame
    <2> QED
        BY <2>1 DEF Control, TypeOK
<1>3. ASSUME MachineFailure
      PROVE  /\ Control'
             /\ pc' \in [Proc -> PC] /\ plan' \in [Proc -> Plans \cup {None}]
             /\ \A q \in Proc : pc'[q] # "idle" =>
                    plan'[q] # None /\ at'[q] \in Indices(plan'[q])
    <2>1. NoChoice \in Choice
        BY DEF NoChoice, Choice, Absent
    <2>2. \A q \in Proc : pc'[q] = "idle" /\ at'[q] = 1
        BY <1>3 DEF MachineFailure
    <2>3. /\ pc' \in [Proc -> PC] /\ plan' \in [Proc -> Plans \cup {None}]
          /\ at' \in [Proc -> Nat] /\ choice' \in [Proc -> Choice]
        BY <1>3, <2>1 DEF MachineFailure, PC
    <2> QED
        BY <2>2, <2>3 DEF Control, Finishing
<1> QED
    BY <1>1, <1>2, <1>3, StepKinds

\* Locks: everybody is excluded from what an importer works on.
LEMMA GuardedStep ==
    ASSUME TypeOK, Control, Reserved, Guarded, [Next]_vars
    PROVE  Guarded' /\ guards' \in [Proc -> SUBSET (Thread \cup Rollout)]
<1> DEFINE Goal == Guarded' /\ guards' \in [Proc -> SUBSET (Thread \cup Rollout)]
<1>1. ASSUME NEW p \in Proc, Importer(p) PROVE Goal
    <2>1. Own(p) /\ Moves(p)
        BY <1>1, ImporterMoves
    <2>2. /\ guards' = [guards EXCEPT ![p] = guards'[p]] /\ loaded' = loaded
          /\ \A q \in Proc : q # p => /\ pc'[q] = pc[q] /\ plan'[q] = plan[q]
                                      /\ guards'[q] = guards[q]
        BY <2>1 DEF Own, TypeOK
    <2>3. /\ guards'[p] = IF pc'[p] = "idle" THEN {} ELSE Ids(plan'[p])
          /\ \/ guards'[p] \subseteq guards[p]
             \/ guards'[p] \cap (loaded \cup UNION {guards[q] : q \in Proc}) = {}
          /\ guards'[p] \in SUBSET (Thread \cup Rollout)
        <3>1. CASE Returned(p)
            BY <3>1 DEF Returned
        <3>2. ASSUME NEW pl \in Plans, Acquired(p, pl)
              PROVE  /\ guards'[p] = Ids(pl) /\ pc'[p] # "idle" /\ plan'[p] = pl
                     /\ Ids(pl) \in SUBSET (Thread \cup Rollout)
                     /\ Ids(pl) \cap (loaded \cup UNION {guards[q] : q \in Proc}) = {}
            BY <3>2, PlanShape DEF Acquired
        <3>3. CASE Compared(p) \/ Reread(p) \/ Advanced(p)
            <4>1. /\ guards'[p] = guards[p] /\ plan'[p] = plan[p]
                  /\ pc[p] # "idle" /\ pc'[p] # "idle"
                BY <3>3 DEF Compared, Reread, Advanced, Onward, Ending, Finished, AtLink
            <4> QED
                BY <4>1 DEF Guarded, TypeOK
        <3> QED
            BY <2>1, <3>1, <3>2, <3>3 DEF Moves
    <2>4. \A q \in Proc : q # p => guards'[p] \cap guards[q] = {}
        BY <2>3 DEF Guarded
    <2>5. guards'[p] \cap loaded = {}
        BY <2>3 DEF Guarded
    <2>6. guards' \in [Proc -> SUBSET (Thread \cup Rollout)]
        BY <2>2, <2>3 DEF TypeOK
    <2>7. \A q \in Proc : guards'[q] = IF pc'[q] = "idle" THEN {} ELSE Ids(plan'[q])
        BY <2>2, <2>3 DEF Guarded
    <2>8. \A q, s \in Proc : q # s => guards'[q] \cap guards'[s] = {}
        BY <2>2, <2>4 DEF Guarded
    <2>9. \A q \in Proc : guards'[q] \cap loaded' = {}
        BY <2>2, <2>5 DEF Guarded
    <2> QED
        BY <2>6, <2>7, <2>8, <2>9 DEF Guarded
<1>2. ASSUME Native \/ (\E place \in Place : WriteBack(place)) \/ UNCHANGED vars
      PROVE  Goal
    <2>1. UNCHANGED <<pc, plan, guards>>
        BY <1>2, NativeFrame
    <2>2. \A q \in Proc : guards[q] \cap loaded' = {}
        <3>1. \/ loaded' \subseteq loaded
              \/ \E t \in Thread : loaded' = loaded \cup {t} /\ \A q \in Proc : t \notin guards[q]
            BY <1>2 DEF Native, Indexer, NativeCreate, IndexStart, IndexScan,
                        IndexUpsert, IndexComplete, NativeLoad, NativeUnload,
                        NativeAppend, NativeRevert, WriteBack, vars, nativeVars
        <3> QED
            BY <3>1 DEF Guarded
    <2> QED
        BY <2>1, <2>2 DEF Guarded, TypeOK
<1>3. ASSUME MachineFailure PROVE Goal
    <2>1. \A q \in Proc : guards'[q] = {} /\ pc'[q] = "idle"
        BY <1>3 DEF MachineFailure
    <2>2. guards' \in [Proc -> SUBSET (Thread \cup Rollout)]
        BY <1>3 DEF MachineFailure
    <2> QED
        BY <2>1, <2>2 DEF Guarded
<1> QED
    BY <1>1, <1>2, <1>3, StepKinds

\* The database reservation is held exactly while a repair publishes or commits.
LEMMA ReservedStep ==
    ASSUME TypeOK, Control, Reserved, [Next]_vars
    PROVE  Reserved' /\ dbTx' \in Proc \cup {None}
<1> DEFINE Publishing == {"file", "syncPrefix", "link", "syncLink"}
           Holds(q) == \/ pc[q] \in Publishing /\ choice[q].repair # None
                       \/ pc[q] \in {"commit", "recommit"}
<1>0. None \notin Proc
    BY PublicationAssumption
<1>1. ASSUME NEW p \in Proc, Importer(p) PROVE Reserved' /\ dbTx' \in Proc \cup {None}
    <2>1. Own(p) /\ Moves(p)
        BY <1>1, ImporterMoves
    <2>2. \A q \in Proc : q # p => pc'[q] = pc[q] /\ choice'[q] = choice[q]
        BY <2>1 DEF Own, TypeOK, Control
    <2>3. /\ dbTx = p <=> Holds(p)
          /\ pc[p] = "reserve" => choice[p].repair # None
          /\ dbTx \in Proc \cup {None}
        BY DEF Reserved, TypeOK
    <2>4. /\ dbTx' = p <=> Holds(p)'
          /\ pc'[p] = "reserve" => choice'[p].repair # None
          /\ \/ dbTx' = dbTx
             \/ dbTx \in {p, None} /\ dbTx' \in {p, None}
        <3>1. CASE Returned(p)
            BY <3>1, <2>3, <1>0 DEF Returned
        <3>2. ASSUME NEW pl \in Plans, Acquired(p, pl)
              PROVE  dbTx' = dbTx /\ dbTx # p /\ ~Holds(p)' /\ pc'[p] # "reserve"
            BY <3>2, <2>3 DEF Acquired
        <3>3. CASE Compared(p)
            <4>1. choice'[p].repair = IF Repairs(plan[p]) THEN row[plan[p].thread] ELSE None
                <5>1. choice'[p] = Choices(plan[p])
                    BY <3>3 DEF Compared
                <5> QED
                    BY <5>1 DEF Choices
            <4>2. /\ dbTx' = dbTx /\ dbTx # p /\ ~Holds(p)'
                  /\ pc'[p] = "reserve" => choice'[p].repair # None
                BY <4>1, <3>3, <2>3 DEF Compared, Repairs
            <4> QED
                BY <4>2
        <3>4. CASE Reread(p)
            BY <3>4, <2>3 DEF Reread
        <3>5. CASE Advanced(p)
            <4>1. choice'[p] = choice[p]
                BY <3>5 DEF Advanced
            <4>2. CASE Onward(p)
                BY <4>1, <4>2, <2>3, <1>0 DEF Onward, AtLink
            <4>3. CASE Ending(p)
                BY <4>1, <4>3, <2>3 DEF Ending, Finished, AtLink
            <4>4. CASE Finished(p) /\ pc'[p] = "file" /\ dbTx' = dbTx
                BY <4>1, <4>4, <2>3 DEF Finished, AtLink
            <4> QED
                BY <3>5, <4>2, <4>3, <4>4 DEF Advanced
        <3> QED
            BY <2>1, <3>1, <3>2, <3>3, <3>4, <3>5 DEF Moves
    <2>5. \A q \in Proc : q # p => (dbTx' = q <=> dbTx = q)
        BY <2>4, <1>0
    <2>6. \A q \in Proc : /\ dbTx' = q <=> Holds(q)'
                          /\ pc'[q] = "reserve" => choice'[q].repair # None
        BY <2>2, <2>4, <2>5 DEF Reserved
    <2>7. dbTx' \in Proc \cup {None}
        BY <2>3, <2>4
    <2> QED
        BY <2>6, <2>7 DEF Reserved
<1>2. ASSUME Native \/ (\E place \in Place : WriteBack(place)) \/ UNCHANGED vars
      PROVE  Reserved' /\ dbTx' \in Proc \cup {None}
    <2>1. UNCHANGED <<pc, choice, dbTx>>
        BY <1>2, NativeFrame
    <2> QED
        BY <2>1 DEF Reserved, TypeOK
<1>3. ASSUME MachineFailure PROVE Reserved' /\ dbTx' \in Proc \cup {None}
    <2>1. dbTx' = None /\ \A q \in Proc : pc'[q] = "idle"
        BY <1>3 DEF MachineFailure
    <2> QED
        BY <2>1, <1>0 DEF Reserved
<1> QED
    BY <1>1, <1>2, <1>3, StepKinds

\* The remaining types.
LEMMA TypeStep ==
    ASSUME TypeOK, Control, Guarded, Reserved, [Next]_vars
    PROVE  TypeOK'
<1>1. /\ pc' \in [Proc -> PC] /\ plan' \in [Proc -> Plans \cup {None}]
      /\ \A p \in Proc : pc'[p] # "idle" => plan'[p] # None /\ at'[p] \in Indices(plan'[p])
    BY ControlStep
<1>2. guards' \in [Proc -> SUBSET (Thread \cup Rollout)]
    BY GuardedStep
<1>3. /\ dbTx' \in Proc \cup {None}
      /\ \A p \in Proc : pc'[p] \in {"commit", "recommit"} => dbTx' = p
    BY ReservedStep DEF Reserved
<1>4. NativeRecord \in Record /\ MaxInterrupts \in Nat /\ MaxFailures \in Nat
    BY PublicationAssumption
<1>5. ASSUME NEW p \in Proc, pc[p] # "idle"
      PROVE  /\ plan[p] \in Plans /\ at[p] \in Indices(plan[p])
             /\ plan[p].files[at[p]].content \in Seq(Record)
             /\ plan[p].files[at[p]].rollout \in Rollout
             /\ plan[p].thread \in Thread
             /\ MainPlace(plan[p]) \in Place
             /\ Destination(plan[p], at[p]) \in Place
             /\ <<"pre", plan[p].files[at[p]].rollout>> \in Place
    BY SMTT(30), <1>5, PlanShape, Places DEF TypeOK, History, Loc
<1>6. /\ live' \in [Place -> Seq(Record)]
      /\ liveD' \in [Place -> Seq(Record)]
    <2>0. live \in [Place -> Seq(Record)] /\ liveD \in [Place -> Seq(Record)]
        BY DEF TypeOK
    <2>1. ASSUME NEW p \in Proc, Importer(p)
          PROVE  /\ live' \in [Place -> Seq(Record)]
                 /\ liveD' \in [Place -> Seq(Record)]
        <3>1. CASE PublishPrefix(p)
            <4>1. pc[p] # "idle" /\ liveD' = liveD
                BY <3>1 DEF PublishPrefix
            <4>2. \/ live' = live
                  \/ live' = [live EXCEPT ![<<"pre", plan[p].files[at[p]].rollout>>] =
                                  plan[p].files[at[p]].content]
                BY <3>1 DEF PublishPrefix
            <4> QED
                BY <4>1, <4>2, <2>0, <1>5
        <3>2. CASE LinkFile(p)
            <4>1. pc[p] # "idle" /\ liveD' = liveD
                BY <3>2 DEF LinkFile, AtLink
            <4>2. \/ live' = live
                  \/ live' = [live EXCEPT ![Destination(plan[p], at[p])] =
                                  plan[p].files[at[p]].content]
                BY <3>2 DEF LinkFile
            <4> QED
                BY <4>1, <4>2, <2>0, <1>5
        <3>3. CASE SyncPrefix(p) \/ SyncLink(p)
            <4>1. pc[p] # "idle" /\ live' = live
                BY <3>3 DEF SyncPrefix, SyncLink
            <4>2. \E place \in Place : liveD' = [liveD EXCEPT ![place] = live[place]]
                BY <3>3, <4>1, <1>5 DEF SyncPrefix, SyncLink
            <4> QED
                BY <4>1, <4>2, <2>0
        <3>4. CASE ~(PublishPrefix(p) \/ LinkFile(p) \/ SyncPrefix(p) \/ SyncLink(p))
            <4>1. live' = live /\ liveD' = liveD
                BY <2>1, <3>4 DEF Importer, Progress, Acquire, CheckConflicts,
                   BeginSelectionUpdate, ReuseFile, FinishUpdate,
                   FinishPublicationSelection, CommitUnknown, Interrupt
            <4> QED
                BY <4>1, <2>0
        <3> QED
            BY <3>1, <3>2, <3>3, <3>4
    <2>2. ASSUME NEW r \in Rollout, NativeAppend(r) \/ NativeRevert(r)
          PROVE  /\ live' \in [Place -> Seq(Record)]
                 /\ liveD' \in [Place -> Seq(Record)]
        <3>1. <<"full", r>> \in Place /\ live[<<"full", r>>] \in Seq(Record)
            BY <2>0, Places DEF Loc
        <3>2. PICK new \in Seq(Record) :
                  /\ live' = [live EXCEPT ![<<"full", r>>] = new]
                  /\ liveD' = [liveD EXCEPT ![<<"full", r>>] = new]
            <4>1. CASE NativeRevert(r)
                <5>1. <<NativeRecord>> \in Seq(Record)
                    BY <1>4
                <5> QED
                    BY <5>1, <4>1 DEF NativeRevert
            <4>2. CASE NativeAppend(r)
                <5> DEFINE new == Append(live[<<"full", r>>], NativeRecord)
                <5>1. new \in Seq(Record)
                    BY <3>1, <1>4
                <5>2. live' = [live EXCEPT ![<<"full", r>>] = new]
                    BY <4>2 DEF NativeAppend
                <5>3. liveD' = [liveD EXCEPT ![<<"full", r>>] = live'[<<"full", r>>]]
                    BY <4>2 DEF NativeAppend
                <5> HIDE DEF new
                <5>4. live'[<<"full", r>>] = new
                    BY <5>2, <3>1, <2>0
                <5> QED
                    BY <5>1, <5>2, <5>3, <5>4
            <4> QED
                BY <2>2, <4>1, <4>2
        <3> QED
            BY <3>1, <3>2, <2>0
    <2>3. CASE \E place \in Place : WriteBack(place)
        BY <2>0, <2>3 DEF WriteBack
    <2>4. CASE MachineFailure
        BY <2>0, <2>4 DEF MachineFailure
    <2>5. CASE UNCHANGED vars
        BY <2>0, <2>5 DEF vars
    <2>6. CASE Native /\ ~(\E r \in Rollout : NativeAppend(r) \/ NativeRevert(r))
        <3>1. live' = live /\ liveD' = liveD
            BY <2>6 DEF Native, Indexer, NativeCreate, IndexStart, IndexScan,
               IndexUpsert, IndexComplete, NativeLoad, NativeUnload
        <3> QED
            BY <3>1, <2>0
    <2> QED
        BY <2>1, <2>2, <2>3, <2>4, <2>5, <2>6, StepKinds
<1>7. /\ row' \in [Thread -> Place \cup {None}]
      /\ status' \in {"absent", "pending", "running", "complete"}
    <2>0. /\ row \in [Thread -> Place \cup {None}]
          /\ status \in {"absent", "pending", "running", "complete"}
        BY DEF TypeOK
    <2>1. ASSUME NEW p \in Proc, Importer(p)
          PROVE  /\ row' \in [Thread -> Place \cup {None}]
                 /\ status' = status
        <3>1. CASE FinishUpdate(p) \/ CommitUnknown(p)
            <4>1. /\ pc[p] # "idle" /\ status' = status
                  /\ row' = [row EXCEPT ![plan[p].thread] = MainPlace(plan[p])]
                BY <3>1 DEF FinishUpdate, CommitUnknown
            <4> QED
                BY <4>1, <2>0, <1>5
        <3>2. CASE ~(FinishUpdate(p) \/ CommitUnknown(p))
            <4>1. row' = row /\ status' = status
                BY <2>1, <3>2 DEF Importer, Progress, Acquire, CheckConflicts,
                   BeginSelectionUpdate, PublishPrefix, SyncPrefix, LinkFile,
                   SyncLink, ReuseFile, FinishPublicationSelection, Interrupt,
                   Fail, dbVars
            <4> QED
                BY <4>1, <2>0
        <3> QED
            BY <3>1, <3>2
    <2>2. ASSUME NEW r \in Rollout, NativeRevert(r)
          PROVE  /\ row' \in [Thread -> Place \cup {None}] /\ status' = status
        <3>1. <<"full", r>> \in Place /\ ThreadOf[r] \in Thread
            BY Places, PublicationAssumption DEF Loc
        <3> QED
            BY <2>2, <3>1, <2>0 DEF NativeRevert
    <2>3. CASE (Native /\ ~\E r \in Rollout : NativeRevert(r)) \/ MachineFailure
               \/ (\E place \in Place : WriteBack(place)) \/ UNCHANGED vars
        BY <2>0, <2>3 DEF Native, Indexer, NativeCreate, IndexStart, IndexScan,
           IndexUpsert, IndexComplete, NativeLoad, NativeUnload, NativeAppend,
           MachineFailure, WriteBack, vars, dbVars
    <2> QED
        BY <2>0, <2>1, <2>2, <2>3, StepKinds
<1>8. /\ loaded' \in SUBSET Thread
      /\ index' \in [phase : {"off", "scan", "upserted"}, scanned : SUBSET Loc,
                     found : SUBSET Place]
    <2>0. /\ loaded \in SUBSET Thread
          /\ index \in [phase : {"off", "scan", "upserted"}, scanned : SUBSET Loc,
                        found : SUBSET Place]
        BY DEF TypeOK
    <2>1. CASE \E p \in Proc : Importer(p)
        BY <2>0, <2>1, ImporterMoves DEF Own
    <2>2. CASE MachineFailure
        BY <2>2 DEF MachineFailure
    <2>3. CASE \E t \in Thread : NativeLoad(t) \/ NativeUnload(t)
        BY <2>3, <2>0 DEF NativeLoad, NativeUnload
    <2>4. CASE \E loc \in Loc : IndexScan(loc)
        <3>1. PICK loc \in Loc : IndexScan(loc)
            BY <2>4
        <3> DEFINE more == {pl \in Place : pl[1] = loc /\ live[pl] # Absent}
        <3>2. /\ index' = [index EXCEPT !.scanned = @ \cup {loc},
                                        !.found = @ \cup more]
              /\ loaded' = loaded
            BY <3>1 DEF IndexScan
        <3>3. more \in SUBSET Place
            OBVIOUS
        <3> HIDE DEF more
        <3> QED
            BY <3>2, <3>3, <2>0
    <2>5. CASE IndexStart \/ IndexUpsert \/ IndexComplete
        BY <2>5, <2>0 DEF IndexStart, IndexUpsert, IndexComplete
    <2>6. CASE (\E place \in Place : WriteBack(place)) \/ UNCHANGED vars \/ NativeCreate
               \/ \E r \in Rollout : NativeAppend(r) \/ NativeRevert(r)
        BY <2>0, <2>6 DEF WriteBack, vars, NativeCreate, NativeAppend, NativeRevert,
           nativeVars
    <2> QED
        BY <2>1, <2>2, <2>3, <2>4, <2>5, <2>6, StepKinds DEF Native, Indexer
<1>9. /\ confirmed' \in SUBSET Plans
      /\ interrupts' \in 0..MaxInterrupts /\ failures' \in 0..MaxFailures
    <2>0. /\ confirmed \in SUBSET Plans
          /\ interrupts \in 0..MaxInterrupts /\ failures \in 0..MaxFailures
        BY DEF TypeOK
    <2>1. ASSUME NEW p \in Proc, Importer(p)
          PROVE  /\ confirmed' \in SUBSET Plans
                 /\ interrupts' \in 0..MaxInterrupts /\ failures' = failures
        <3>1. failures' = failures
            BY <2>1, ImporterMoves DEF Own
        <3>2. \/ confirmed' = confirmed
              \/ pc[p] # "idle" /\ confirmed' = confirmed \cup {plan[p]}
            BY <2>1 DEF Importer, Progress, Acquire, CheckConflicts,
               BeginSelectionUpdate, PublishPrefix, SyncPrefix, LinkFile,
               SyncLink, ReuseFile, FinishUpdate, FinishPublicationSelection,
               CommitUnknown, Interrupt, Fail, NextFile, AtLink
        <3>3. \/ interrupts' = interrupts
              \/ interrupts < MaxInterrupts /\ interrupts' = interrupts + 1
            BY <2>1 DEF Importer, Progress, Acquire, CheckConflicts,
               BeginSelectionUpdate, PublishPrefix, SyncPrefix, LinkFile,
               SyncLink, ReuseFile, FinishUpdate, FinishPublicationSelection,
               CommitUnknown, Interrupt, Interruptible
        <3>4. interrupts' \in 0..MaxInterrupts
            BY <3>3, <2>0, <1>4
        <3> QED
            BY <3>1, <3>2, <3>4, <2>0, <1>5
    <2>2. CASE MachineFailure
        BY <2>0, <2>2, <1>4 DEF MachineFailure
    <2>3. CASE Native \/ (\E place \in Place : WriteBack(place)) \/ UNCHANGED vars
        BY <2>0, <2>3, NativeFrame
    <2> QED
        BY <2>0, <2>1, <2>2, <2>3, StepKinds
<1> QED
    BY <1>1, <1>2, <1>3, <1>6, <1>7, <1>8, <1>9 DEF TypeOK

-----------------------------------------------------------------------------
(* What the steps that write do to the home.                                *)

\* The plan an importer works on, and its file.
LEMMA InWork ==
    ASSUME TypeOK, NEW p \in Proc, pc[p] # "idle"
    PROVE  /\ plan[p] \in Plans /\ at[p] \in Indices(plan[p])
           /\ plan[p].files[at[p]].rollout \in Rollout
           /\ plan[p].files[at[p]].content \in History
           /\ plan[p].files[at[p]].content # Absent
           /\ Destination(plan[p], at[p]) \in Place
           /\ <<"pre", plan[p].files[at[p]].rollout>> \in Place
           /\ live \in Home /\ liveD \in Home
           /\ \A i \in Indices(plan[p]), loc \in Loc :
                 /\ <<loc, plan[p].files[i].rollout>> \in Place
                 /\ Copy(live, plan[p], i, loc) \in History
                 /\ Copy(liveD, plan[p], i, loc) \in History
<1>1. plan[p] \in Plans /\ at[p] \in Indices(plan[p])
    BY DEF TypeOK
<1>2. live \in Home /\ liveD \in Home
    BY DEF TypeOK, Home, History
<1>3. \A i \in Indices(plan[p]) :
          /\ plan[p].files[i].rollout \in Rollout
          /\ plan[p].files[i].content \in History
          /\ plan[p].files[i].content # Absent
    BY <1>1, PlanShape
<1>4. \A i \in Indices(plan[p]), loc \in Loc : <<loc, plan[p].files[i].rollout>> \in Place
    BY <1>3, Places
<1>5. \A i \in Indices(plan[p]), loc \in Loc :
          /\ Copy(live, plan[p], i, loc) \in History
          /\ Copy(liveD, plan[p], i, loc) \in History
    BY <1>2, <1>4 DEF Home, Copy
<1>6. Destination(plan[p], at[p]) \in Place
    BY <1>1, Places
<1>7. <<"pre", plan[p].files[at[p]].rollout>> \in Place
    BY <1>1, <1>4 DEF Loc
<1> QED
    BY <1>1, <1>2, <1>3, <1>4, <1>5, <1>6, <1>7

\* A managed path is never the ordinary path of a conversation.
LEMMA ManagedPath ==
    ASSUME NEW r, NEW pl \in Plans
    PROVE  MainPlace(pl) # <<"pre", r>>
BY PlanShape, Places

\* Plans for the same conversation have the same ancestors in place.
LEMMA SameLineage ==
    ASSUME NEW home \in Home, NEW pl \in Plans, NEW other \in Plans,
           Main(pl).rollout = Main(other).rollout,
           \A i \in Indices(pl) \ {Last(pl)} : Placed(home, pl, i)
    PROVE  InheritsIn(home, other)
<1>1. /\ Last(pl) = Last(other)
      /\ \A i \in Indices(pl) \ {Last(pl)} : pl.files[i] = other.files[i]
    BY LineageAssumption
<1>2. Indices(pl) = Indices(other)
    BY <1>1 DEF Indices
<1>3. \A i \in Indices(other) \ {Last(other)} : Placed(home, other, i)
    BY <1>1, <1>2 DEF Placed, Copy
<1> QED
    BY <1>3, InheritsByPlace

\* publishPrefix replaces a managed prefix by a longer one that extends it.
LEMMA PublishPrefixGrows ==
    ASSUME TypeOK, Control, Working, NEW p \in Proc, PublishPrefix(p),
           NEW pl, pl = plan[p], NEW k, k = at[p],
           NEW place, place = <<"pre", pl.files[k].rollout>>
    PROVE  /\ live' = [live EXCEPT ![place] = pl.files[k].content]
           /\ liveD' = liveD /\ pc[p] = "file" /\ Goto(p, "syncPrefix")
           /\ UNCHANGED <<plan, at, choice, guards, dbVars, nativeVars, confirmed,
                          interrupts, failures>>
           /\ live[place] = choice[p].old[k] /\ live[place] # Absent
           /\ IsPrefixOf(live[place], pl.files[k].content)
           /\ Agrees(live, pl, k, "full")
           /\ k \in choice[p].exists <=>
                  k # Last(pl) \/ Copy(live, pl, k, "full") # Absent
           /\ Grows(live, place, pl.files[k].content)
<1> DEFINE content == pl.files[k].content
<1>1. pc[p] = "file" /\ k \in choice[p].extend
    BY DEF PublishPrefix
<1>2. /\ pl \in Plans /\ k \in Indices(pl) /\ content \in History /\ content # Absent
      /\ place \in Place /\ live \in Home
    BY <1>1, InWork
<1>3. Pending(live, pl, choice[p], k)
    BY <1>1, <1>2 DEF Working, Knows
<1>4. /\ \A loc \in Loc : Agrees(live, pl, k, loc)
      /\ choice[p].old[k] = live[place]
      /\ live[place] # Absent /\ Len(live[place]) < Len(content)
      /\ k \in choice[p].exists <=> \/ Copy(live, pl, k, "full") # Absent
                                    \/ k # Last(pl)
    BY <1>1, <1>3 DEF Pending, Copy
<1>5. live[place] \in History
    BY <1>2 DEF Home
<1>6. IsPrefixOf(live[place], content)
    <2>1. Agrees(live, pl, k, "pre")
        BY <1>4 DEF Loc
    <2>2. \/ IsPrefixOf(content, live[place]) \/ live[place] = content
          \/ IsPrefixOf(live[place], content)
        BY <2>1, <1>4 DEF Agrees, Copy
    <2>3. Len(content) \in Nat /\ Len(live[place]) \in Nat
        BY <1>2, <1>5, HistoryLength
    <2>4. ~IsPrefixOf(content, live[place]) /\ live[place] # content
        <3>1. ~(Len(content) <= Len(live[place]))
            BY <2>3, <1>4
        <3>2. ~IsPrefixOf(content, live[place])
            BY <3>1 DEF IsPrefixOf
        <3>3. live[place] # content
            <4> SUFFICES ASSUME live[place] = content PROVE Len(content) <= Len(live[place])
                BY <3>1
            <4> QED
                BY <2>3
        <3> QED
            BY <3>2, <3>3
    <2> QED
        BY <2>2, <2>4
<1>7. Grows(live, place, content)
    BY <1>2, <1>4, <1>6, ManagedPath DEF Grows
<1>8. /\ live' = [live EXCEPT ![place] = content]
      /\ liveD' = liveD /\ Goto(p, "syncPrefix")
      /\ UNCHANGED <<plan, at, choice, guards, dbVars, nativeVars, confirmed,
                     interrupts, failures>>
    BY <1>4 DEF PublishPrefix
<1>9. Agrees(live, pl, k, "full")
    BY <1>4 DEF Loc
<1> QED
    BY <1>1, <1>4, <1>6, <1>7, <1>8, <1>9

\* The ancestors of a plan are in place when its last file is in work.
LEMMA AncestorsPlaced ==
    ASSUME TypeOK, Working, NEW p \in Proc, pc[p] \notin {"idle", "check"},
           at[p] = Last(plan[p])
    PROVE  \A i \in Indices(plan[p]) \ {Last(plan[p])} : Placed(live, plan[p], i)
<1>1. plan[p] \in Plans
    BY InWork
<1>2. ASSUME NEW i \in Indices(plan[p]) \ {Last(plan[p])} PROVE i < at[p]
    BY <1>1, <1>2, PlanShape DEF Indices
<1> QED
    BY <1>2 DEF Working, Knows

\* Linkat adds a file that extends every other copy of the rollout.
LEMMA LinkFileGrows ==
    ASSUME TypeOK, Control, Working, NEW p \in Proc, LinkFile(p),
           NEW pl, pl = plan[p], NEW k, k = at[p],
           NEW place, place = Destination(pl, k)
    PROVE  /\ live' = [live EXCEPT ![place] = pl.files[k].content]
           /\ liveD' = liveD /\ AtLink(p) /\ Goto(p, "syncLink")
           /\ UNCHANGED <<plan, at, choice, guards, dbVars, nativeVars, confirmed,
                          interrupts, failures>>
           /\ live[place] = Absent
           /\ k = Last(pl) => IsPrefixOf(Copy(live, pl, k, "pre"), pl.files[k].content)
           /\ k # Last(pl) => Copy(live, pl, k, "full") = Absent
           /\ Grows(live, place, pl.files[k].content)
<1> DEFINE content == pl.files[k].content
           r == pl.files[k].rollout
<1>1. pc[p] \in {"file", "link"} /\ AtLink(p) /\ k \notin choice[p].exists
      /\ (pc[p] = "file" => k \notin choice[p].extend)
    BY DEF LinkFile, AtLink
<1>2. /\ pl \in Plans /\ k \in Indices(pl) /\ content \in History /\ content # Absent
      /\ place \in Place /\ live \in Home /\ r \in Rollout
      /\ \A loc \in Loc : Copy(live, pl, k, loc) \in History
    BY <1>1, InWork
<1>3. place = <<IF k = Last(pl) THEN "full" ELSE "pre", r>> /\ place[2] = r
    BY <1>2, Places
<1>4. /\ k = Last(pl) => /\ Copy(live, pl, k, "full") = Absent
                         /\ IsPrefixOf(Copy(live, pl, k, "pre"), content)
      /\ k # Last(pl) => /\ Copy(live, pl, k, "full") = Absent
                         /\ Copy(live, pl, k, "pre") = Absent
    <2>1. CASE pc[p] = "file"
        <3>1. Pending(live, pl, choice[p], k)
            BY <1>2, <2>1 DEF Working, Knows
        <3>2. /\ Copy(live, pl, k, "full") = Absent
              /\ k # Last(pl) => Copy(live, pl, k, "pre") = Absent
              /\ Agrees(live, pl, k, "pre")
            BY <1>1, <3>1 DEF Pending, Loc
        <3>3. k = Last(pl) => IsPrefixOf(Copy(live, pl, k, "pre"), content)
            BY <3>2, <1>2, PrefixReflexive DEF Agrees
        <3> QED
            BY <3>2, <3>3
    <2>2. CASE pc[p] = "link"
        <3>1. Grown(live, pl, choice[p], k)
            BY <1>2, <2>2 DEF Working, Knows
        <3> QED
            BY <3>1, <1>1, <1>2, PrefixReflexive DEF Grown
    <2> QED
        BY <1>1, <2>1, <2>2
<1>5. live[place] = Absent
    BY <1>3, <1>4 DEF Copy
<1>6. \A loc \in Loc : IsPrefixOf(live[<<loc, place[2]>>], content)
    BY <1>2, <1>3, <1>4, PrefixReflexive DEF Copy, Loc
<1>7. ASSUME NEW other \in Plans, MainPlace(other) = place
      PROVE  InheritsIn(live, other)
    <2>1. k = Last(pl)
        BY <1>3, <1>7, ManagedPath
    <2>2. Main(other).rollout = r /\ Main(pl).rollout = r
        BY <2>1, <1>2, <1>3, <1>7, PlanShape, Places
    <2>3. \A i \in Indices(pl) \ {Last(pl)} : Placed(live, pl, i)
        BY <2>1, <1>1, AncestorsPlaced
    <2> QED
        BY <2>2, <2>3, <1>2, SameLineage
<1>8. IsPrefixOf(live[place], content)
    BY <1>2, <1>5, PrefixReflexive
<1>9. Grows(live, place, content)
    BY <1>2, <1>6, <1>7, <1>8 DEF Grows
<1>10. /\ live' = [live EXCEPT ![place] = content]
       /\ liveD' = liveD /\ Goto(p, "syncLink")
       /\ UNCHANGED <<plan, at, choice, guards, dbVars, nativeVars, confirmed,
                      interrupts, failures>>
    BY <1>5 DEF LinkFile
<1> QED
    BY <1>1, <1>4, <1>5, <1>9, <1>10

\* Native Codex writes to no rollout that is being imported.
LEMMA NativeElsewhere ==
    ASSUME TypeOK, Guarded, NEW r \in Rollout, NativeAppend(r) \/ NativeRevert(r),
           NEW p \in Proc, pc[p] # "idle", NEW i \in Indices(plan[p])
    PROVE  plan[p].files[i].rollout # r /\ ThreadOf[r] \in loaded
<1>1. plan[p] \in Plans
    BY InWork
<1>2. ThreadOf[r] \in loaded
    BY DEF NativeAppend, NativeRevert
<1>3. ThreadOf[plan[p].files[i].rollout] \in guards[p]
    BY <1>1, PlanShape DEF Guarded
<1> QED
    BY <1>2, <1>3 DEF Guarded

\* What native Codex writes, in view and on disk, extends what is there, and makes
\* no received conversation visible.
LEMMA NativeGrows ==
    ASSUME TypeOK, Guarded, Durable, NEW r \in Rollout, NativeAppend(r) \/ NativeRevert(r)
    PROVE  \E new :
             /\ live' = [live EXCEPT ![<<"full", r>>] = new]
             /\ liveD' = [liveD EXCEPT ![<<"full", r>>] = new]
             /\ Grows(live, <<"full", r>>, new)
             /\ interrupts = 0 => Grows(liveD, <<"full", r>>, new)
<1> DEFINE place == <<"full", r>>
           managed == <<"pre", r>>
<1>1. /\ place \in Place /\ managed \in Place /\ place[2] = r
      /\ \A loc \in Loc : <<loc, r>> \in {place, managed}
    BY Places DEF Loc
<1>2. live \in Home /\ liveD \in Home /\ live[place] \in History
    BY <1>1 DEF TypeOK, Home, History
<1>3. NativeRecord \in Record
    BY PublicationAssumption
<1>4. ASSUME interrupts = 0, NEW q \in {place, managed}
      PROVE  liveD[q] = live[q]
    <2>1. ASSUME NEW p \in Proc, Unsynced(p, q) PROVE FALSE
        <3>1. pc[p] # "idle"
            BY <2>1 DEF Unsynced
        <3>2. plan[p] \in Plans /\ at[p] \in Indices(plan[p])
            BY <3>1, InWork
        <3>3. plan[p].files[at[p]].rollout # r
            BY <3>1, <3>2, NativeElsewhere
        <3>4. q[2] = plan[p].files[at[p]].rollout
            BY <2>1, <3>2, Places, PlanShape DEF Unsynced, Loc
        <3> QED
            BY <3>3, <3>4
    <2> QED
        BY <1>1, <1>4, <2>1 DEF Durable
<1>5. CASE NativeAppend(r)
    <2> DEFINE new == Append(live[place], NativeRecord)
    <2>1. live[place] # Absent /\ live' = [live EXCEPT ![place] = new]
        BY <1>5 DEF NativeAppend
    <2>2. liveD' = [liveD EXCEPT ![place] = live'[place]]
        BY <1>5 DEF NativeAppend
    <2>3. /\ new \in History /\ new # Absent /\ IsPrefixOf(live[place], new)
          /\ \A c \in History :
                (IsPrefixOf(c, new) /\ \A k \in 1..Len(c) : c[k] # NativeRecord) =>
                    IsPrefixOf(c, live[place])
        BY <1>2, <1>3, PrefixAppend
    <2> HIDE DEF new
    <2>4. live'[place] = new
        BY <2>1, <1>1, <1>2 DEF Home
    <2>5. ASSUME NEW pl \in Plans, MainPlace(pl) = place, IsPrefixOf(Main(pl).content, new)
          PROVE  VisibleIn(live, pl)
        <3>1. /\ Main(pl).content \in History
              /\ \A k \in 1..Len(Main(pl).content) : Main(pl).content[k] # NativeRecord
            BY PlanShape, LineageAssumption
        <3> QED
            BY <2>3, <2>5, <3>1 DEF VisibleIn
    <2>6. Grows(live, place, new)
        BY <2>1, <2>3, <2>5, <1>1 DEF Grows
    <2>7. ASSUME interrupts = 0 PROVE Grows(liveD, place, new)
        <3>1. liveD[place] = live[place]
            BY <2>7, <1>4
        <3>2. ASSUME NEW pl \in Plans, MainPlace(pl) = place,
                     IsPrefixOf(Main(pl).content, new)
              PROVE  VisibleIn(liveD, pl)
            BY <2>5, <3>1, <3>2 DEF VisibleIn
        <3> QED
            BY <2>1, <2>3, <3>1, <3>2, <1>1 DEF Grows
    <2> QED
        BY <2>1, <2>2, <2>4, <2>6, <2>7
<1>6. CASE NativeRevert(r)
    <2> DEFINE new == <<NativeRecord>>
    <2>1. /\ live[place] = Absent /\ live[managed] = Absent
          /\ live' = [live EXCEPT ![place] = new]
          /\ liveD' = [liveD EXCEPT ![place] = new]
          /\ \A pl \in Plans : \A i \in Indices(pl) : pl.files[i].rollout # r
        BY <1>6 DEF NativeRevert
    <2>2. new \in History /\ new # Absent
        BY <1>3 DEF History, Absent
    <2> HIDE DEF new
    <2>3. \A pl \in Plans : MainPlace(pl) # place
        BY <2>1, PlanShape, Places
    <2>4. IsPrefixOf(Absent, new)
        BY <2>2, PrefixReflexive
    <2>5. Grows(live, place, new)
        BY <2>1, <2>2, <2>3, <2>4, <1>1 DEF Grows
    <2>6. interrupts = 0 => Grows(liveD, place, new)
        BY <2>1, <2>2, <2>3, <2>4, <1>1, <1>4 DEF Grows
    <2> QED
        BY <2>1, <2>5, <2>6
<1> QED
    BY <1>5, <1>6

-----------------------------------------------------------------------------
(* What an importer compared stays true until it acts on it.                *)

\* A file that was linked, or that existed and agrees, is in place.
LEMMA FinishedPlaced ==
    ASSUME TypeOK, Working, NEW p \in Proc, Finished(p)
    PROVE  Placed(live, plan[p], at[p])
<1> DEFINE pl == plan[p]
           k == at[p]
           content == pl.files[k].content
           pre == Copy(live, pl, k, "pre")
           full == Copy(live, pl, k, "full")
<1>1. /\ pc[p] \in {"syncLink", "link", "file"}
      /\ pc[p] = "file" => k \notin choice[p].extend
      /\ pc[p] # "syncLink" => k \in choice[p].exists
    BY DEF Finished, AtLink
<1>2. /\ pl \in Plans /\ k \in Indices(pl) /\ content \in History /\ content # Absent
      /\ pre \in History /\ full \in History
    BY <1>1, InWork DEF Loc
<1>3. /\ pc[p] = "file" => Pending(live, pl, choice[p], k)
      /\ pc[p] = "link" => Grown(live, pl, choice[p], k)
      /\ pc[p] = "syncLink" => Linked(live, pl, k)
    BY <1>1, <1>2 DEF Working, Knows
<1>4. IsPrefixOf(content, content)
    BY <1>2, PrefixReflexive
<1>5. CASE k = Last(pl)
    <2>1. full = content
        <3>1. CASE pc[p] = "syncLink"
            BY <1>2, <1>3, <1>5, <3>1, Places DEF Linked, Copy
        <3>2. CASE pc[p] = "link"
            BY <1>1, <1>3, <1>5, <3>2 DEF Grown, Agrees
        <3>3. CASE pc[p] = "file"
            <4>1. full # Absent /\ Agrees(live, pl, k, "full")
                BY <1>1, <1>3, <1>5, <3>3 DEF Pending, Loc
            <4> QED
                BY <4>1, <1>5 DEF Agrees
        <3> QED
            BY <1>1, <3>1, <3>2, <3>3
    <2>2. VisibleIn(live, pl)
        BY <2>1, <1>2, <1>4, <1>5, Places, PlanShape DEF VisibleIn, Copy, Main
    <2> QED
        BY <2>2, <1>5 DEF Placed
<1>6. CASE k # Last(pl)
    <2>1. /\ pre # Absent \/ full # Absent
          /\ pre = Absent \/ IsPrefixOf(content, pre)
          /\ full = Absent \/ IsPrefixOf(content, full)
        <3>1. CASE pc[p] = "syncLink"
            <4>1. pre = content /\ full = Absent
                BY <1>2, <1>3, <1>6, <3>1, Places DEF Linked, Copy
            <4> QED
                BY <4>1, <1>2, <1>4
        <3>2. CASE pc[p] = "link"
            <4>1. pre = content /\ Agrees(live, pl, k, "full")
                BY <1>3, <3>2 DEF Grown
            <4>2. full = Absent \/ IsPrefixOf(content, full)
                BY <4>1, <1>6 DEF Agrees
            <4> QED
                BY <4>1, <4>2, <1>2, <1>4
        <3>3. CASE pc[p] = "file"
            <4>1. /\ pre # Absent \/ full # Absent
                  /\ Agrees(live, pl, k, "full") /\ Agrees(live, pl, k, "pre")
                  /\ pre = Absent \/ ~(Len(pre) < Len(content))
                BY <1>1, <1>3, <3>3 DEF Pending, Loc
            <4>2. full = Absent \/ IsPrefixOf(content, full)
                BY <4>1, <1>6 DEF Agrees
            <4>3. pre = Absent \/ IsPrefixOf(content, pre) \/ IsPrefixOf(pre, content)
                BY <4>1, <1>6 DEF Agrees
            <4>4. pre # Absent /\ IsPrefixOf(pre, content) => IsPrefixOf(content, pre)
                BY <4>1, <1>2, <1>4, PrefixWhole
            <4> QED
                BY <4>1, <4>2, <4>3, <4>4
        <3> QED
            BY <1>1, <3>1, <3>2, <3>3
    <2> QED
        BY <2>1, <1>6 DEF Placed, Loc
<1> QED
    BY <1>5, <1>6

\* What checkConflicts finds when it lets the import go on.
LEMMA ComparedPending ==
    ASSUME TypeOK, NEW pl \in Plans, ~Conflict(pl), NEW i \in Indices(pl)
    PROVE  Pending(live, pl, Choices(pl), i)
<1>1. \A loc \in Loc : Compatible(pl, i, loc)
    BY DEF Conflict
<1>2. \A loc \in Loc : Agrees(live, pl, i, loc)
    BY <1>1 DEF Compatible, Agrees, Copy
<1>3. /\ Choices(pl).old[i] = Copy(live, pl, i, "pre")
      /\ i \in Choices(pl).extend <=>
             /\ Copy(live, pl, i, "pre") # Absent
             /\ Len(Copy(live, pl, i, "pre")) < Len(pl.files[i].content)
      /\ i \in Choices(pl).exists <=>
             \/ Copy(live, pl, i, "full") # Absent
             \/ i # Last(pl) /\ Copy(live, pl, i, "pre") # Absent
    BY DEF Choices, Copy
<1> QED
    BY <1>2, <1>3 DEF Pending

\* The steps of an importer that do not write to the home in view.
LEMMA QuietMoves ==
    ASSUME TypeOK, Control, NEW p \in Proc, Importer(p),
           ~PublishPrefix(p), ~LinkFile(p)
    PROVE  live' = live /\ pc'[p] \notin {"syncPrefix", "syncLink"}
<1>1. live' = live
    BY DEF Importer, Progress, Acquire, CheckConflicts, BeginSelectionUpdate,
           SyncPrefix, SyncLink, ReuseFile, FinishUpdate,
           FinishPublicationSelection, CommitUnknown, Interrupt
<1>2. \E l \in PC \ {"syncPrefix", "syncLink"} : pc' = [pc EXCEPT ![p] = l]
    BY DEF Importer, Progress, Acquire, CheckConflicts, BeginSelectionUpdate,
           SyncPrefix, SyncLink, ReuseFile, FinishUpdate, NextFile, Goto, Fail,
           FinishPublicationSelection, CommitUnknown, Interrupt, Return, PC
<1> QED
    BY <1>1, <1>2 DEF TypeOK

\* A quiet step of an importer, for its own plan.
LEMMA QuietWorking ==
    ASSUME TypeOK, Control, Working, NEW p \in Proc, Moves(p), live' = live,
           pc'[p] \notin {"idle", "check", "syncPrefix", "syncLink"},
           NEW i \in Indices(plan'[p])
    PROVE  Knows(live, pc'[p], plan'[p], at'[p], choice'[p], i)
<1>1. Compared(p) \/ Reread(p) \/ Advanced(p)
    BY DEF Moves, Returned, Acquired
<1>2. /\ pc[p] # "idle" /\ plan'[p] = plan[p]
    BY <1>1 DEF Compared, Reread, Advanced, Onward, Ending, Finished, AtLink
<1>3. /\ plan[p] \in Plans /\ at[p] \in Indices(plan[p]) /\ i \in Indices(plan[p])
      /\ i \in Nat /\ at[p] \in Nat /\ Last(plan[p]) \in Nat
      /\ i <= Last(plan[p]) /\ 1 <= i
    <2>1. plan[p] \in Plans /\ at[p] \in Indices(plan[p]) /\ i \in Indices(plan[p])
        BY <1>2, InWork
    <2>2. Last(plan[p]) \in Nat
        BY <2>1, PlanShape
    <2> QED
        BY <2>1, <2>2 DEF Indices
<1>4. CASE Compared(p)
    <2>1. /\ pc[p] = "check" /\ ~Conflict(plan[p]) /\ choice'[p] = Choices(plan[p])
          /\ at'[p] = 1 /\ pc'[p] \in {"reserve", "file"}
        BY <1>4 DEF Compared, Control
    <2>2. Pending(live, plan[p], choice'[p], i)
        BY <2>1, <1>3, ComparedPending
    <2> QED
        BY <2>1, <2>2, <1>2, <1>3 DEF Knows, Finishing
<1>5. CASE Reread(p)
    <2>1. /\ pc[p] = "confirm" /\ pc'[p] = "rereserve" /\ at'[p] = at[p]
          /\ at[p] = Last(plan[p])
        BY <1>5 DEF Reread, Control, Finishing
    <2>2. Placed(live, plan[p], i)
        BY <2>1, <1>3 DEF Working, Knows, Finishing
    <2> QED
        BY <2>1, <2>2, <1>2, <1>3 DEF Knows, Finishing
<1>6. CASE Advanced(p)
    <2>1. choice'[p] = choice[p] /\ pc[p] \notin {"idle", "check"}
        BY <1>6 DEF Advanced, Onward, Ending, Finished, AtLink
    <2>2. Knows(live, pc[p], plan[p], at[p], choice[p], i)
        BY <2>1, <1>3 DEF Working
    <2>3. CASE at'[p] = at[p] /\ Onward(p)
        <3>1. \/ pc[p] = "reserve" /\ pc'[p] = "file"
              \/ pc[p] = "rereserve" /\ pc'[p] = "recommit"
              \/ pc[p] = "syncPrefix" /\ pc'[p] = "link"
              \/ pc[p] = "commit" /\ pc'[p] = "confirm"
            BY <2>3 DEF Onward
        <3> QED
            BY <3>1, <2>1, <2>2, <2>3, <1>2 DEF Knows, Finishing
    <2>4. CASE at'[p] = at[p] /\ Ending(p)
        <3>1. /\ Finished(p) /\ at[p] = Last(plan[p])
              /\ pc'[p] \in {"commit", "confirm"}
            BY <2>4 DEF Ending
        <3>2. Placed(live, plan[p], at[p])
            BY <3>1, FinishedPlaced
        <3>3. Placed(live, plan[p], i)
            BY <3>1, <3>2, <2>2, <1>3 DEF Knows
        <3> QED
            BY <3>1, <3>3, <2>4, <1>2, <1>3 DEF Knows
    <2>5. CASE Finished(p) /\ at'[p] = at[p] + 1 /\ pc'[p] = "file"
        <3>1. Placed(live, plan[p], at[p])
            BY <2>5, FinishedPlaced
        <3>2. CASE i <= at[p]
            <4>1. Placed(live, plan[p], i)
                BY <3>1, <3>2, <2>2, <1>3 DEF Knows
            <4> QED
                BY <4>1, <3>2, <2>5, <1>2, <1>3 DEF Knows, Finishing
        <3>3. CASE i > at[p]
            <4>1. Pending(live, plan[p], choice[p], i)
                BY <3>3, <2>2 DEF Knows
            <4> QED
                BY <4>1, <3>3, <2>1, <2>5, <1>2, <1>3 DEF Knows, Finishing
        <3> QED
            BY <3>2, <3>3, <1>3
    <2> QED
        BY <1>6, <2>3, <2>4, <2>5 DEF Advanced
<1> QED
    BY <1>1, <1>4, <1>5, <1>6

\* A write at a rollout of its own plan, by an importer that works on that file.
LEMMA WriteWorking ==
    ASSUME TypeOK, Control, Working, NEW p \in Proc, pc[p] \notin {"idle", "check"},
           NEW place \in Place, place[2] = plan[p].files[at[p]].rollout, NEW new,
           live' = [live EXCEPT ![place] = new], NEW l,
           l \in {"syncPrefix", "syncLink"},
           pc[p] \in {"file", "link"},
           NEW i \in Indices(plan[p]), i # at[p]
    PROVE  Knows(live', l, plan[p], at[p], choice[p], i)
<1>1. plan[p] \in Plans /\ at[p] \in Indices(plan[p]) /\ live \in Home
    BY InWork
<1> DEFINE pl == plan[p]
           c == choice[p]
<1>2. pl.files[i].rollout # place[2]
    BY <1>1, LineageAssumption
<1>3. ASSUME NEW loc \in Loc
      PROVE  live'[<<loc, pl.files[i].rollout>>] = live[<<loc, pl.files[i].rollout>>]
    <2>1. /\ <<loc, pl.files[i].rollout>> \in Place
          /\ <<loc, pl.files[i].rollout>>[2] = pl.files[i].rollout
        BY <1>1, PlanShape, Places
    <2> QED
        BY <2>1, <1>1, <1>2 DEF Home
<1>4. \A loc \in Loc : Copy(live', pl, i, loc) = Copy(live, pl, i, loc)
    BY <1>3 DEF Copy
<1>5. "pre" \in Loc /\ "full" \in Loc
    BY DEF Loc
<1>6. \A loc \in Loc : Agrees(live', pl, i, loc) <=> Agrees(live, pl, i, loc)
    BY <1>4 DEF Agrees
<1>7. Pending(live, pl, c, i) => Pending(live', pl, c, i)
    BY <1>4, <1>5, <1>6 DEF Pending
<1>8. Placed(live, pl, i) => Placed(live', pl, i)
    <2>1. CASE i = Last(pl)
        <3>1. MainPlace(pl) = <<"full", pl.files[i].rollout>>
            BY <2>1, <1>1, Places, PlanShape
        <3>2. live'[MainPlace(pl)] = live[MainPlace(pl)]
            BY <3>1, <1>3, <1>5
        <3> QED
            BY <3>2, <2>1 DEF Placed, VisibleIn
    <2>2. CASE i # Last(pl)
        BY <2>2, <1>4 DEF Placed
    <2> QED
        BY <2>1, <2>2
<1>9. Knows(live, pc[p], pl, at[p], c, i)
    BY DEF Working
<1> QED
    BY <1>7, <1>8, <1>9 DEF Knows, Finishing

\* The work of an importer whose own file is being written.
LEMMA WritingWorking ==
    ASSUME TypeOK, Control, Working, NEW p \in Proc, PublishPrefix(p) \/ LinkFile(p),
           NEW i \in Indices(plan[p])
    PROVE  /\ plan'[p] = plan[p] /\ pc'[p] \notin {"idle", "check"}
           /\ Knows(live', pc'[p], plan'[p], at'[p], choice'[p], i)
<1> DEFINE pl == plan[p]
           k == at[p]
           content == pl.files[k].content
           r == pl.files[k].rollout
<1>0. Frames
    BY DEF TypeOK, Control, Frames
<1>1. CASE PublishPrefix(p)
    <2> DEFINE place == <<"pre", r>>
    <2>1. /\ live' = [live EXCEPT ![place] = content]
          /\ pc[p] = "file" /\ Goto(p, "syncPrefix")
          /\ UNCHANGED <<plan, at, choice, guards, nativeVars, failures>>
          /\ live[place] = choice[p].old[k] /\ live[place] # Absent
          /\ IsPrefixOf(live[place], content)
          /\ Agrees(live, pl, k, "full")
          /\ k \in choice[p].exists <=> k # Last(pl) \/ Copy(live, pl, k, "full") # Absent
        BY <1>1, PublishPrefixGrows
    <2>2. pc'[p] = "syncPrefix"
        BY <2>1, <1>0 DEF Goto, Frames
    <2>3. /\ place \in Place /\ place[2] = r /\ live \in Home /\ k \in Indices(pl)
          /\ <<"full", r>> \in Place /\ <<"full", r>> # place
        BY <2>1, InWork, Places DEF Loc
    <2>4. CASE i # k
        <3>1. Knows(live', "syncPrefix", pl, k, choice[p], i)
            BY <2>1, <2>3, <2>4, WriteWorking
        <3> QED
            BY <3>1, <2>1, <2>2
    <2>5. CASE i = k
        <3>1. Copy(live', pl, k, "pre") = content
            BY <2>1, <2>3 DEF Copy, Home
        <3>2. Copy(live', pl, k, "full") = Copy(live, pl, k, "full")
            BY <2>1, <2>3 DEF Copy, Home
        <3>3. Agrees(live', pl, k, "full")
            BY <2>1, <3>2 DEF Agrees
        <3>4. Grown(live', pl, choice[p], k)
            BY <2>1, <3>1, <3>2, <3>3 DEF Grown
        <3>5. k \in Nat
            BY DEF Control
        <3>6. Knows(live', "syncPrefix", pl, k, choice[p], k)
            BY <3>4, <3>5 DEF Knows, Finishing
        <3> QED
            BY <3>6, <2>1, <2>2, <2>5
    <2> QED
        BY <2>1, <2>2, <2>4, <2>5
<1>2. CASE LinkFile(p)
    <2> DEFINE place == Destination(pl, k)
    <2>1. /\ live' = [live EXCEPT ![place] = content]
          /\ AtLink(p) /\ Goto(p, "syncLink")
          /\ UNCHANGED <<plan, at, choice, guards, nativeVars, failures>>
          /\ k = Last(pl) => IsPrefixOf(Copy(live, pl, k, "pre"), content)
          /\ k # Last(pl) => Copy(live, pl, k, "full") = Absent
        BY <1>2, LinkFileGrows
    <2>2. pc'[p] = "syncLink" /\ pc[p] \in {"file", "link"}
        BY <2>1, <1>0 DEF Goto, Frames, AtLink
    <2>3. /\ place \in Place /\ live \in Home /\ k \in Indices(pl) /\ pl \in Plans
          /\ r \in Rollout
        BY <2>2, InWork
    <2>4. /\ place[2] = r
          /\ place = <<IF k = Last(pl) THEN "full" ELSE "pre", r>>
        BY <2>3, Places
    <2>5. CASE i # k
        <3>1. Knows(live', "syncLink", pl, k, choice[p], i)
            BY <2>1, <2>2, <2>3, <2>4, <2>5, WriteWorking
        <3> QED
            BY <3>1, <2>1, <2>2
    <2>6. CASE i = k
        <3>1. live'[place] = content
            BY <2>1, <2>3 DEF Home
        <3>2. k = Last(pl) => Copy(live', pl, k, "pre") = Copy(live, pl, k, "pre")
            <4>1. <<"pre", r>> # <<"full", r>>
                OBVIOUS
            <4>2. k = Last(pl) => place # <<"pre", r>>
                BY <4>1, <2>4
            <4>3. <<"pre", r>> \in Place
                BY <2>3, Places DEF Loc
            <4> QED
                BY <4>2, <4>3, <2>1, <2>3 DEF Copy, Home
        <3>3. k # Last(pl) => Copy(live', pl, k, "full") = Copy(live, pl, k, "full")
            <4>1. <<"pre", r>> # <<"full", r>>
                OBVIOUS
            <4>2. k # Last(pl) => place # <<"full", r>>
                BY <4>1, <2>4
            <4>3. <<"full", r>> \in Place
                BY <2>3, Places DEF Loc
            <4> QED
                BY <4>2, <4>3, <2>1, <2>3 DEF Copy, Home
        <3>4. Linked(live', pl, k)
            BY <3>1, <3>2, <3>3, <2>1 DEF Linked
        <3>5. k \in Nat
            BY DEF Control
        <3> QED
            BY <3>4, <3>5, <2>1, <2>2, <2>6 DEF Knows, Finishing
    <2> QED
        BY <2>1, <2>2, <2>5, <2>6
<1> QED
    BY <1>1, <1>2

\* A write of one importer touches no rollout of another one's plan.
LEMMA WritesApart ==
    ASSUME TypeOK, Control, Guarded, Working, NEW p \in Proc, Importer(p),
           NEW q \in Proc, q # p, pc[q] # "idle",
           NEW i \in Indices(plan[q]), NEW loc \in Loc
    PROVE  live'[<<loc, plan[q].files[i].rollout>>] = live[<<loc, plan[q].files[i].rollout>>]
<1> DEFINE mine == plan[q].files[i].rollout
<1>1. CASE PublishPrefix(p) \/ LinkFile(p)
    <2>1. pc[p] # "idle"
        BY <1>1 DEF PublishPrefix, LinkFile, AtLink
    <2>2. /\ plan[p] \in Plans /\ at[p] \in Indices(plan[p]) /\ live \in Home
          /\ plan[q] \in Plans
        BY <2>1, InWork
    <2> DEFINE theirs == plan[p].files[at[p]].rollout
    <2>3. theirs \in guards[p] /\ mine \in guards[q]
        BY <2>1, <2>2, PlanShape DEF Guarded
    <2>4. theirs # mine
        BY <2>3 DEF Guarded
    <2>5. PICK place \in Place : /\ place[2] = theirs
                                 /\ \E new : live' = [live EXCEPT ![place] = new]
        <3>1. CASE PublishPrefix(p)
            <4>1. <<"pre", theirs>> \in Place /\ <<"pre", theirs>>[2] = theirs
                BY <2>2, PlanShape, Places DEF Loc
            <4>2. live' = [live EXCEPT ![<<"pre", theirs>>] = plan[p].files[at[p]].content]
                BY <3>1, PublishPrefixGrows
            <4> QED
                BY <4>1, <4>2
        <3>2. CASE LinkFile(p)
            <4>1. /\ Destination(plan[p], at[p]) \in Place
                  /\ Destination(plan[p], at[p])[2] = theirs
                BY <2>2, Places
            <4>2. live' = [live EXCEPT ![Destination(plan[p], at[p])] =
                                           plan[p].files[at[p]].content]
                BY <3>2, LinkFileGrows
            <4> QED
                BY <4>1, <4>2
        <3> QED
            BY <1>1, <3>1, <3>2
    <2>6. <<loc, mine>> \in Place /\ <<loc, mine>>[2] = mine
        BY <2>2, PlanShape, Places
    <2> QED
        BY <2>2, <2>4, <2>5, <2>6 DEF Home
<1>2. CASE ~(PublishPrefix(p) \/ LinkFile(p))
    BY <1>2, QuietMoves
<1> QED
    BY <1>1, <1>2

\* What an importer compared stays true.
LEMMA WorkingStep ==
    ASSUME TypeOK, Control, Guarded, Reserved, Durable, Working, [Next]_vars
    PROVE  Working'
<1>1. ASSUME NEW p \in Proc, Importer(p) PROVE Working'
    <2>1. Own(p) /\ Moves(p)
        BY <1>1, ImporterMoves
    <2>2. ASSUME NEW q \in Proc, pc'[q] \notin {"idle", "check"},
                 NEW i \in Indices(plan'[q])
          PROVE  Knows(live', pc'[q], plan'[q], at'[q], choice'[q], i)
        <3>1. CASE q # p
            <4>1. /\ pc'[q] = pc[q] /\ plan'[q] = plan[q] /\ at'[q] = at[q]
                  /\ choice'[q] = choice[q]
                BY <2>1, <3>1 DEF Own, TypeOK, Control
            <4>2. Knows(live, pc[q], plan[q], at[q], choice[q], i)
                BY <4>1, <2>2 DEF Working
            <4>3. plan[q] \in Plans
                BY <4>1, <2>2, InWork
            <4>4. \A j \in Indices(plan[q]), loc \in Loc :
                      live'[<<loc, plan[q].files[j].rollout>>] =
                      live[<<loc, plan[q].files[j].rollout>>]
                BY <4>1, <3>1, <2>2, <1>1, WritesApart
            <4> QED
                BY <4>1, <4>2, <4>3, <4>4, <2>2, Untouched
        <3>2. CASE q = p /\ (PublishPrefix(p) \/ LinkFile(p))
            <4>1. plan'[p] = plan[p]
                BY <3>2, InWork, WritingWorking DEF PublishPrefix, LinkFile, AtLink
            <4> QED
                BY <4>1, <3>2, <2>2, WritingWorking
        <3>3. CASE q = p /\ ~(PublishPrefix(p) \/ LinkFile(p))
            <4>1. live' = live /\ pc'[p] \notin {"syncPrefix", "syncLink"}
                BY <3>3, <1>1, QuietMoves
            <4> QED
                BY <4>1, <3>3, <2>1, <2>2, QuietWorking
        <3> QED
            BY <3>1, <3>2, <3>3
    <2> QED
        BY <2>2 DEF Working
<1>2. ASSUME Native \/ (\E place \in Place : WriteBack(place)) \/ UNCHANGED vars
      PROVE  Working'
    <2>1. UNCHANGED <<pc, plan, at, choice>>
        BY <1>2, NativeFrame
    <2>2. ASSUME NEW q \in Proc, pc[q] \notin {"idle", "check"}, NEW i \in Indices(plan[q])
          PROVE  Knows(live', pc[q], plan[q], at[q], choice[q], i)
        <3>1. plan[q] \in Plans /\ live \in Home
            BY <2>2, InWork
        <3>2. ASSUME NEW j \in Indices(plan[q]), NEW loc \in Loc
              PROVE  live'[<<loc, plan[q].files[j].rollout>>] =
                     live[<<loc, plan[q].files[j].rollout>>]
            <4>1. CASE \E r \in Rollout : NativeAppend(r) \/ NativeRevert(r)
                <5>1. PICK r \in Rollout : NativeAppend(r) \/ NativeRevert(r)
                    BY <4>1
                <5>2. PICK new : live' = [live EXCEPT ![<<"full", r>>] = new]
                    BY <5>1, NativeGrows
                <5>3. plan[q].files[j].rollout # r
                    BY <5>1, <2>2, NativeElsewhere
                <5>4. /\ <<loc, plan[q].files[j].rollout>> \in Place
                      /\ <<loc, plan[q].files[j].rollout>> # <<"full", r>>
                    BY <5>3, <3>1, PlanShape, Places
                <5> QED
                    BY <5>2, <5>4, <3>1 DEF Home
            <4>2. CASE ~\E r \in Rollout : NativeAppend(r) \/ NativeRevert(r)
                <5>1. live' = live
                    BY <4>2, <1>2 DEF Native, Indexer, NativeCreate, IndexStart,
                       IndexScan, IndexUpsert, IndexComplete, NativeLoad,
                       NativeUnload, WriteBack, vars
                <5> QED
                    BY <5>1
            <4> QED
                BY <4>1, <4>2
        <3>3. Knows(live, pc[q], plan[q], at[q], choice[q], i)
            BY <2>2 DEF Working
        <3> QED
            BY <3>1, <3>2, <3>3, <2>2, Untouched
    <2> QED
        BY <2>1, <2>2 DEF Working
<1>3. ASSUME MachineFailure PROVE Working'
    BY <1>3 DEF MachineFailure, Working
<1> QED
    BY <1>1, <1>2, <1>3, StepKinds

-----------------------------------------------------------------------------
(* The disk.                                                               *)

\* A copy of a rollout in work that differs from the disk is the one its
\* importer has still to sync.
LEMMA OwnUnsynced ==
    ASSUME TypeOK, Guarded, Durable, interrupts = 0, NEW p \in Proc, pc[p] # "idle",
           NEW i \in Indices(plan[p]), NEW loc \in Loc,
           NEW place, place = <<loc, plan[p].files[i].rollout>>,
           liveD[place] # live[place]
    PROVE  Unsynced(p, place)
<1>1. place \in Place /\ place[2] = plan[p].files[i].rollout
    BY InWork, PlanShape, Places
<1>2. PICK q \in Proc : Unsynced(q, place)
    BY <1>1 DEF Durable
<1>3. pc[q] # "idle"
    BY <1>2 DEF Unsynced
<1>4. plan[q] \in Plans /\ at[q] \in Indices(plan[q]) /\ plan[p] \in Plans
    BY <1>3, InWork
<1>5. place[2] = plan[q].files[at[q]].rollout
    BY <1>2, <1>4, PlanShape, Places DEF Unsynced, Loc
<1>6. place[2] \in guards[q] /\ place[2] \in guards[p]
    <2>1. guards[q] = Ids(plan[q]) /\ guards[p] = Ids(plan[p])
        BY <1>3 DEF Guarded
    <2>2. plan[q].files[at[q]].rollout \in Ids(plan[q])
        BY <1>4, PlanShape
    <2>3. plan[p].files[i].rollout \in Ids(plan[p])
        BY <1>4, PlanShape
    <2> QED
        BY <2>1, <2>2, <2>3, <1>1, <1>5
<1> QED
    BY <1>2, <1>6 DEF Guarded

\* A plan is on disk as it is in view, but for the file being synced.
LEMMA SyncedFiles ==
    ASSUME TypeOK, Guarded, Durable, interrupts = 0, NEW p \in Proc, pc[p] # "idle",
           NEW i \in Indices(plan[p]), NEW loc \in Loc,
           \/ pc[p] \notin {"syncPrefix", "syncLink"}
           \/ i # at[p]
           \/ pc[p] = "syncPrefix" /\ loc # "pre"
           \/ pc[p] = "syncLink" /\ <<loc, plan[p].files[i].rollout>> # Destination(plan[p], at[p])
    PROVE  liveD[<<loc, plan[p].files[i].rollout>>] = live[<<loc, plan[p].files[i].rollout>>]
<1> DEFINE place == <<loc, plan[p].files[i].rollout>>
<1> SUFFICES ASSUME liveD[place] # live[place] PROVE FALSE
    OBVIOUS
<1>1. Unsynced(p, place)
    BY OwnUnsynced
<1>2. plan[p] \in Plans /\ at[p] \in Indices(plan[p])
    BY InWork
<1>3. place[1] = loc /\ place[2] = plan[p].files[i].rollout
    BY <1>2, PlanShape, Places
<1>4. place[2] = plan[p].files[at[p]].rollout
    BY <1>1, <1>2, PlanShape, Places DEF Unsynced, Loc
<1>5. i = at[p]
    BY <1>2, <1>3, <1>4, LineageAssumption
<1>6. pc[p] = "syncPrefix" => loc = "pre"
    BY <1>1, <1>3, <1>2, PlanShape, Places DEF Unsynced, Loc
<1> QED
    BY <1>1, <1>5, <1>6 DEF Unsynced

\* What reaches the disk extends what was there.
LEMMA SyncGrows ==
    ASSUME TypeOK, Control, Guarded, Working, Durable, interrupts = 0,
           NEW place \in Place, liveD[place] # live[place]
    PROVE  Grows(liveD, place, live[place])
<1>1. PICK p \in Proc : Unsynced(p, place)
    BY DEF Durable
<1> DEFINE pl == plan[p]
           k == at[p]
           content == pl.files[k].content
           r == pl.files[k].rollout
<1>2. pc[p] \in {"syncPrefix", "syncLink"}
    BY <1>1 DEF Unsynced
<1>3. /\ pl \in Plans /\ k \in Indices(pl) /\ content \in History /\ content # Absent
      /\ r \in Rollout /\ live \in Home /\ liveD \in Home
    BY <1>2, InWork
<1>4. CASE pc[p] = "syncPrefix"
    <2>1. place = <<"pre", r>> /\ liveD[place] = choice[p].old[k]
        BY <1>1, <1>4 DEF Unsynced
    <2>2. Grown(live, pl, choice[p], k)
        BY <1>3, <1>4 DEF Working, Knows
    <2>3. /\ live[place] = content /\ liveD[place] # Absent
          /\ IsPrefixOf(liveD[place], content)
        BY <2>1, <2>2 DEF Grown, Copy
    <2> QED
        BY <2>1, <2>3, <1>3, ManagedPath DEF Grows
<1>5. CASE pc[p] = "syncLink"
    <2>1. place = Destination(pl, k) /\ liveD[place] = Absent
        BY <1>1, <1>5 DEF Unsynced
    <2>2. Linked(live, pl, k)
        BY <1>3, <1>5 DEF Working, Knows
    <2>3. /\ place = <<IF k = Last(pl) THEN "full" ELSE "pre", r>> /\ place[2] = r
          /\ live[place] = content
        BY <2>1, <2>2, <1>3, Places DEF Linked
    <2>4. IsPrefixOf(Absent, content)
        BY <1>3, PrefixReflexive
    <2>5. ASSUME NEW loc \in Loc PROVE IsPrefixOf(liveD[<<loc, r>>], content)
        <3>1. CASE <<loc, r>> = place
            BY <3>1, <2>1, <2>4
        <3>2. CASE <<loc, r>> # place
            <4>1. liveD[<<loc, r>>] = live[<<loc, r>>]
                BY <3>2, <2>1, <1>3, <1>5, SyncedFiles
            <4>2. loc = IF k = Last(pl) THEN "pre" ELSE "full"
                BY <3>2, <2>3 DEF Loc
            <4> QED
                BY <4>1, <4>2, <2>2, <2>4 DEF Linked, Copy
        <3> QED
            BY <3>1, <3>2
    <2>6. ASSUME NEW other \in Plans, MainPlace(other) = place
          PROVE  InheritsIn(liveD, other)
        <3>1. k = Last(pl)
            BY <2>3, <2>6, ManagedPath
        <3>2. Main(other).rollout = r /\ Main(pl).rollout = r
            BY <3>1, <1>3, <2>3, <2>6, PlanShape, Places
        <3>3. ASSUME NEW i \in Indices(pl) \ {Last(pl)} PROVE Placed(liveD, pl, i)
            <4>1. Placed(live, pl, i)
                BY <3>1, <1>5, AncestorsPlaced
            <4>2. \A loc \in Loc : Copy(liveD, pl, i, loc) = Copy(live, pl, i, loc)
                BY <3>1, <1>5, SyncedFiles DEF Copy
            <4> QED
                BY <4>1, <4>2 DEF Placed
        <3> QED
            BY <3>2, <3>3, <1>3, SameLineage
    <2> QED
        BY <2>1, <2>3, <2>4, <2>5, <2>6, <1>3 DEF Grows
<1> QED
    BY <1>2, <1>4, <1>5

\* The steps of an importer that neither write, sync nor are interrupted.
LEMMA IdleDisk ==
    ASSUME TypeOK, Control, NEW p \in Proc, Importer(p), interrupts' = 0,
           interrupts = 0,
           ~PublishPrefix(p), ~LinkFile(p), ~SyncPrefix(p), ~SyncLink(p)
    PROVE  live' = live /\ liveD' = liveD /\ pc[p] \notin {"syncPrefix", "syncLink"}
<1>1. ~Interrupt(p) /\ ~CommitUnknown(p)
    BY DEF Interrupt, CommitUnknown
<1> QED
    BY <1>1 DEF Importer, Progress, Acquire, CheckConflicts, BeginSelectionUpdate,
       ReuseFile, FinishUpdate, FinishPublicationSelection, AtLink

\* Interruptions are not forgotten.
LEMMA InterruptsGrow ==
    ASSUME TypeOK, [Next]_vars, interrupts' = 0
    PROVE  interrupts = 0
<1>1. interrupts \in Nat
    BY PublicationAssumption DEF TypeOK
<1>2. interrupts' = interrupts \/ interrupts' = interrupts + 1
    <2>1. CASE \E p \in Proc : Importer(p)
        BY <2>1 DEF Importer, Progress, Acquire, CheckConflicts,
           BeginSelectionUpdate, PublishPrefix, SyncPrefix, LinkFile,
           SyncLink, ReuseFile, FinishUpdate, FinishPublicationSelection,
           CommitUnknown, Interrupt, Interruptible
    <2>2. CASE MachineFailure
        BY <2>2 DEF MachineFailure
    <2>3. CASE Native \/ (\E place \in Place : WriteBack(place)) \/ UNCHANGED vars
        BY <2>3, NativeFrame
    <2> QED
        BY <2>1, <2>2, <2>3, StepKinds
<1> QED
    BY <1>1, <1>2

\* Only a file in work differs from the disk, after a step.
LEMMA DurableStep ==
    ASSUME TypeOK, Control, Guarded, Reserved, Working, Durable, [Next]_vars
    PROVE  Durable'
<1> SUFFICES ASSUME interrupts' = 0, NEW place \in Place, liveD'[place] # live'[place]
             PROVE  \E q \in Proc : Unsynced(q, place)'
    BY DEF Durable
<1>1. interrupts = 0
    BY InterruptsGrow
<1>2. live \in Home /\ liveD \in Home
    BY DEF TypeOK, Home, History
<1>3. ASSUME NEW p \in Proc, Importer(p) PROVE \E q \in Proc : Unsynced(q, place)'
    <2>1. Own(p)
        BY <1>3, ImporterMoves
    <2>2. ASSUME NEW q \in Proc, q # p, Unsynced(q, place), liveD'[place] = liveD[place]
          PROVE  Unsynced(q, place)'
        <3>1. /\ pc'[q] = pc[q] /\ plan'[q] = plan[q] /\ at'[q] = at[q]
              /\ choice'[q] = choice[q]
            BY <2>1, <2>2 DEF Own, TypeOK, Control
        <3> QED
            BY <3>1, <2>2 DEF Unsynced
    <2>3. CASE PublishPrefix(p) \/ LinkFile(p)
        <3>1. PICK own \in Place :
                  /\ own = IF PublishPrefix(p)
                           THEN <<"pre", plan[p].files[at[p]].rollout>>
                           ELSE Destination(plan[p], at[p])
                  /\ \E new : live' = [live EXCEPT ![own] = new]
                  /\ liveD' = liveD /\ UNCHANGED <<plan, at, choice>>
                  /\ pc[p] \in {"file", "link"}
                  /\ \/ pc'[p] = "syncPrefix" /\ live[own] = choice[p].old[at[p]]
                        /\ PublishPrefix(p)
                     \/ pc'[p] = "syncLink" /\ live[own] = Absent /\ ~PublishPrefix(p)
            <4>1. pc[p] # "idle"
                BY <2>3 DEF PublishPrefix, LinkFile, AtLink
            <4>2. /\ <<"pre", plan[p].files[at[p]].rollout>> \in Place
                  /\ Destination(plan[p], at[p]) \in Place
                BY <4>1, InWork
            <4>3. CASE PublishPrefix(p)
                <5>1. Goto(p, "syncPrefix") /\ pc[p] = "file"
                    BY <4>3, PublishPrefixGrows
                <5>2. pc'[p] = "syncPrefix"
                    BY <5>1 DEF Goto, TypeOK
                <5> QED
                    BY <4>2, <4>3, <5>1, <5>2, PublishPrefixGrows
            <4>4. CASE ~PublishPrefix(p)
                <5>1. Goto(p, "syncLink") /\ AtLink(p)
                    BY <2>3, <4>4, LinkFileGrows
                <5>2. pc'[p] = "syncLink" /\ pc[p] \in {"file", "link"}
                    BY <5>1 DEF Goto, TypeOK, AtLink
                <5> QED
                    BY <2>3, <4>2, <4>4, <5>2, LinkFileGrows
            <4> QED
                BY <4>3, <4>4
        <3>2. /\ plan[p] \in Plans /\ at[p] \in Indices(plan[p]) /\ pc[p] # "idle"
            BY <3>1, InWork
        <3>3. liveD[own] = live[own]
            <4>1. PICK loc \in Loc : own = <<loc, plan[p].files[at[p]].rollout>>
                <5>1. \/ own = <<"pre", plan[p].files[at[p]].rollout>>
                      \/ own = Destination(plan[p], at[p])
                    BY <3>1
                <5>2. "pre" \in Loc /\ "full" \in Loc
                    BY DEF Loc
                <5>3. Destination(plan[p], at[p]) =
                          <<IF at[p] = Last(plan[p]) THEN "full" ELSE "pre",
                            plan[p].files[at[p]].rollout>>
                    BY <3>2, Places
                <5> QED
                    BY <5>1, <5>2, <5>3
            <4>2. pc[p] \notin {"syncPrefix", "syncLink"}
                BY <3>1
            <4>3. liveD[<<loc, plan[p].files[at[p]].rollout>>]
                      = live[<<loc, plan[p].files[at[p]].rollout>>]
                BY <3>2, <4>2, <1>1, SyncedFiles
            <4> QED
                BY <4>1, <4>3
        <3>4. CASE place = own
            <4>1. Unsynced(p, place)'
                BY <3>1, <3>3, <3>4 DEF Unsynced
            <4> QED
                BY <4>1
        <3>5. CASE place # own
            <4>1. live'[place] = live[place] /\ liveD'[place] = liveD[place]
                BY <3>1, <3>5, <1>2 DEF Home
            <4>2. PICK q \in Proc : Unsynced(q, place)
                BY <4>1, <1>1 DEF Durable
            <4>3. q # p
                BY <4>2, <3>1 DEF Unsynced
            <4> QED
                BY <4>1, <4>2, <4>3, <2>2
        <3> QED
            BY <3>4, <3>5
    <2>4. CASE SyncPrefix(p) \/ SyncLink(p)
        <3>1. PICK own :
                  /\ own = IF SyncPrefix(p)
                           THEN <<"pre", plan[p].files[at[p]].rollout>>
                           ELSE Destination(plan[p], at[p])
                  /\ liveD' = [liveD EXCEPT ![own] = live[own]] /\ live' = live
                  /\ pc[p] = IF SyncPrefix(p) THEN "syncPrefix" ELSE "syncLink"
            BY <2>4 DEF SyncPrefix, SyncLink
        <3>2. own \in Place
            BY <3>1, InWork
        <3>3. place # own
            BY <3>1, <3>2, <1>2 DEF Home
        <3>4. live'[place] = live[place] /\ liveD'[place] = liveD[place]
            BY <3>1, <3>2, <3>3, <1>2 DEF Home
        <3>5. PICK q \in Proc : Unsynced(q, place)
            BY <3>4, <1>1 DEF Durable
        <3>6. q # p
            BY <3>1, <3>3, <3>5 DEF Unsynced
        <3> QED
            BY <3>4, <3>5, <3>6, <2>2
    <2>5. CASE ~(PublishPrefix(p) \/ LinkFile(p) \/ SyncPrefix(p) \/ SyncLink(p))
        <3>1. live' = live /\ liveD' = liveD /\ pc[p] \notin {"syncPrefix", "syncLink"}
            BY <2>5, <1>1, <1>3, IdleDisk
        <3>2. PICK q \in Proc : Unsynced(q, place)
            BY <3>1, <1>1 DEF Durable
        <3>3. q # p
            BY <3>1, <3>2 DEF Unsynced
        <3> QED
            BY <3>1, <3>2, <3>3, <2>2
    <2> QED
        BY <2>3, <2>4, <2>5
<1>4. ASSUME Native \/ (\E q \in Place : WriteBack(q)) \/ UNCHANGED vars
      PROVE  \E q \in Proc : Unsynced(q, place)'
    <2>1. UNCHANGED <<pc, plan, at, choice>>
        BY <1>4, NativeFrame
    <2>2. live'[place] = live[place] /\ liveD'[place] = liveD[place]
        <3>1. CASE \E r \in Rollout : NativeAppend(r) \/ NativeRevert(r)
            <4>0. PICK r \in Rollout : NativeAppend(r) \/ NativeRevert(r)
                BY <3>1
            <4>1. PICK new :
                      /\ live' = [live EXCEPT ![<<"full", r>>] = new]
                      /\ liveD' = [liveD EXCEPT ![<<"full", r>>] = new]
                BY <4>0, NativeGrows
            <4> QED
                BY <4>1, <1>2 DEF Home
        <3>2. CASE \E q \in Place : WriteBack(q)
            <4>1. PICK q \in Place : WriteBack(q)
                BY <3>2
            <4>2. live' = live /\ liveD' = [liveD EXCEPT ![q] = live[q]]
                BY <4>1 DEF WriteBack
            <4> QED
                BY <4>2, <1>2 DEF Home
        <3>3. CASE /\ ~\E r \in Rollout : NativeAppend(r) \/ NativeRevert(r)
                   /\ ~\E q \in Place : WriteBack(q)
            <4>1. live' = live /\ liveD' = liveD
                BY <3>3, <1>4 DEF Native, Indexer, NativeCreate, IndexStart,
                   IndexScan, IndexUpsert, IndexComplete, NativeLoad,
                   NativeUnload, vars
            <4> QED
                BY <4>1
        <3> QED
            BY <3>1, <3>2, <3>3
    <2>3. PICK q \in Proc : Unsynced(q, place)
        BY <2>2, <1>1 DEF Durable
    <2> QED
        BY <2>1, <2>2, <2>3 DEF Unsynced
<1>5. CASE MachineFailure
    BY <1>5 DEF MachineFailure
<1> QED
    BY <1>3, <1>4, <1>5, StepKinds

-----------------------------------------------------------------------------
(* The home and the database.                                               *)

\* Every step leaves the home in view alone, lets one file of it grow, or is a
\* machine failure.
LEMMA LiveSteps ==
    ASSUME TypeOK, Control, Guarded, Working, Durable, [Next]_vars
    PROVE  \/ live' = live \/ MachineFailure
           \/ \E place, new : /\ live' = [live EXCEPT ![place] = new]
                              /\ Grows(live, place, new)
                              /\ \/ live[place] = Absent \/ place[1] = "pre"
                                 \/ ThreadOf[place[2]] \in loaded
<1>1. ASSUME NEW p \in Proc, PublishPrefix(p)
      PROVE  \E place, new : /\ live' = [live EXCEPT ![place] = new]
                             /\ Grows(live, place, new) /\ place[1] = "pre"
    <2> DEFINE place == <<"pre", plan[p].files[at[p]].rollout>>
    <2>1. place[1] = "pre"
        OBVIOUS
    <2> HIDE DEF place
    <2>2. /\ live' = [live EXCEPT ![place] = plan[p].files[at[p]].content]
          /\ Grows(live, place, plan[p].files[at[p]].content)
        BY <1>1, PublishPrefixGrows DEF place
    <2> QED
        BY <2>1, <2>2
<1>2. ASSUME NEW p \in Proc, LinkFile(p)
      PROVE  \E place, new : /\ live' = [live EXCEPT ![place] = new]
                             /\ Grows(live, place, new) /\ live[place] = Absent
    BY <1>2, LinkFileGrows
<1>3. ASSUME NEW r \in Rollout, NativeAppend(r) \/ NativeRevert(r)
      PROVE  \E place, new : /\ live' = [live EXCEPT ![place] = new]
                             /\ Grows(live, place, new)
                             /\ ThreadOf[place[2]] \in loaded
    <2>1. PICK new : /\ live' = [live EXCEPT ![<<"full", r>>] = new]
                     /\ Grows(live, <<"full", r>>, new)
        BY <1>3, NativeGrows
    <2>2. ThreadOf[r] \in loaded
        BY <1>3 DEF NativeAppend, NativeRevert
    <2>3. <<"full", r>>[2] = r
        OBVIOUS
    <2> QED
        BY <2>1, <2>2, <2>3
<1>4. ASSUME NEW p \in Proc, Importer(p), ~PublishPrefix(p), ~LinkFile(p)
      PROVE  live' = live
    BY <1>4, QuietMoves
<1>5. CASE (Native /\ ~\E r \in Rollout : NativeAppend(r) \/ NativeRevert(r))
           \/ (\E place \in Place : WriteBack(place)) \/ UNCHANGED vars
    BY <1>5 DEF Native, Indexer, NativeCreate, IndexStart, IndexScan, IndexUpsert,
       IndexComplete, NativeLoad, NativeUnload, WriteBack, vars
<1> QED
    BY <1>1, <1>2, <1>3, <1>4, <1>5, StepKinds

\* And until something is interrupted the disk only grows.
LEMMA DiskSteps ==
    ASSUME TypeOK, Control, Guarded, Reserved, Working, Durable, [Next]_vars,
           interrupts' = 0
    PROVE  \/ liveD' = liveD
           \/ \E place, new : /\ liveD' = [liveD EXCEPT ![place] = new]
                              /\ Grows(liveD, place, new)
<1>1. interrupts = 0
    BY InterruptsGrow
<1>2. liveD \in Home
    BY DEF TypeOK, Home, History
<1>3. ASSUME NEW place \in Place, liveD' = [liveD EXCEPT ![place] = live[place]]
      PROVE  \/ liveD' = liveD
             \/ \E q, new : /\ liveD' = [liveD EXCEPT ![q] = new]
                            /\ Grows(liveD, q, new)
    <2>1. CASE liveD[place] = live[place]
        BY <1>2, <1>3, <2>1 DEF Home
    <2>2. CASE liveD[place] # live[place]
        BY <1>1, <1>3, <2>2, SyncGrows
    <2> QED
        BY <2>1, <2>2
<1>4. ASSUME NEW p \in Proc, SyncPrefix(p) \/ SyncLink(p)
      PROVE  \E place \in Place : liveD' = [liveD EXCEPT ![place] = live[place]]
    <2>1. pc[p] # "idle"
        BY <1>4 DEF SyncPrefix, SyncLink
    <2>2. /\ <<"pre", plan[p].files[at[p]].rollout>> \in Place
          /\ Destination(plan[p], at[p]) \in Place
        BY <2>1, InWork
    <2> QED
        BY <1>4, <2>2 DEF SyncPrefix, SyncLink
<1>5. ASSUME NEW place \in Place, WriteBack(place)
      PROVE  liveD' = [liveD EXCEPT ![place] = live[place]]
    BY <1>5 DEF WriteBack
<1>6. ASSUME NEW r \in Rollout, NativeAppend(r) \/ NativeRevert(r)
      PROVE  \E place, new : /\ liveD' = [liveD EXCEPT ![place] = new]
                             /\ Grows(liveD, place, new)
    BY <1>1, <1>6, NativeGrows
<1>7. ASSUME NEW p \in Proc, Importer(p), ~SyncPrefix(p), ~SyncLink(p)
      PROVE  liveD' = liveD
    BY <1>7 DEF Importer, Progress, Acquire, CheckConflicts, BeginSelectionUpdate,
       PublishPrefix, LinkFile, ReuseFile, FinishUpdate,
       FinishPublicationSelection, CommitUnknown, Interrupt
<1>8. CASE (Native /\ ~\E r \in Rollout : NativeAppend(r) \/ NativeRevert(r))
           \/ MachineFailure \/ UNCHANGED vars
    BY <1>8 DEF Native, Indexer, NativeCreate, IndexStart, IndexScan, IndexUpsert,
       IndexComplete, NativeLoad, NativeUnload, MachineFailure, vars
<1> QED
    BY <1>3, <1>4, <1>5, <1>6, <1>7, <1>8, StepKinds

\* A file that is there stays there, unless the machine fails.
LEMMA PresentStays ==
    ASSUME TypeOK, Control, Guarded, Working, Durable, [Next]_vars, ~MachineFailure,
           NEW place \in Place, live[place] # Absent
    PROVE  live'[place] # Absent
<1>1. live \in Home
    BY DEF TypeOK, Home, History
<1> QED
    BY <1>1, LiveSteps DEF Grows, Home

\* Nor does a conversation disappear.
LEMMA VisibleStays ==
    ASSUME TypeOK, Control, Guarded, Working, Durable, [Next]_vars, ~MachineFailure,
           NEW pl \in Plans, VisibleIn(live, pl)
    PROVE  VisibleIn(live', pl)
<1>1. live \in Home
    BY DEF TypeOK, Home, History
<1>2. CASE live' = live
    BY <1>2
<1>3. CASE \E place, new : /\ live' = [live EXCEPT ![place] = new]
                           /\ Grows(live, place, new)
    <2>1. PICK place, new : /\ live' = [live EXCEPT ![place] = new]
                            /\ Grows(live, place, new)
        BY <1>3
    <2>2. VisibleIn([live EXCEPT ![place] = new], pl)
        BY <2>1, <1>1, GrowKeeps
    <2> QED
        BY <2>1, <2>2
<1> QED
    BY <1>2, <1>3, LiveSteps

\* A success is reported by an importer whose whole plan is in place.
LEMMA ConfirmedSteps ==
    ASSUME TypeOK, Control, Guarded, Reserved, Working, Durable, [Next]_vars
    PROVE  \/ confirmed' = confirmed
           \/ \E p \in Proc :
                 /\ Importer(p) /\ pc[p] # "idle"
                 /\ confirmed' = confirmed \cup {plan[p]} /\ plan[p] \in Plans
                 /\ VisibleIn(live, plan[p]) /\ live' = live
                 /\ pc[p] = "syncLink" => SyncLink(p)
                 /\ pc[p] # "syncPrefix"
<1>1. ASSUME NEW p \in Proc, Importer(p), confirmed' # confirmed
      PROVE  /\ pc[p] # "idle"
             /\ confirmed' = confirmed \cup {plan[p]} /\ plan[p] \in Plans
             /\ VisibleIn(live, plan[p]) /\ live' = live
             /\ pc[p] = "syncLink" => SyncLink(p)
             /\ pc[p] # "syncPrefix"
    <2>1. \/ SyncLink(p) \/ ReuseFile(p) \/ FinishUpdate(p)
          \/ FinishPublicationSelection(p)
        BY <1>1 DEF Importer, Progress, Acquire, CheckConflicts,
           BeginSelectionUpdate, PublishPrefix, SyncPrefix, LinkFile,
           CommitUnknown, Interrupt, Fail
    <2>2. /\ confirmed' = confirmed \cup {plan[p]} /\ live' = live
          /\ pc[p] = "syncLink" => SyncLink(p)
          /\ pc[p] \notin {"idle", "check", "syncPrefix"}
        BY <2>1, <1>1 DEF SyncLink, ReuseFile, FinishUpdate, NextFile, AtLink,
           FinishPublicationSelection, Fail
    <2>3. plan[p] \in Plans /\ at[p] \in Indices(plan[p])
        BY <2>2, InWork
    <2>4. Placed(live, plan[p], Last(plan[p]))
        <3>1. CASE SyncLink(p) \/ ReuseFile(p)
            <4>1. Finished(p) /\ NextFile(p)
                BY <3>1 DEF SyncLink, ReuseFile, Finished
            <4>2. ~(at[p] < Last(plan[p]))
                BY <4>1, <1>1 DEF NextFile
            <4>3. at[p] = Last(plan[p])
                BY <4>2, <2>3, PlanShape DEF Indices
            <4> QED
                BY <4>1, <4>3, FinishedPlaced
        <3>2. CASE FinishUpdate(p) \/ FinishPublicationSelection(p)
            <4>1. pc[p] \in Finishing
                BY <3>2 DEF FinishUpdate, FinishPublicationSelection, Finishing
            <4>2. at[p] = Last(plan[p])
                BY <4>1 DEF Control
            <4> QED
                BY <4>1, <4>2, <2>2, <2>3 DEF Working, Knows
        <3> QED
            BY <2>1, <3>1, <3>2
    <2> QED
        BY <2>2, <2>3, <2>4 DEF Placed
<1>2. ASSUME ~\E p \in Proc : Importer(p) PROVE confirmed' = confirmed
    <2>1. CASE MachineFailure
        BY <2>1 DEF MachineFailure
    <2>2. CASE Native \/ (\E place \in Place : WriteBack(place)) \/ UNCHANGED vars
        BY <2>2, NativeFrame
    <2> QED
        BY <1>2, <2>1, <2>2, StepKinds
<1> QED
    BY <1>1, <1>2

\* Lineages stay closed and reported conversations stay, in view and on disk.
LEMMA ResumableStep ==
    ASSUME TypeOK, Control, Guarded, Reserved, Working, Durable, Resumable, [Next]_vars
    PROVE  Resumable'
<1>1. live \in Home /\ liveD \in Home /\ confirmed \in SUBSET Plans
    BY DEF TypeOK, Home, History
<1>2. ASSUME MachineFailure PROVE Resumable'
    <2>1. /\ live' = liveD /\ liveD' = liveD /\ interrupts = 0
          /\ interrupts' = interrupts /\ confirmed' = confirmed
        BY <1>2 DEF MachineFailure
    <2> QED
        BY <2>1 DEF Resumable, Kept
<1>3. ASSUME ~MachineFailure PROVE Closed(live')
    <2>1. CASE live' = live
        BY <2>1 DEF Resumable
    <2>2. CASE \E place, new : /\ live' = [live EXCEPT ![place] = new]
                               /\ Grows(live, place, new)
        <3>1. PICK place, new : /\ live' = [live EXCEPT ![place] = new]
                                /\ Grows(live, place, new)
            BY <2>2
        <3>2. Closed([live EXCEPT ![place] = new])
            BY <3>1, <1>1, GrowCloses DEF Resumable
        <3> QED
            BY <3>1, <3>2
    <2> QED
        BY <1>3, <2>1, <2>2, LiveSteps
<1>4. ASSUME interrupts' = 0 PROVE Closed(liveD')
    <2>1. interrupts = 0
        BY <1>4, InterruptsGrow
    <2>2. CASE liveD' = liveD
        BY <2>1, <2>2 DEF Resumable
    <2>3. CASE \E place, new : /\ liveD' = [liveD EXCEPT ![place] = new]
                               /\ Grows(liveD, place, new)
        <3>1. PICK place, new : /\ liveD' = [liveD EXCEPT ![place] = new]
                                /\ Grows(liveD, place, new)
            BY <2>3
        <3>2. Closed([liveD EXCEPT ![place] = new])
            BY <3>1, <2>1, <1>1, GrowCloses DEF Resumable
        <3> QED
            BY <3>1, <3>2
    <2> QED
        BY <1>4, <2>2, <2>3, DiskSteps
<1>5. ASSUME ~MachineFailure, NEW pl \in Plans, VisibleIn(live, pl)
      PROVE  VisibleIn(live', pl)
    BY <1>5, VisibleStays
<1>6. ASSUME interrupts' = 0, NEW pl \in Plans, VisibleIn(liveD, pl)
      PROVE  VisibleIn(liveD', pl)
    <2>1. CASE liveD' = liveD
        BY <2>1, <1>6
    <2>2. CASE \E place, new : /\ liveD' = [liveD EXCEPT ![place] = new]
                               /\ Grows(liveD, place, new)
        <3>1. PICK place, new : /\ liveD' = [liveD EXCEPT ![place] = new]
                                /\ Grows(liveD, place, new)
            BY <2>2
        <3>2. VisibleIn([liveD EXCEPT ![place] = new], pl)
            BY <3>1, <1>1, <1>6, GrowKeeps
        <3> QED
            BY <3>1, <3>2
    <2> QED
        BY <1>6, <2>1, <2>2, DiskSteps
<1>7. ASSUME ~MachineFailure, NEW pl \in confirmed' PROVE VisibleIn(live', pl)
    <2>1. CASE pl \in confirmed
        BY <2>1, <1>1, <1>5, <1>7 DEF Resumable, Kept
    <2>2. CASE pl \notin confirmed
        <3>1. VisibleIn(live, pl) /\ live' = live
            BY <2>2, <1>7, ConfirmedSteps
        <3> QED
            BY <3>1
    <2> QED
        BY <2>1, <2>2
<1>8. ASSUME interrupts' = 0, NEW pl \in confirmed' PROVE VisibleIn(liveD', pl)
    <2>0. interrupts = 0
        BY <1>8, InterruptsGrow
    <2>1. CASE pl \in confirmed
        BY <2>0, <2>1, <1>1, <1>6, <1>8 DEF Resumable, Kept
    <2>2. CASE pl \notin confirmed
        <3>1. PICK p \in Proc :
                 /\ Importer(p) /\ pc[p] # "idle" /\ pl = plan[p] /\ plan[p] \in Plans
                 /\ VisibleIn(live, plan[p])
                 /\ pc[p] = "syncLink" => SyncLink(p)
                 /\ pc[p] # "syncPrefix"
            BY <2>2, <1>8, ConfirmedSteps
        <3> DEFINE main == MainPlace(plan[p])
                   last == Last(plan[p])
        <3>2. /\ main = <<"full", plan[p].files[last].rollout>> /\ main \in Place
              /\ last \in Indices(plan[p])
            BY <3>1, Places, PlanShape
        <3>3. liveD'[main] = live[main]
            <4>1. CASE pc[p] = "syncLink"
                <5>1. liveD' = [liveD EXCEPT ![Destination(plan[p], at[p])] =
                                    live[Destination(plan[p], at[p])]]
                    BY <4>1, <3>1 DEF SyncLink
                <5>2. CASE main = Destination(plan[p], at[p])
                    BY <5>1, <5>2, <3>2, <1>1 DEF Home
                <5>3. CASE main # Destination(plan[p], at[p])
                    <6>1. liveD[main] = live[main]
                        BY <5>3, <4>1, <3>1, <3>2, <2>0, SyncedFiles DEF Loc
                    <6> QED
                        BY <6>1, <5>1, <5>3, <3>2, <1>1 DEF Home
                <5> QED
                    BY <5>2, <5>3
            <4>2. CASE pc[p] # "syncLink"
                <5>1. liveD[main] = live[main]
                    BY <4>2, <3>1, <3>2, <2>0, SyncedFiles DEF Loc
                <5>2. ~SyncLink(p) /\ ~SyncPrefix(p)
                    BY <4>2, <3>1 DEF SyncLink, SyncPrefix
                <5>3. liveD' = liveD
                    BY <5>2, <3>1 DEF Importer, Progress, Acquire, CheckConflicts,
                       BeginSelectionUpdate, PublishPrefix, LinkFile, ReuseFile,
                       FinishUpdate, FinishPublicationSelection, CommitUnknown, Interrupt
                <5> QED
                    BY <5>1, <5>3
            <4> QED
                BY <4>1, <4>2
        <3> QED
            BY <3>1, <3>3 DEF VisibleIn
    <2> QED
        BY <2>1, <2>2
<1> QED
    BY <1>2, <1>3, <1>4, <1>7, <1>8 DEF Resumable, Kept

\* What the indexer found is still there.
LEMMA ScannedStep ==
    ASSUME TypeOK, Control, Guarded, Reserved, Working, Durable, Scanned, [Next]_vars
    PROVE  Scanned'
<1>1. ASSUME MachineFailure PROVE Scanned'
    BY <1>1 DEF MachineFailure, Scanned
<1>2. ASSUME ~MachineFailure, NEW place \in index'.found PROVE live'[place] # Absent
    <2>1. index.found \subseteq Place
        BY DEF TypeOK
    <2>2. CASE place \in index.found
        BY <1>2, <2>1, <2>2, PresentStays DEF Scanned
    <2>3. CASE place \notin index.found
        <3>1. ASSUME NEW p \in Proc, Importer(p) PROVE FALSE
            BY <3>1, <2>3, <1>2, ImporterMoves DEF Own
        <3>2. ASSUME NEW loc \in Loc, IndexScan(loc) PROVE live'[place] # Absent
            <4> DEFINE more == {q \in Place : q[1] = loc /\ live[q] # Absent}
            <4>1. /\ index' = [index EXCEPT !.scanned = @ \cup {loc},
                                            !.found = @ \cup more]
                  /\ live' = live
                BY <3>2 DEF IndexScan
            <4>2. index'.found = index.found \cup more
                BY <4>1 DEF TypeOK
            <4> QED
                BY <4>1, <4>2, <2>3
        <3>3. CASE IndexStart \/ IndexComplete
            BY <3>3, <1>2 DEF IndexStart, IndexComplete
        <3>4. CASE IndexUpsert
            BY <3>4, <2>3, <1>2 DEF IndexUpsert, TypeOK
        <3>5. CASE NativeCreate \/ (\E t \in Thread : NativeLoad(t) \/ NativeUnload(t))
                   \/ (\E r \in Rollout : NativeAppend(r) \/ NativeRevert(r))
                   \/ (\E q \in Place : WriteBack(q)) \/ UNCHANGED vars
            BY <3>5, <2>3, <1>2 DEF NativeCreate, NativeLoad, NativeUnload,
               NativeAppend, NativeRevert, WriteBack, vars, nativeVars
        <3> QED
            BY <1>2, <3>1, <3>2, <3>3, <3>4, <3>5, StepKinds DEF Native, Indexer
    <2> QED
        BY <2>2, <2>3
<1> QED
    BY <1>1, <1>2 DEF Scanned

\* The conversation of an importer that is finishing is in place.
LEMMA FinishingVisible ==
    ASSUME TypeOK, Control, Working, NEW p \in Proc, pc[p] \in Finishing
    PROVE  /\ plan[p] \in Plans /\ VisibleIn(live, plan[p])
           /\ live[MainPlace(plan[p])] # Absent
<1>1. /\ plan[p] \in Plans /\ at[p] \in Indices(plan[p]) /\ live \in Home
      /\ pc[p] \notin {"idle", "check"}
    BY InWork DEF Finishing
<1>2. at[p] = Last(plan[p])
    BY DEF Control
<1>3. Placed(live, plan[p], Last(plan[p]))
    BY <1>1, <1>2 DEF Working, Knows
<1>4. IsPrefixOf(Main(plan[p]).content, live[MainPlace(plan[p])])
    BY <1>3 DEF Placed, VisibleIn
<1>5. /\ Main(plan[p]).content \in History /\ Main(plan[p]).content # Absent
      /\ live[MainPlace(plan[p])] \in History
    BY <1>1, PlanShape, Places DEF Home
<1> QED
    BY <1>1, <1>4, <1>5, PrefixPresent DEF VisibleIn

\* How the selection of a thread changes.
LEMMA RowSteps ==
    ASSUME TypeOK, Control, Reserved, Working, [Next]_vars, NEW t \in Thread
    PROVE  \/ row'[t] = row[t]
           \/ \E p \in Proc : /\ pc[p] \in {"commit", "recommit"} /\ live' = live
                              /\ row'[t] = MainPlace(plan[p]) /\ plan[p].thread = t
           \/ \E r \in Rollout : NativeRevert(r) /\ row'[t] = <<"full", r>>
           \/ IndexUpsert /\ row'[t] \in Selectable(t) /\ live' = live
<1>0. row \in [Thread -> Place \cup {None}] /\ ThreadOf \in [Rollout -> Thread]
    BY PublicationAssumption DEF TypeOK
<1>1. ASSUME NEW p \in Proc, FinishUpdate(p) \/ CommitUnknown(p)
      PROVE  \/ row'[t] = row[t]
             \/ /\ pc[p] \in {"commit", "recommit"} /\ live' = live
                /\ row'[t] = MainPlace(plan[p]) /\ plan[p].thread = t
    <2>1. /\ pc[p] \in {"commit", "recommit"} /\ live' = live
          /\ row' = [row EXCEPT ![plan[p].thread] = MainPlace(plan[p])]
        BY <1>1 DEF FinishUpdate, CommitUnknown
    <2> QED
        BY <2>1, <1>0
<1>2. ASSUME NEW p \in Proc, Importer(p), ~FinishUpdate(p), ~CommitUnknown(p)
      PROVE  row' = row
    BY <1>2 DEF Importer, Progress, Acquire, CheckConflicts,
       BeginSelectionUpdate, PublishPrefix, SyncPrefix, LinkFile,
       SyncLink, ReuseFile, FinishPublicationSelection, Interrupt, Fail, dbVars
<1>3. ASSUME NEW r \in Rollout, NativeRevert(r)
      PROVE  row'[t] = row[t] \/ row'[t] = <<"full", r>>
    BY <1>0, <1>3 DEF NativeRevert
<1>4. CASE IndexUpsert
    BY <1>4 DEF IndexUpsert
<1>5. CASE \/ MachineFailure \/ (\E place \in Place : WriteBack(place)) \/ UNCHANGED vars
           \/ Native /\ ~IndexUpsert /\ ~\E r \in Rollout : NativeRevert(r)
    BY <1>5 DEF Native, Indexer, NativeCreate, IndexStart, IndexScan,
       IndexComplete, NativeLoad, NativeUnload, NativeAppend,
       MachineFailure, WriteBack, vars, dbVars
<1> QED
    BY <1>1, <1>2, <1>3, <1>4, <1>5, StepKinds

\* The database selects files that are there.
LEMMA SelectionStep ==
    ASSUME TypeOK, Control, Guarded, Reserved, Working, Durable, Scanned,
           NoDanglingSelection, [Next]_vars
    PROVE  NoDanglingSelection'
<1> SUFFICES ASSUME failures' = 0, NEW t \in Thread, row'[t] # None
             PROVE  live'[row'[t]] # Absent
    BY DEF NoDanglingSelection
<1>1. failures \in Nat
    BY PublicationAssumption DEF TypeOK
<1>2. ~MachineFailure
    BY <1>1 DEF MachineFailure
<1>3. failures = 0
    <2>1. CASE \E p \in Proc : Importer(p)
        BY <2>1, ImporterMoves DEF Own
    <2>2. CASE Native \/ (\E place \in Place : WriteBack(place)) \/ UNCHANGED vars
        BY <2>2, NativeFrame
    <2> QED
        BY <1>2, <2>1, <2>2, StepKinds
<1>4. /\ row[t] # None => live[row[t]] # Absent
      /\ row[t] \in Place \cup {None}
    BY <1>3 DEF NoDanglingSelection, TypeOK
<1>5. CASE row'[t] = row[t]
    BY <1>2, <1>4, <1>5, PresentStays
<1>6. ASSUME NEW p \in Proc, pc[p] \in {"commit", "recommit"}, live' = live,
             row'[t] = MainPlace(plan[p])
      PROVE  live'[row'[t]] # Absent
    BY <1>6, FinishingVisible DEF Finishing
<1>7. ASSUME NEW r \in Rollout, NativeRevert(r), row'[t] = <<"full", r>>
      PROVE  live'[row'[t]] # Absent
    <2>1. PICK new : /\ live' = [live EXCEPT ![<<"full", r>>] = new]
                     /\ Grows(live, <<"full", r>>, new)
        BY <1>7, NativeGrows
    <2>2. new # Absent /\ <<"full", r>> \in Place /\ live \in [Place -> Seq(Record)]
        BY <2>1 DEF Grows, TypeOK
    <2> QED
        BY <1>7, <2>1, <2>2
<1>8. ASSUME row'[t] \in Selectable(t), live' = live PROVE live'[row'[t]] # Absent
    <2>1. row'[t] \in index.found \/ row'[t] = row[t]
        BY <1>8 DEF Selectable
    <2> QED
        BY <2>1, <1>4, <1>8 DEF Scanned
<1> QED
    BY <1>5, <1>6, <1>7, <1>8, RowSteps

-----------------------------------------------------------------------------
(* The theorems.                                                           *)

\* The invariant holds at the start: the home is as it was found, on disk too,
\* and no import is under way.
LEMMA InitInvariant ==
    ASSUME Init
    PROVE  IInv
<1>1. /\ live \in Home /\ liveD = live /\ Closed(live)
    BY HomeAssumption DEF Init, Home, History, Closed
<1>2. /\ \A p \in Proc : /\ pc[p] = "idle" /\ at[p] = 1 /\ guards[p] = {}
                         /\ choice[p] = NoChoice
      /\ dbTx = None /\ None \notin Proc
    BY PublicationAssumption DEF Init
<1>3. /\ live \in [Place -> Seq(Record)] /\ liveD \in [Place -> Seq(Record)]
    BY <1>1 DEF Home, History
<1>4. TypeOK
    <2>1. /\ row \in [Thread -> Place \cup {None}]
          /\ status \in {"absent", "pending", "running", "complete"}
          /\ dbTx \in Proc \cup {None}
          /\ pc \in [Proc -> PC]
          /\ plan \in [Proc -> Plans \cup {None}]
          /\ guards \in [Proc -> SUBSET (Thread \cup Rollout)]
          /\ loaded \in SUBSET Thread
        BY DEF Init, PC
    <2>2. /\ index \in [phase : {"off", "scan", "upserted"}, scanned : SUBSET Loc,
                        found : SUBSET Place]
          /\ confirmed \in SUBSET Plans
        BY DEF Init
    <2>3. interrupts \in 0..MaxInterrupts /\ failures \in 0..MaxFailures
        BY PublicationAssumption DEF Init
    <2> QED
        BY <1>2, <1>3, <2>1, <2>2, <2>3 DEF TypeOK
<1>5. Control
    <2>1. NoChoice \in Choice
        BY DEF NoChoice, Choice, Absent
    <2>2. at \in [Proc -> Nat] /\ choice \in [Proc -> Choice]
        BY <2>1 DEF Init
    <2> QED
        BY <1>2, <2>2 DEF Control, Finishing
<1>6. Guarded
    BY <1>2 DEF Guarded
<1>7. Reserved
    BY <1>2 DEF Reserved
<1>8. Working
    BY <1>2 DEF Working
<1>9. Durable
    BY <1>1 DEF Durable
<1>10. Resumable
    BY <1>1 DEF Resumable, Kept, Init
<1>11. Scanned
    BY DEF Scanned, Init
<1>12. NoDanglingSelection
    BY DEF NoDanglingSelection, Init
<1> QED
    BY <1>4, <1>5, <1>6, <1>7, <1>8, <1>9, <1>10, <1>11, <1>12 DEF IInv

\* Every step keeps it.
LEMMA StepInvariant ==
    ASSUME IInv, [Next]_vars
    PROVE  IInv'
<1>1. TypeOK' /\ Control' /\ Guarded' /\ Reserved'
    BY TypeStep, ControlStep, GuardedStep, ReservedStep DEF IInv
<1>2. Working' /\ Durable'
    BY WorkingStep, DurableStep DEF IInv
<1>3. Resumable' /\ Scanned' /\ NoDanglingSelection'
    BY ResumableStep, ScannedStep, SelectionStep DEF IInv
<1> QED
    BY <1>1, <1>2, <1>3 DEF IInv

\* The writer locks, the comparison under them and the order of links and syncs,
\* together, are an invariant of publication.
THEOREM Invariance == Spec => []IInv
<1>1. Init => IInv
    BY InitInvariant
<1>2. IInv /\ [Next]_vars => IInv'
    BY StepInvariant
<1> QED
    BY <1>1, <1>2, PTL DEF Spec

\* The home, the database and the importers stay well typed, and a commit is only
\* reached with the reservation held.
THEOREM TypeCorrect == Spec => []TypeOK
<1>1. IInv => TypeOK
    BY DEF IInv
<1> QED
    BY <1>1, Invariance, PTL

\* A conversation that is visible can be resumed: all it inherits is there, for
\* every set of plans, importers, interruptions and power failures.
THEOREM LineagesClosed == Spec => []LineageClosed
<1>1. IInv => LineageClosed
    BY DEF IInv, Resumable, Closed, LineageClosed, Visible, Inherits
<1> QED
    BY <1>1, Invariance, PTL

\* The database never selects a file that is not there, without machine failures.
THEOREM SelectionsExist == Spec => []NoDanglingSelection
<1>1. IInv => NoDanglingSelection
    BY DEF IInv
<1> QED
    BY <1>1, Invariance, PTL

\* No step but a machine failure shortens, rewrites or removes history, and an
\* ordinary conversation changes only while native Codex has it loaded.
THEOREM HistoryKept == Spec => HistoryOnlyGrows
<1>1. ASSUME IInv, [Next]_vars PROVE [MachineFailure \/ KeepsHistory]_vars
    <2> SUFFICES ASSUME ~MachineFailure, NEW place \in Place, live[place] # Absent
                 PROVE  /\ IsPrefixOf(live[place], live'[place])
                        /\ place[1] = "full" /\ live'[place] # live[place] =>
                               ThreadOf[place[2]] \in loaded
        BY DEF KeepsHistory
    <2>1. live \in Home /\ live[place] \in History
        BY <1>1 DEF IInv, TypeOK, Home, History
    <2>2. IsPrefixOf(live[place], live[place])
        BY <2>1, PrefixReflexive
    <2>3. CASE live' = live
        BY <2>2, <2>3
    <2>4. ASSUME NEW q, NEW new, live' = [live EXCEPT ![q] = new], Grows(live, q, new),
                 live[q] = Absent \/ q[1] = "pre" \/ ThreadOf[q[2]] \in loaded
          PROVE  /\ IsPrefixOf(live[place], live'[place])
                 /\ place[1] = "full" /\ live'[place] # live[place] =>
                        ThreadOf[place[2]] \in loaded
        <3>1. CASE place = q
            <4>1. live'[place] = new
                BY <2>1, <2>4, <3>1 DEF Home
            <4>2. IsPrefixOf(live[place], new)
                BY <2>4, <3>1 DEF Grows
            <4> QED
                BY <4>1, <4>2, <3>1, <2>4
        <3>2. CASE place # q
            BY <2>1, <2>2, <2>4, <3>2 DEF Home
        <3> QED
            BY <3>1, <3>2
    <2> QED
        BY <1>1, <2>3, <2>4, LiveSteps DEF IInv
<1>2. IInv /\ [Next]_vars => [MachineFailure \/ KeepsHistory]_vars
    BY <1>1
<1> QED
    BY <1>2, Invariance, PTL DEF Spec, HistoryOnlyGrows

-----------------------------------------------------------------------------
(* Publication implements SessionStore.                                     *)

Held == {pl \in Plans : Visible(pl) /\ Inherits(pl)}

\* With closed lineages, what is held is what is visible.
LEMMA HeldVisible ==
    ASSUME Closed(live), NEW pl
    PROVE  pl \in Held <=> pl \in Plans /\ VisibleIn(live, pl)
BY DEF Held, Visible, Inherits, Closed

\* What a power failure leaves was visible before it.
LEMMA DiskVisible ==
    ASSUME TypeOK, Guarded, Durable, interrupts = 0, NEW pl \in Plans,
           VisibleIn(liveD, pl)
    PROVE  VisibleIn(live, pl)
<1> DEFINE main == MainPlace(pl)
<1>1. main \in Place /\ liveD \in Home /\ liveD[main] \in History
    BY PlanShape, Places DEF TypeOK, Home, History
<1>2. liveD[main] # Absent
    BY <1>1, PlanShape, PrefixPresent DEF VisibleIn
<1>3. ASSUME NEW p \in Proc, Unsynced(p, main) PROVE FALSE
    BY <1>2, <1>3, ManagedPath DEF Unsynced
<1>4. liveD[main] = live[main]
    BY <1>1, <1>3 DEF Durable
<1> QED
    BY <1>4 DEF VisibleIn

\* The home keeps the promise of SessionStore: a session is reported only when it
\* is held with all that it inherits, nothing held is lost to another import, an
\* interruption or native Codex, and nothing reported is lost to a power failure.
THEOREM StoreImplemented == Spec => ImplementsStore
<1>1. Init => Store!Init
    BY DEF Init, Store!Init
<1>2. ASSUME IInv, IInv', [Next]_vars
      PROVE  [Store!Next]_<<Held, confirmed>>
    <2>1. /\ \A pl : pl \in Held <=> pl \in Plans /\ VisibleIn(live, pl)
          /\ \A pl : pl \in Held' <=> pl \in Plans /\ VisibleIn(live', pl)
        <3>1. \A pl : pl \in Held <=> pl \in Plans /\ VisibleIn(live, pl)
            BY <1>2, HeldVisible DEF IInv, Resumable
        <3>2. \A pl : pl \in Held' <=> pl \in Plans /\ VisibleIn(live', pl)
            BY <1>2 DEF IInv, Resumable, Closed, Held, Visible, Inherits
        <3> QED
            BY <3>1, <3>2
    <2>2. Held' \in SUBSET Plans
        BY DEF Held
    <2>3. CASE MachineFailure
        <3>1. live' = liveD /\ interrupts = 0 /\ confirmed' = confirmed
            BY <2>3 DEF MachineFailure
        <3>2. confirmed \subseteq Held'
            BY <3>1, <2>1, <1>2 DEF IInv, Resumable, Kept, TypeOK
        <3>3. Held' \subseteq Held
            BY <3>1, <2>1, <1>2, DiskVisible DEF IInv
        <3> QED
            BY <3>1, <3>2, <3>3 DEF Store!Next, Store!Crash, Held
    <2>4. CASE ~MachineFailure /\ confirmed' = confirmed
        <3>1. Held \subseteq Held'
            BY <2>1, <2>4, <1>2, VisibleStays DEF IInv
        <3> QED
            BY <3>1, <2>2, <2>4 DEF Store!Next, Store!Gain, Held
    <2>5. CASE ~MachineFailure /\ confirmed' # confirmed
        <3>1. PICK p \in Proc : /\ confirmed' = confirmed \cup {plan[p]} /\ plan[p] \in Plans
                                /\ VisibleIn(live, plan[p]) /\ live' = live
            BY <2>5, <1>2, ConfirmedSteps DEF IInv
        <3>2. plan[p] \in Held /\ Held' = Held
            BY <3>1, <2>1
        <3> QED
            BY <3>1, <3>2 DEF Store!Next, Store!Report, Held
    <2> QED
        BY <2>3, <2>4, <2>5
<1>3. IInv /\ IInv' /\ [Next]_vars => [Store!Next]_<<Held, confirmed>>
    BY <1>2
<1>4. <<Held, confirmed>> = <<{pl \in Plans : Visible(pl) /\ Inherits(pl)}, confirmed>>
    BY DEF Held
<1> QED
    BY <1>1, <1>3, Invariance, PTL DEF Spec, ImplementsStore, Store!Spec, Held

-----------------------------------------------------------------------------
(* The selection after a reported success.                                  *)

\* The prerequisites that a reported conversation keeps its thread from selecting.
Excluded(pl) == {r \in Rollout : Last(pl) > 1 \/ r = Main(pl).rollout}

Whole(pl) == \A r \in Excluded(pl) : row[pl.thread] # <<"pre", r>>

\* An importer that will report success without waiting for the indexer.
Direct(p) ==
    /\ pc[p] \in {"file", "syncPrefix", "link", "syncLink"}
    /\ choice[p].repair = None /\ Last(plan[p]) = 1 /\ ~choice[p].promoted

\* The scan under way will find the conversation, or no prefix of it.
Scannable(pl) ==
    index.phase = "scan" /\ "full" \in index.scanned =>
        \/ MainPlace(pl) \in index.found
        \/ Last(pl) = 1 /\ live[<<"pre", Main(pl).rollout>>] = Absent

\* Indexing is announced before it scans, and a repair found necessary after the
\* publication starts when indexing is over.
Indexing ==
    /\ index.phase # "off" => status = "running"
    /\ \A p \in Proc : pc[p] = "recommit" => status = "complete"

\* Who does not wait has no prefix of the conversation to wait for.
DirectUnselected ==
    \A p \in Proc : Direct(p) =>
        /\ live[<<"pre", Main(plan[p]).rollout>>] = Absent
        /\ row[plan[p].thread] # <<"pre", Main(plan[p]).rollout>>

Settled ==
    /\ Indexing /\ DirectUnselected
    /\ \A pl \in confirmed : Whole(pl) /\ Scannable(pl)

\* A managed copy appears only as a prerequisite of a plan, when the rollout is
\* nowhere else.
LEMMA NewManaged ==
    ASSUME TypeOK, Control, Guarded, Reserved, Working, Durable, [Next]_vars,
           ~MachineFailure, NEW r \in Rollout,
           live[<<"pre", r>>] = Absent, live'[<<"pre", r>>] # Absent
    PROVE  \E p \in Proc : /\ pc[p] # "idle" /\ plan[p] \in Plans
                           /\ at[p] \in Indices(plan[p]) \ {Last(plan[p])}
                           /\ r = plan[p].files[at[p]].rollout
                           /\ live[<<"full", r>>] = Absent
<1>0. live \in Home /\ <<"pre", r>> \in Place
    BY Places DEF TypeOK, Home, History, Loc
<1>1. ASSUME NEW q \in Rollout, NativeAppend(q) \/ NativeRevert(q) PROVE FALSE
    <2>1. PICK new : live' = [live EXCEPT ![<<"full", q>>] = new]
        BY <1>1, NativeGrows
    <2> QED
        BY <2>1, <1>0 DEF Home
<1>2. ASSUME NEW p \in Proc, PublishPrefix(p) PROVE FALSE
    <2> DEFINE place == <<"pre", plan[p].files[at[p]].rollout>>
    <2>1. \E new : live' = [live EXCEPT ![place] = new]
        BY <1>2, PublishPrefixGrows
    <2>2. live[place] # Absent
        BY <1>2, PublishPrefixGrows
    <2> QED
        BY <2>1, <2>2, <1>0 DEF Home
<1>3. ASSUME NEW p \in Proc, LinkFile(p)
      PROVE  /\ pc[p] # "idle" /\ plan[p] \in Plans
             /\ at[p] \in Indices(plan[p]) \ {Last(plan[p])}
             /\ r = plan[p].files[at[p]].rollout
             /\ live[<<"full", r>>] = Absent
    <2>1. pc[p] # "idle"
        BY <1>3 DEF LinkFile, AtLink
    <2>2. plan[p] \in Plans /\ at[p] \in Indices(plan[p])
        BY <2>1, InWork
    <2> DEFINE place == Destination(plan[p], at[p])
    <2>3. \E new : live' = [live EXCEPT ![place] = new]
        BY <1>3, LinkFileGrows
    <2>4. place = <<"pre", r>>
        BY <2>3, <1>0 DEF Home
    <2>5. place = <<IF at[p] = Last(plan[p]) THEN "full" ELSE "pre",
                    plan[p].files[at[p]].rollout>>
        BY <2>2, Places
    <2>6. at[p] # Last(plan[p]) /\ r = plan[p].files[at[p]].rollout
        BY <2>4, <2>5
    <2>7. live[<<"full", r>>] = Absent
        BY <2>6, <1>3, LinkFileGrows DEF Copy
    <2> QED
        BY <2>1, <2>2, <2>6, <2>7
<1>4. ASSUME NEW p \in Proc, Importer(p), ~PublishPrefix(p), ~LinkFile(p) PROVE FALSE
    BY <1>4, QuietMoves
<1>5. CASE (Native /\ ~\E q \in Rollout : NativeAppend(q) \/ NativeRevert(q))
           \/ (\E place \in Place : WriteBack(place)) \/ UNCHANGED vars
    BY <1>5 DEF Native, Indexer, NativeCreate, IndexStart, IndexScan, IndexUpsert,
       IndexComplete, NativeLoad, NativeUnload, WriteBack, vars
<1> QED
    BY <1>1, <1>2, <1>3, <1>4, <1>5, StepKinds

\* A scan is announced by the state of the database, and a repair after the
\* publication happens when indexing is over.
LEMMA IndexingStep ==
    ASSUME IInv, Indexing, [Next]_vars
    PROVE  Indexing'
<1>1. ASSUME NEW p \in Proc, Importer(p) PROVE Indexing'
    <2>1. Own(p)
        BY <1>1, ImporterMoves DEF IInv
    <2>2. index' = index /\ \A q \in Proc : q # p => pc'[q] = pc[q]
        BY <2>1 DEF Own, IInv, TypeOK
    <2>3. status' = status
        BY <1>1 DEF Importer, Progress, Acquire, CheckConflicts,
           BeginSelectionUpdate, PublishPrefix, SyncPrefix, LinkFile, SyncLink,
           ReuseFile, FinishUpdate, FinishPublicationSelection, CommitUnknown,
           Interrupt, Fail, dbVars
    <2>4. ASSUME pc'[p] = "recommit" PROVE status = "complete"
        <3>1. CASE BeginSelectionUpdate(p)
            <4>1. Reservable(p)
                BY <3>1, <2>4 DEF BeginSelectionUpdate, Fail, Return, IInv, TypeOK
            <4> QED
                BY <4>1 DEF Reservable
        <3>2. CASE ~BeginSelectionUpdate(p)
            <4>1. \E l \in PC \ {"recommit"} : pc' = [pc EXCEPT ![p] = l]
                BY <1>1, <3>2 DEF Importer, Progress, Acquire, CheckConflicts,
                   PublishPrefix, LinkFile, SyncPrefix, SyncLink, ReuseFile,
                   FinishUpdate, NextFile, Goto, Fail, Return, PC,
                   FinishPublicationSelection, CommitUnknown, Interrupt
            <4> QED
                BY <4>1, <2>4 DEF IInv, TypeOK
        <3> QED
            BY <3>1, <3>2
    <2> QED
        BY <2>2, <2>3, <2>4 DEF Indexing
<1>2. ASSUME Native \/ (\E place \in Place : WriteBack(place)) \/ UNCHANGED vars
      PROVE  Indexing'
    <2>1. pc' = pc
        BY <1>2, NativeFrame
    <2>3. status = "complete" => status' = "complete"
        BY <1>2 DEF Native, Indexer, NativeCreate, IndexStart, IndexScan,
           IndexUpsert, IndexComplete, NativeLoad, NativeUnload, NativeAppend,
           NativeRevert, WriteBack, vars, dbVars, Indexing
    <2>4. index'.phase # "off" => status' = "running"
        <3>1. CASE IndexStart \/ IndexComplete
            BY <3>1 DEF IndexStart, IndexComplete
        <3>2. CASE NativeCreate
            BY <3>2 DEF NativeCreate, nativeVars, Indexing
        <3>3. CASE IndexUpsert \/ \E loc \in Loc : IndexScan(loc)
            BY <3>3 DEF IndexUpsert, IndexScan, dbVars, Indexing
        <3>4. CASE (\E t \in Thread : NativeLoad(t) \/ NativeUnload(t))
                   \/ (\E r \in Rollout : NativeAppend(r) \/ NativeRevert(r))
                   \/ (\E place \in Place : WriteBack(place)) \/ UNCHANGED vars
            BY <3>4 DEF NativeLoad, NativeUnload, NativeAppend, NativeRevert,
               WriteBack, vars, dbVars, nativeVars, Indexing
        <3> QED
            BY <1>2, <3>1, <3>2, <3>3, <3>4 DEF Native, Indexer
    <2> QED
        BY <2>1, <2>3, <2>4 DEF Indexing
<1>3. ASSUME MachineFailure PROVE Indexing'
    BY <1>3 DEF MachineFailure, Indexing
<1> QED
    BY <1>1, <1>2, <1>3, StepKinds

\* A prerequisite that is not selected stays so if the scan found an ordinary
\* rollout of the thread, or there is no such prerequisite to be found.
LEMMA StaysUnselected ==
    ASSUME IInv, [Next]_vars, NEW t \in Thread, NEW r \in Rollout,
           row[t] # <<"pre", r>>,
           IndexUpsert =>
               \/ \E place \in index.found : place[1] = "full" /\ ThreadOf[place[2]] = t
               \/ live[<<"pre", r>>] = Absent
    PROVE  row'[t] # <<"pre", r>>
<1>1. CASE row'[t] = row[t]
    BY <1>1
<1>2. ASSUME NEW p \in Proc, pc[p] \in {"commit", "recommit"},
             row'[t] = MainPlace(plan[p])
      PROVE  row'[t] # <<"pre", r>>
    <2>1. plan[p] \in Plans /\ at[p] \in Indices(plan[p])
        BY <1>2, InWork DEF IInv
    <2>2. MainPlace(plan[p])[1] = "full"
        BY <2>1, Places
    <2> QED
        BY <1>2, <2>2
<1>3. ASSUME NEW q \in Rollout, row'[t] = <<"full", q>>
      PROVE  row'[t] # <<"pre", r>>
    BY <1>3
<1>4. CASE IndexUpsert /\ row'[t] \in Selectable(t)
    <2> DEFINE of(loc) == {pl \in index.found : pl[1] = loc /\ ThreadOf[pl[2]] = t}
    <2>1. row'[t] \in IF of("full") # {} THEN of("full")
                      ELSE IF of("pre") # {} THEN of("pre") ELSE {row[t]}
        BY <1>4 DEF Selectable
    <2>2. CASE of("full") # {}
        BY <2>1, <2>2
    <2>3. CASE of("full") = {}
        <3>1. live[<<"pre", r>>] = Absent
            BY <1>4, <2>3
        <3>2. \A place \in index.found : live[place] # Absent
            BY DEF IInv, Scanned, TypeOK
        <3>3. <<"pre", r>> \notin index.found
            BY <3>1, <3>2
        <3> QED
            BY <2>1, <2>3, <3>3
    <2> QED
        BY <2>2, <2>3
<1> QED
    BY <1>1, <1>2, <1>3, <1>4, RowSteps DEF IInv

\* An importer that will not wait was one before, or has just compared.
LEMMA DirectMoves ==
    ASSUME IInv, [Next]_vars, NEW p \in Proc, Direct(p)'
    PROVE  /\ plan'[p] = plan[p] /\ plan[p] \in Plans /\ pc[p] # "idle"
           /\ ~MachineFailure /\ Last(plan[p]) = 1
           /\ Direct(p) \/ (CheckConflicts(p) /\ Compared(p))
<1>0. /\ pc'[p] \in {"file", "syncPrefix", "link", "syncLink"}
      /\ choice'[p].repair = None /\ Last(plan'[p]) = 1 /\ ~choice'[p].promoted
    BY DEF Direct
<1>1. ~MachineFailure
    BY <1>0 DEF MachineFailure
<1>2. ASSUME Native \/ (\E place \in Place : WriteBack(place)) \/ UNCHANGED vars
      PROVE  Direct(p) /\ plan'[p] = plan[p]
    <2>1. pc' = pc /\ plan' = plan /\ choice' = choice
        BY <1>2, NativeFrame
    <2> QED
        BY <2>1, <1>0 DEF Direct
<1>3. ASSUME NEW q \in Proc, Importer(q), q # p
      PROVE  Direct(p) /\ plan'[p] = plan[p]
    <2>1. Own(q)
        BY <1>3, ImporterMoves DEF IInv
    <2>2. pc'[p] = pc[p] /\ plan'[p] = plan[p] /\ choice'[p] = choice[p]
        BY <2>1, <1>3 DEF Own, IInv, TypeOK, Control
    <2> QED
        BY <2>2, <1>0 DEF Direct
<1>4. ASSUME Importer(p)
      PROVE  plan'[p] = plan[p] /\ (Direct(p) \/ (CheckConflicts(p) /\ Compared(p)))
    <2>1. Moves(p)
        BY <1>4, ImporterMoves DEF IInv
    <2>2. CASE Compared(p)
        <3>1. pc[p] = "check"
            BY <2>2 DEF Compared
        <3>2. CheckConflicts(p) \/ Interrupt(p)
            BY <1>4, <3>1 DEF Importer, Progress, Acquire, CheckConflicts,
               BeginSelectionUpdate, PublishPrefix, SyncPrefix, LinkFile, SyncLink,
               ReuseFile, FinishUpdate, FinishPublicationSelection, CommitUnknown,
               AtLink
        <3>3. ~Interrupt(p)
            BY <1>0 DEF Interrupt, Fail, Return, IInv, TypeOK
        <3> QED
            BY <2>2, <3>2, <3>3 DEF Compared
    <2>3. CASE Advanced(p)
        <3>1. plan'[p] = plan[p] /\ choice'[p] = choice[p]
            BY <2>3 DEF Advanced
        <3>2. pc[p] \in {"reserve", "file", "syncPrefix", "link", "syncLink"}
            BY <2>3, <1>0 DEF Advanced, Onward, Ending, Finished, AtLink
        <3>3. pc[p] # "reserve"
            BY <3>1, <1>0 DEF IInv, Reserved
        <3> QED
            BY <3>1, <3>2, <3>3, <1>0 DEF Direct
    <2>4. CASE Returned(p) \/ Reread(p) \/ \E pl \in Plans : Acquired(p, pl)
        BY <2>4, <1>0 DEF Returned, Reread, Acquired
    <2> QED
        BY <2>1, <2>2, <2>3, <2>4 DEF Moves
<1>5. plan'[p] = plan[p] /\ (Direct(p) \/ (CheckConflicts(p) /\ Compared(p)))
    BY <1>1, <1>2, <1>3, <1>4, StepKinds
<1>6. pc[p] # "idle"
    BY <1>5 DEF Direct, Compared
<1>7. plan[p] \in Plans
    BY <1>6, InWork DEF IInv
<1> QED
    BY <1>0, <1>1, <1>5, <1>6, <1>7

\* While such an importer works, no prefix of its conversation can be selected.
LEMMA DirectUnselectedStep ==
    ASSUME IInv, DirectUnselected, [Next]_vars
    PROVE  DirectUnselected'
<1> SUFFICES ASSUME NEW p \in Proc, Direct(p)'
             PROVE  /\ live'[<<"pre", Main(plan'[p]).rollout>>] = Absent
                    /\ row'[plan'[p].thread] # <<"pre", Main(plan'[p]).rollout>>
    BY DEF DirectUnselected
<1> DEFINE pl == plan[p]
           main == Main(pl).rollout
<1>1. /\ plan'[p] = pl /\ pl \in Plans /\ pc[p] # "idle"
      /\ ~MachineFailure /\ Last(pl) = 1
      /\ Direct(p) \/ (CheckConflicts(p) /\ Compared(p))
    BY DirectMoves
<1>2. /\ pl.thread \in Thread /\ main \in Rollout /\ main \in Ids(pl)
      /\ 1 \in Indices(pl) /\ main = pl.files[1].rollout
    BY <1>1, PlanShape DEF Main
<1>3. CASE CheckConflicts(p) /\ Compared(p)
    <2>1. live' = live /\ row' = row
        BY <1>3 DEF CheckConflicts, Compared, Fail, dbVars
    <2>2. /\ choice'[p] = Choices(pl) /\ choice'[p].repair = None
          /\ ~choice'[p].promoted
        BY <1>3 DEF Compared, Direct
    <2>3. live[<<"pre", main>>] = Absent
        <3>1. Choices(pl).promoted = (live[<<"pre", main>>] # Absent)
            BY DEF Choices, Main
        <3> QED
            BY <2>2, <3>1
    <2>4. ~Repairs(pl)
        <3>1. Choices(pl).repair = IF Repairs(pl) THEN row[pl.thread] ELSE None
            BY DEF Choices
        <3>2. Repairs(pl) => row[pl.thread] # None
            BY DEF Repairs
        <3> QED
            BY <2>2, <3>1, <3>2
    <2>5. row[pl.thread] # <<"pre", main>>
        <3>1. <<"pre", main>> # None
            BY <1>2, Places, PublicationAssumption DEF Loc
        <3> QED
            BY <2>4, <3>1 DEF Repairs
    <2> QED
        BY <1>1, <2>1, <2>3, <2>5
<1>4. CASE Direct(p)
    <2>1. live[<<"pre", main>>] = Absent /\ row[pl.thread] # <<"pre", main>>
        BY <1>4 DEF DirectUnselected
    <2>2. live'[<<"pre", main>>] = Absent
        <3> SUFFICES ASSUME live'[<<"pre", main>>] # Absent PROVE FALSE
            OBVIOUS
        <3>1. PICK q \in Proc : /\ pc[q] # "idle" /\ plan[q] \in Plans
                                /\ at[q] \in Indices(plan[q]) \ {Last(plan[q])}
                                /\ main = plan[q].files[at[q]].rollout
            BY <1>1, <1>2, <2>1, NewManaged DEF IInv
        <3>2. q # p
            BY <3>1, <1>1 DEF Indices
        <3>3. main \in Ids(plan[q])
            BY <3>1, PlanShape
        <3>4. guards[p] = Ids(pl) /\ guards[q] = Ids(plan[q])
            BY <3>1, <1>1 DEF IInv, Guarded
        <3> QED
            BY <3>2, <3>3, <3>4, <1>2 DEF IInv, Guarded
    <2>3. row'[pl.thread] # <<"pre", main>>
        BY <2>1, <1>2, StaysUnselected
    <2> QED
        BY <1>1, <2>2, <2>3
<1> QED
    BY <1>1, <1>3, <1>4

\* Where a reported conversation is, no scan can miss it.
LEMMA ScannableStep ==
    ASSUME IInv, [Next]_vars, NEW pl \in Plans, VisibleIn(live, pl), Scannable(pl)
    PROVE  Scannable(pl)'
<1>1. /\ MainPlace(pl) \in Place /\ MainPlace(pl) = <<"full", Main(pl).rollout>>
      /\ MainPlace(pl)[1] = "full"
    BY PlanShape, Places
<1>2. live[MainPlace(pl)] # Absent
    <2>1. live[MainPlace(pl)] \in History /\ Main(pl).content \in History
          /\ Main(pl).content # Absent
        BY <1>1, PlanShape DEF IInv, TypeOK, History, Main
    <2> QED
        BY <2>1, PrefixPresent DEF VisibleIn
<1>3. CASE MachineFailure
    BY <1>3 DEF MachineFailure, Scannable
<1>4. CASE IndexStart \/ IndexComplete \/ IndexUpsert
    <2>1. index'.phase # "scan" \/ index'.scanned = {}
        BY <1>4 DEF IndexStart, IndexComplete, IndexUpsert, IInv, TypeOK
    <2> QED
        BY <2>1 DEF Scannable
<1>5. ASSUME NEW loc \in Loc, IndexScan(loc) PROVE Scannable(pl)'
    <2>1. /\ index.phase = "scan" /\ live' = live
          /\ index'.scanned = index.scanned \cup {loc}
          /\ index'.found = index.found \cup {q \in Place : q[1] = loc /\ live[q] # Absent}
        BY <1>5 DEF IndexScan, IInv, TypeOK
    <2>2. CASE loc = "full"
        <3>1. MainPlace(pl) \in index'.found
            BY <2>1, <2>2, <1>1, <1>2
        <3> QED
            BY <3>1 DEF Scannable
    <2>3. CASE loc # "full"
        BY <2>1, <2>3 DEF Scannable
    <2> QED
        BY <2>2, <2>3
<1>6. CASE index' = index /\ ~MachineFailure
    <2> SUFFICES ASSUME index.phase = "scan", "full" \in index.scanned,
                        MainPlace(pl) \notin index.found
                 PROVE  Last(pl) = 1 /\ live'[<<"pre", Main(pl).rollout>>] = Absent
        BY <1>6 DEF Scannable
    <2>1. Last(pl) = 1 /\ live[<<"pre", Main(pl).rollout>>] = Absent
        BY DEF Scannable
    <2>2. ASSUME live'[<<"pre", Main(pl).rollout>>] # Absent PROVE FALSE
        <3>1. Main(pl).rollout \in Rollout
            BY PlanShape DEF Main
        <3>2. live[<<"full", Main(pl).rollout>>] = Absent
            BY <1>6, <2>1, <2>2, <3>1, NewManaged DEF IInv
        <3> QED
            BY <3>2, <1>1, <1>2
    <2> QED
        BY <2>1, <2>2
<1>7. ASSUME ~MachineFailure, ~IndexStart, ~IndexComplete, ~IndexUpsert,
             ~\E loc \in Loc : IndexScan(loc)
      PROVE  index' = index
    <2>1. ASSUME NEW p \in Proc, Importer(p) PROVE index' = index
        BY <2>1, ImporterMoves DEF IInv, Own
    <2>2. CASE Native \/ (\E place \in Place : WriteBack(place)) \/ UNCHANGED vars
        BY <1>7, <2>2 DEF Native, Indexer, NativeCreate, NativeLoad, NativeUnload,
           NativeAppend, NativeRevert, WriteBack, vars, nativeVars
    <2> QED
        BY <1>7, <2>1, <2>2, StepKinds
<1> QED
    BY <1>3, <1>4, <1>5, <1>6, <1>7

\* A success is reported when no scan can still select a prefix of what was
\* imported: there is none, or no scan is under way.
LEMMA ReportedSettled ==
    ASSUME IInv, Indexing, DirectUnselected, NEW p \in Proc, Importer(p),
           confirmed' # confirmed
    PROVE  /\ live' = live /\ index' = index
           /\ \A r \in Excluded(plan[p]) : row'[plan[p].thread] # <<"pre", r>>
           /\ Scannable(plan[p])
<1>1. \/ SyncLink(p) \/ ReuseFile(p) \/ FinishUpdate(p) \/ FinishPublicationSelection(p)
    BY DEF Importer, Progress, Acquire, CheckConflicts, BeginSelectionUpdate,
       PublishPrefix, SyncPrefix, LinkFile, CommitUnknown, Interrupt, Fail
<1>2. live' = live /\ index' = index
    BY <1>1 DEF SyncLink, ReuseFile, FinishUpdate, FinishPublicationSelection,
       nativeVars
<1>3. plan[p] \in Plans /\ at[p] \in Indices(plan[p]) /\ plan[p].thread \in Thread
      /\ MainPlace(plan[p]) \in Place /\ MainPlace(plan[p])[1] = "full"
    <2>1. pc[p] # "idle"
        BY <1>1 DEF SyncLink, ReuseFile, AtLink, FinishUpdate,
           FinishPublicationSelection
    <2>2. plan[p] \in Plans /\ at[p] \in Indices(plan[p])
        BY <2>1, InWork DEF IInv
    <2> QED
        BY <2>2, PlanShape, Places
<1>4. CASE SyncLink(p) \/ ReuseFile(p)
    <2>1. NextFile(p) /\ row' = row /\ pc[p] \in {"file", "link", "syncLink"}
        BY <1>4 DEF SyncLink, ReuseFile, AtLink, dbVars
    <2>2. choice[p].repair = None /\ ~Confirms(p)
        BY <2>1 DEF NextFile
    <2>3. Last(plan[p]) = 1 /\ ~choice[p].promoted
        BY <2>2, <1>3, PlanShape DEF Confirms
    <2>4. Direct(p)
        BY <2>1, <2>2, <2>3 DEF Direct
    <2>5. /\ live[<<"pre", Main(plan[p]).rollout>>] = Absent
          /\ row[plan[p].thread] # <<"pre", Main(plan[p]).rollout>>
        BY <2>4 DEF DirectUnselected
    <2> QED
        BY <1>2, <2>1, <2>3, <2>5 DEF Excluded, Scannable
<1>5. CASE FinishUpdate(p)
    <2>1. pc[p] = "recommit"
        BY <1>5 DEF FinishUpdate
    <2>2. index.phase = "off"
        BY <2>1 DEF Indexing
    <2>3. row' = [row EXCEPT ![plan[p].thread] = MainPlace(plan[p])]
        BY <1>5 DEF FinishUpdate
    <2>4. row'[plan[p].thread][1] = "full"
        BY <2>3, <1>3 DEF IInv, TypeOK
    <2> QED
        BY <1>2, <2>2, <2>4 DEF Scannable
<1>6. CASE FinishPublicationSelection(p)
    <2>1. /\ ~Waits(plan[p].thread) /\ row' = row
          /\ row[plan[p].thread] \in {None, MainPlace(plan[p])}
        BY <1>6 DEF FinishPublicationSelection, Fail, dbVars
    <2>2. index.phase = "off"
        BY <2>1 DEF Indexing, Waits
    <2>3. ASSUME NEW r \in Excluded(plan[p])
          PROVE  row'[plan[p].thread] # <<"pre", r>>
        <3>1. <<"pre", r>> # None
            BY Places, PublicationAssumption DEF Excluded, Loc
        <3> QED
            BY <1>3, <2>1, <3>1
    <2> QED
        BY <1>2, <2>2, <2>3 DEF Scannable
<1> QED
    BY <1>1, <1>4, <1>5, <1>6

\* Every step keeps reported selections settled.
LEMMA SettledStep ==
    ASSUME IInv, Settled, [Next]_vars
    PROVE  Settled'
<1>1. Indexing' /\ DirectUnselected'
    BY IndexingStep, DirectUnselectedStep DEF Settled
<1>2. ASSUME NEW pl \in confirmed'
      PROVE  Whole(pl)' /\ Scannable(pl)'
    <2>1. CASE pl \in confirmed
        <3>1. /\ pl \in Plans /\ VisibleIn(live, pl) /\ Whole(pl) /\ Scannable(pl)
            BY <2>1 DEF IInv, TypeOK, Resumable, Kept, Settled
        <3>2. /\ pl.thread \in Thread /\ ThreadOf[Main(pl).rollout] = pl.thread
              /\ MainPlace(pl)[1] = "full" /\ MainPlace(pl)[2] = Main(pl).rollout
            BY <3>1, PlanShape, Places, PublicationAssumption DEF Main, Last
        <3>3. ASSUME NEW r \in Excluded(pl) PROVE row'[pl.thread] # <<"pre", r>>
            <4>1. r \in Rollout /\ row[pl.thread] # <<"pre", r>>
                BY <3>1 DEF Whole, Excluded
            <4>2. ASSUME IndexUpsert
                  PROVE  \/ \E place \in index.found :
                                place[1] = "full" /\ ThreadOf[place[2]] = pl.thread
                         \/ live[<<"pre", r>>] = Absent
                <5>1. index.phase = "scan" /\ "full" \in index.scanned
                    BY <4>2 DEF IndexUpsert, Loc
                <5>2. CASE MainPlace(pl) \in index.found
                    BY <5>2, <3>2
                <5>3. CASE Last(pl) = 1 /\ live[<<"pre", Main(pl).rollout>>] = Absent
                    BY <5>3 DEF Excluded
                <5> QED
                    BY <5>1, <5>2, <5>3, <3>1 DEF Scannable
            <4> QED
                BY <4>1, <4>2, <3>2, StaysUnselected
        <3> QED
            BY <3>1, <3>3, ScannableStep DEF Whole
    <2>2. CASE pl \notin confirmed
        <3>1. PICK p \in Proc : Importer(p) /\ confirmed' = confirmed \cup {plan[p]}
            BY <2>2, <1>2, ConfirmedSteps DEF IInv
        <3>2. pl = plan[p] /\ confirmed' # confirmed
            BY <3>1, <2>2, <1>2
        <3>3. /\ live' = live /\ index' = index /\ Scannable(plan[p])
              /\ \A r \in Excluded(plan[p]) : row'[plan[p].thread] # <<"pre", r>>
            BY <3>1, <3>2, ReportedSettled DEF Settled
        <3> QED
            BY <3>2, <3>3 DEF Scannable, Whole
    <2> QED
        BY <2>1, <2>2
<1> QED
    BY <1>1, <1>2 DEF Settled

\* After a reported success, whatever indexing, native Codex, other importers,
\* interruptions and power failures do, the thread selects no prerequisite if the
\* conversation inherits, and no prefix of the conversation itself if it does not.
THEOREM SelectionSettled == Spec => []AwaitedNeverPartial
<1>1. Init => Settled
    BY DEF Init, Settled, Indexing, DirectUnselected, Direct
<1>2. IInv /\ Settled /\ [Next]_vars => Settled'
    BY SettledStep
<1>3. Settled => AwaitedNeverPartial
    BY DEF Settled, Whole, Excluded, AwaitedNeverPartial
<1> QED
    BY <1>1, <1>2, <1>3, Invariance, PTL DEF Spec
=============================================================================
