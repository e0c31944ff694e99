----------------------------- MODULE Publication -----------------------------
(***************************************************************************)
(* Publication of a received session into a Codex home                     *)
(* (internal/session/publish.go, extend.go, selection_update.go, locks.go). *)
(*                                                                         *)
(* A plan is a lineage: inherited prefixes of ancestors first, the         *)
(* complete requested conversation last.  A prefix is kept at a managed    *)
(* prerequisite path, a conversation at an ordinary one; both may exist    *)
(* for the same rollout.  Importers hold native writer locks; native Codex *)
(* appends to the conversations it has loaded, and its initial indexing    *)
(* scans the home and selects a rollout for each thread in SQLite without  *)
(* taking any of those locks.                                              *)
(*                                                                         *)
(* A rollout's bytes are a sequence of records; the empty sequence stands  *)
(* for an absent file.  Compressed copies, archive flags, legacy histories *)
(* and the layout of the database are left out.                            *)
(***************************************************************************)
EXTENDS Naturals, Sequences

CONSTANTS
    Proc,           \* importing processes
    Thread,         \* conversation identities
    Rollout,        \* rollout identities
    ThreadOf,       \* the thread a rollout belongs to
    Plans,          \* received plans: [thread, files: Seq([rollout, content])]
    InitialLive,    \* contents the home may start with
    Record,         \* opaque history records
    NativeRecord,   \* the record native Codex appends
    MaxLen,         \* bound on the length of a native conversation
    MaxInterrupts,  \* bound on kills, cancellations and unknown commits
    MaxFailures,    \* bound on machine failures
    None            \* no process, no plan, no row

Loc == {"pre", "full"}
Place == Loc \X Rollout
Absent == <<>>

ASSUME PublicationAssumption ==
    /\ ThreadOf \in [Rollout -> Thread]
    /\ NativeRecord \in Record
    /\ MaxLen \in Nat /\ MaxInterrupts \in Nat /\ MaxFailures \in Nat
    /\ None \notin Proc \cup Plans \cup Place
    /\ Plans \subseteq [thread : Thread,
                        files : Seq([rollout : Rollout, content : Seq(Record)])]
    /\ \A pl \in Plans :
        /\ pl.files # <<>>
        /\ ThreadOf[pl.files[Len(pl.files)].rollout] = pl.thread
        /\ \A i \in 1..Len(pl.files) : pl.files[i].content # Absent

VARIABLES
    live,        \* visible contents at each place
    liveD,       \* contents on disk at each place
    row,         \* the place each thread selects in state_5.sqlite
    status,      \* backfill_state, or "absent" before the database exists
    dbTx,        \* the importer holding BEGIN IMMEDIATE
    pc, plan, at, choice,  \* an importer's control, plan, file and choices
    guards,      \* writer locks held by each importer
    loaded,      \* threads native Codex holds the writer lock of
    index,       \* the indexer: [phase, scanned, found]
    confirmed,   \* plans whose import was reported successful
    interrupts, failures

importVars == <<pc, plan, at, choice, guards>>
dbVars == <<row, status, dbTx>>
nativeVars == <<loaded, index>>
vars == <<live, liveD, dbVars, importVars, nativeVars, confirmed, interrupts,
          failures>>

-----------------------------------------------------------------------------
(* Plans and contents.                                                     *)

IsPrefixOf(s, t) == Len(s) <= Len(t) /\ s = SubSeq(t, 1, Len(s))

Last(pl) == Len(pl.files)
Main(pl) == pl.files[Last(pl)]
Indices(pl) == 1..Last(pl)
Destination(pl, i) ==
    <<IF i = Last(pl) THEN "full" ELSE "pre", pl.files[i].rollout>>
MainPlace(pl) == Destination(pl, Last(pl))

\* publish locks the thread and the rollout of every file of the plan.
Ids(pl) == UNION {{ThreadOf[pl.files[i].rollout], pl.files[i].rollout} :
                  i \in Indices(pl)}

\* The conversation of the plan is in a home at its ordinary path.
VisibleIn(home, pl) == IsPrefixOf(Main(pl).content, home[MainPlace(pl)])

\* Every prefix it inherits is there too, and every copy of each ancestor covers
\* the cutoff: native lineage lookup may open any of them.
InheritsIn(home, pl) ==
    \A i \in Indices(pl) \ {Last(pl)} :
        LET copies == {home[<<loc, pl.files[i].rollout>>] : loc \in Loc} \ {Absent}
        IN  /\ copies # {}
            /\ \A c \in copies : IsPrefixOf(pl.files[i].content, c)

\* No rollout occurs twice in a lineage (stream.go:300).  A rollout is created
\* once, when what it inherits is already saved: two plans for one conversation
\* inherit the same.  A record that native Codex appends here is a new one.
ASSUME LineageAssumption ==
    /\ \A pl \in Plans : \A i, j \in Indices(pl) :
        pl.files[i].rollout = pl.files[j].rollout => i = j
    /\ \A pl, other \in Plans : Main(pl).rollout = Main(other).rollout =>
        /\ Last(pl) = Last(other)
        /\ \A i \in Indices(pl) \ {Last(pl)} : pl.files[i] = other.files[i]
    /\ \A pl \in Plans : \A i \in Indices(pl) :
        \A k \in 1..Len(pl.files[i].content) : pl.files[i].content[k] # NativeRecord

\* The conversations in the home can be resumed before anything is imported.
ASSUME HomeAssumption ==
    \A home \in InitialLive :
        /\ home \in [Place -> Seq(Record)]
        /\ \A pl \in Plans : VisibleIn(home, pl) => InheritsIn(home, pl)

NoChoice == [extend |-> {}, exists |-> {}, promoted |-> FALSE, repair |-> None,
             old |-> Absent]

-----------------------------------------------------------------------------
(* checkConflicts and compareExisting.                                     *)

\* Mutant of Compatible: a retry takes its own files for foreign ones.
CompatibleOnlyAbsent(pl, i, loc) == live[<<loc, pl.files[i].rollout>>] = Absent

\* The existing copy at place <<loc, r>> agrees with file i of the plan: an
\* ancestor covers the required prefix or is a managed prefix that can grow;
\* the main conversation is the same, or a managed prefix of it.
Compatible(pl, i, loc) ==
    LET incoming == pl.files[i].content
        existing == live[<<loc, pl.files[i].rollout>>]
    IN  \/ existing = Absent
        \/ i # Last(pl) /\ IsPrefixOf(incoming, existing)
        \/ i = Last(pl) /\ existing = incoming
        \/ loc = "pre" /\ IsPrefixOf(existing, incoming)

\* The selection is a prerequisite that may be replaced by the main file.
Repairs(pl) == row[pl.thread] # None /\ row[pl.thread][1] = "pre"

Conflict(pl) ==
    LET selected == row[pl.thread] IN
    \/ /\ Repairs(pl)
       /\ \A i \in Indices(pl) : pl.files[i].rollout # selected[2]
    \/ /\ selected # None /\ ~Repairs(pl)
       /\ selected[2] # Main(pl).rollout
    \/ selected # None /\ live[selected] = Absent
    \/ /\ selected = None \/ Repairs(pl)
       /\ \E r \in Rollout : /\ ThreadOf[r] = pl.thread
                             /\ r # Main(pl).rollout
                             /\ live[<<"full", r>>] # Absent
    \/ \E i \in Indices(pl), loc \in Loc : ~Compatible(pl, i, loc)

\* Mutants of Choices: a short managed prefix is reused as it is, a longer one is
\* replaced, or the main conversation counts as present at its managed path.
ChoicesShape(pl, extend(_, _), managedMain) ==
    LET pre(i) == live[<<"pre", pl.files[i].rollout>>]
        full(i) == live[<<"full", pl.files[i].rollout>>]
    IN  [extend |-> {i \in Indices(pl) :
                        /\ pre(i) # Absent
                        /\ extend(Len(pre(i)), Len(pl.files[i].content))},
         exists |-> {i \in Indices(pl) :
                        \/ full(i) # Absent
                        \/ (i # Last(pl) \/ managedMain) /\ pre(i) # Absent},
         promoted |-> pre(Last(pl)) # Absent,
         repair |-> IF Repairs(pl) THEN row[pl.thread] ELSE None,
         old |-> [i \in Indices(pl) |-> pre(i)]]
ChoicesNoExtension(pl) == ChoicesShape(pl, LAMBDA a, b : FALSE, FALSE)
ChoicesReplace(pl) == ChoicesShape(pl, LAMBDA a, b : a # b, FALSE)
ChoicesManagedMain(pl) == ChoicesShape(pl, LAMBDA a, b : a < b, TRUE)

\* What publish will do with each file.
Choices(pl) ==
    LET pre(i) == live[<<"pre", pl.files[i].rollout>>]
        full(i) == live[<<"full", pl.files[i].rollout>>]
    IN  [extend |-> {i \in Indices(pl) :
                        /\ pre(i) # Absent
                        /\ Len(pre(i)) < Len(pl.files[i].content)},
         exists |-> {i \in Indices(pl) :
                        \/ full(i) # Absent
                        \/ i # Last(pl) /\ pre(i) # Absent},
         promoted |-> pre(Last(pl)) # Absent,
         repair |-> IF Repairs(pl) THEN row[pl.thread] ELSE None,
         old |-> [i \in Indices(pl) |-> pre(i)]]

-----------------------------------------------------------------------------
Init ==
    /\ live \in InitialLive
    /\ liveD = live
    /\ row = [t \in Thread |-> None]
    /\ status = "absent"
    /\ dbTx = None
    /\ pc = [p \in Proc |-> "idle"]
    /\ plan = [p \in Proc |-> None]
    /\ at = [p \in Proc |-> 1]
    /\ choice = [p \in Proc |-> NoChoice]
    /\ guards = [p \in Proc |-> {}]
    /\ loaded = {}
    /\ index = [phase |-> "off", scanned |-> {}, found |-> {}]
    /\ confirmed = {}
    /\ interrupts = 0
    /\ failures = 0

-----------------------------------------------------------------------------
(* The importer.                                                           *)

\* Return from publish: the deferred closes release the writer guards and roll
\* back a reservation.  Installed files stay.
Return(p) ==
    /\ pc' = [pc EXCEPT ![p] = "idle"]
    /\ plan' = [plan EXCEPT ![p] = None]
    /\ at' = [at EXCEPT ![p] = 1]
    /\ choice' = [choice EXCEPT ![p] = NoChoice]
    /\ guards' = [guards EXCEPT ![p] = {}]

Release(p) == dbTx' = IF dbTx = p THEN None ELSE dbTx

Fail(p) == Return(p) /\ Release(p) /\ UNCHANGED <<row, status, confirmed>>

Goto(p, l) == pc' = [pc EXCEPT ![p] = l]

Interruptible == interrupts < MaxInterrupts /\ failures = 0

\* All writer locks of the plan, under the coordination lock; a lock that is
\* taken fails the import at once, with no effect.
Acquire(p, pl) ==
    /\ pc[p] = "idle"
    /\ Ids(pl) \cap (loaded \cup UNION {guards[q] : q \in Proc}) = {}
    /\ guards' = [guards EXCEPT ![p] = Ids(pl)]
    /\ plan' = [plan EXCEPT ![p] = pl]
    /\ Goto(p, "check")
    /\ UNCHANGED <<live, liveD, dbVars, at, choice, nativeVars, confirmed,
                   interrupts, failures>>

CheckConflicts(p) ==
    /\ pc[p] = "check"
    /\ IF Conflict(plan[p])
       THEN Fail(p)
       ELSE /\ choice' = [choice EXCEPT ![p] = Choices(plan[p])]
            /\ Goto(p, IF Repairs(plan[p]) THEN "reserve" ELSE "file")
            /\ UNCHANGED <<plan, at, guards, dbVars, confirmed>>
    /\ UNCHANGED <<live, liveD, nativeVars, interrupts, failures>>

\* The row is what was validated, and initial indexing is over.
Reservable(p) ==
    /\ status = "complete"
    /\ row[plan[p].thread] = choice[p].repair

\* Mutant of BeginSelectionUpdate: the row is checked but not reserved.
BeginUnreserved(p) ==
    /\ pc[p] \in {"reserve", "rereserve"}
    /\ dbTx = None
    /\ IF Reservable(p)
       THEN /\ Goto(p, IF pc[p] = "reserve" THEN "file" ELSE "recommit")
            /\ UNCHANGED <<plan, at, choice, guards, dbVars, confirmed>>
       ELSE Fail(p)
    /\ UNCHANGED <<live, liveD, nativeVars, interrupts, failures>>

\* BEGIN IMMEDIATE, then the schema, the indexing state and the expected row.
BeginSelectionUpdate(p) ==
    /\ pc[p] \in {"reserve", "rereserve"}
    /\ dbTx = None
    /\ IF Reservable(p)
       THEN /\ dbTx' = p
            /\ Goto(p, IF pc[p] = "reserve" THEN "file" ELSE "recommit")
            /\ UNCHANGED <<plan, at, choice, guards, row, status, confirmed>>
       ELSE Fail(p)
    /\ UNCHANGED <<live, liveD, nativeVars, interrupts, failures>>

\* publishPrefix: the old managed prefix is unchanged since it was compared,
\* and the longer one is renamed over it.
PublishPrefix(p) ==
    /\ pc[p] = "file"
    /\ at[p] \in choice[p].extend
    /\ LET file == plan[p].files[at[p]]
           place == <<"pre", file.rollout>>
       IN  IF live[place] = choice[p].old[at[p]]
           THEN /\ live' = [live EXCEPT ![place] = file.content]
                /\ Goto(p, "syncPrefix")
                /\ UNCHANGED <<plan, at, choice, guards, dbVars, confirmed>>
           ELSE Fail(p) /\ UNCHANGED live
    /\ UNCHANGED <<liveD, nativeVars, interrupts, failures>>

SyncPrefix(p) ==
    /\ pc[p] = "syncPrefix"
    /\ LET place == <<"pre", plan[p].files[at[p]].rollout>>
       IN  liveD' = [liveD EXCEPT ![place] = live[place]]
    /\ Goto(p, "link")
    /\ UNCHANGED <<live, dbVars, plan, at, choice, guards, nativeVars,
                   confirmed, interrupts, failures>>

AtLink(p) ==
    \/ pc[p] = "link"
    \/ pc[p] = "file" /\ at[p] \notin choice[p].extend

\* The selection has to be confirmed when prefixes could have been indexed.
Confirms(p) == Last(plan[p]) > 1 \/ choice[p].promoted

\* The step after file at[p]: the next file, the commit of the reservation,
\* the confirmation of the selection, or the end.
NextFile(p) ==
    IF at[p] < Last(plan[p])
    THEN /\ at' = [at EXCEPT ![p] = @ + 1]
         /\ Goto(p, "file")
         /\ UNCHANGED <<plan, choice, guards, confirmed>>
    ELSE IF choice[p].repair # None \/ Confirms(p)
    THEN /\ Goto(p, IF choice[p].repair # None THEN "commit" ELSE "confirm")
         /\ UNCHANGED <<plan, at, choice, guards, confirmed>>
    ELSE /\ confirmed' = confirmed \cup {plan[p]}
         /\ Return(p)

\* An exclusive hard link from the stage; an existing name fails the import.
LinkFile(p) ==
    /\ AtLink(p)
    /\ at[p] \notin choice[p].exists
    /\ LET place == Destination(plan[p], at[p])
       IN  IF live[place] = Absent
           THEN /\ live' = [live EXCEPT ![place] = plan[p].files[at[p]].content]
                /\ Goto(p, "syncLink")
                /\ UNCHANGED <<plan, at, choice, guards, dbVars, confirmed>>
           ELSE Fail(p) /\ UNCHANGED live
    /\ UNCHANGED <<liveD, nativeVars, interrupts, failures>>

\* Mutant of SyncLink: the parent directory is not synced.
SyncLinkSkipped(p) ==
    /\ pc[p] = "syncLink"
    /\ NextFile(p)
    /\ UNCHANGED <<live, liveD, dbVars, nativeVars, interrupts, failures>>

SyncLink(p) ==
    /\ pc[p] = "syncLink"
    /\ LET place == Destination(plan[p], at[p])
       IN  liveD' = [liveD EXCEPT ![place] = live[place]]
    /\ NextFile(p)
    /\ UNCHANGED <<live, dbVars, nativeVars, interrupts, failures>>

\* The file is at the destination already: it was validated and is kept.
ReuseFile(p) ==
    /\ AtLink(p)
    /\ at[p] \in choice[p].exists
    /\ NextFile(p)
    /\ UNCHANGED <<live, liveD, dbVars, nativeVars, interrupts, failures>>

\* finish: UPDATE ... WHERE the row still has the old selection, and COMMIT.
FinishUpdate(p) ==
    /\ pc[p] \in {"commit", "recommit"}
    /\ row' = [row EXCEPT ![plan[p].thread] = MainPlace(plan[p])]
    /\ dbTx' = None
    /\ IF pc[p] = "commit"
       THEN Goto(p, "confirm") /\ UNCHANGED <<plan, at, choice, guards, confirmed>>
       ELSE confirmed' = confirmed \cup {plan[p]} /\ Return(p)
    /\ UNCHANGED <<live, liveD, status, nativeVars, interrupts, failures>>

\* The commit took effect but its result was lost: the import reports failure.
CommitUnknown(p) ==
    /\ pc[p] \in {"commit", "recommit"}
    /\ Interruptible
    /\ interrupts' = interrupts + 1
    /\ row' = [row EXCEPT ![plan[p].thread] = MainPlace(plan[p])]
    /\ dbTx' = None
    /\ Return(p)
    /\ UNCHANGED <<live, liveD, status, nativeVars, confirmed, failures>>

\* Mutant of Waits: an overlapping scan is not waited for.
WaitsPendingOnly(t) == status = "pending" /\ row[t] # None /\ row[t][1] = "pre"

\* awaitPublicationSelection waits for an overlapping scan, and for a pending
\* one when a prerequisite is selected.
Waits(t) ==
    \/ status = "running"
    \/ status = "pending" /\ row[t] # None /\ row[t][1] = "pre"

\* finishPublicationSelection: no row, or the row of the main file, is success;
\* another conversation is a conflict; a prerequisite is validated again and
\* must be repaired.
FinishPublicationSelection(p) ==
    /\ pc[p] = "confirm"
    /\ ~Waits(plan[p].thread)
    /\ LET selected == row[plan[p].thread] IN
       IF selected \in {None, MainPlace(plan[p])}
       THEN /\ confirmed' = confirmed \cup {plan[p]}
            /\ Return(p)
            /\ UNCHANGED dbVars
       ELSE IF selected[1] = "pre" /\ ~Conflict(plan[p])
       THEN /\ choice' = [choice EXCEPT ![p].repair = selected]
            /\ Goto(p, "rereserve")
            /\ UNCHANGED <<plan, at, guards, dbVars, confirmed>>
       ELSE Fail(p)
    /\ UNCHANGED <<live, liveD, nativeVars, interrupts, failures>>

\* Mutant of Interrupt: a failed import removes the file it just linked.
InterruptCleans(p) ==
    /\ pc[p] # "idle"
    /\ Interruptible
    /\ interrupts' = interrupts + 1
    /\ Fail(p)
    /\ live' = IF pc[p] = "syncLink"
               THEN [live EXCEPT ![Destination(plan[p], at[p])] = Absent]
               ELSE live
    /\ UNCHANGED <<liveD, nativeVars, failures>>

\* A cancelled context, an I/O error, the 15 second deadline or a kill: whatever
\* was installed stays, locks and reservation go.
Interrupt(p) ==
    /\ pc[p] # "idle"
    /\ Interruptible
    /\ interrupts' = interrupts + 1
    /\ Fail(p)
    /\ UNCHANGED <<live, liveD, nativeVars, failures>>

-----------------------------------------------------------------------------
(* Native Codex (external).                                                *)

\* A conversation is loaded under its thread's writer lock, and let go again.
NativeLoad(t) ==
    /\ t \notin loaded
    /\ \A p \in Proc : t \notin guards[p]
    /\ \E r \in Rollout : ThreadOf[r] = t /\ live[<<"full", r>>] # Absent
    /\ loaded' = loaded \cup {t}
    /\ UNCHANGED <<live, liveD, dbVars, importVars, index, confirmed,
                   interrupts, failures>>

NativeUnload(t) ==
    /\ t \in loaded
    /\ loaded' = loaded \ {t}
    /\ UNCHANGED <<live, liveD, dbVars, importVars, index, confirmed,
                   interrupts, failures>>

NativeAppend(r) ==
    /\ ThreadOf[r] \in loaded
    /\ live[<<"full", r>>] # Absent
    /\ Len(live[<<"full", r>>]) < MaxLen
    /\ live' = [live EXCEPT ![<<"full", r>>] = Append(@, NativeRecord)]
    /\ liveD' = [liveD EXCEPT ![<<"full", r>>] = live'[<<"full", r>>]]
    /\ UNCHANGED <<dbVars, importVars, nativeVars, confirmed, interrupts,
                   failures>>

\* A revert starts another rollout of the loaded thread and selects it.
NativeRevert(r) ==
    /\ ThreadOf[r] \in loaded
    /\ live[<<"full", r>>] = Absent /\ live[<<"pre", r>>] = Absent
    /\ \A pl \in Plans : \A i \in Indices(pl) : pl.files[i].rollout # r
    /\ status = "complete" /\ dbTx = None
    /\ live' = [live EXCEPT ![<<"full", r>>] = <<NativeRecord>>]
    /\ liveD' = [liveD EXCEPT ![<<"full", r>>] = <<NativeRecord>>]
    /\ row' = [row EXCEPT ![ThreadOf[r]] = <<"full", r>>]
    /\ UNCHANGED <<status, dbTx, importVars, nativeVars, confirmed, interrupts,
                   failures>>

\* The database is created, with the initial indexing pending.
NativeCreate ==
    /\ status = "absent"
    /\ status' = "pending"
    /\ UNCHANGED <<live, liveD, row, dbTx, importVars, nativeVars, confirmed,
                   interrupts, failures>>

\* "running" is committed before any path is collected; a scan that died is
\* started over.
IndexStart ==
    /\ status \in {"pending", "running"}
    /\ index.phase = "off"
    /\ status' = "running"
    /\ index' = [phase |-> "scan", scanned |-> {}, found |-> {}]
    /\ UNCHANGED <<live, liveD, row, dbTx, importVars, loaded, confirmed,
                   interrupts, failures>>

\* The scan walks the two parts of the home one after the other.
IndexScan(loc) ==
    /\ index.phase = "scan"
    /\ loc \notin index.scanned
    /\ index' = [index EXCEPT
                    !.scanned = @ \cup {loc},
                    !.found = @ \cup {pl \in Place : /\ pl[1] = loc
                                                     /\ live[pl] # Absent}]
    /\ UNCHANGED <<live, liveD, dbVars, importVars, loaded, confirmed,
                   interrupts, failures>>

\* A thread selects an ordinary rollout if the scan found one.
Selectable(t) ==
    LET of(loc) == {pl \in index.found : pl[1] = loc /\ ThreadOf[pl[2]] = t}
    IN  IF of("full") # {} THEN of("full")
        ELSE IF of("pre") # {} THEN of("pre") ELSE {row[t]}

IndexUpsert ==
    /\ index.phase = "scan"
    /\ index.scanned = Loc
    /\ dbTx = None
    /\ row' \in [Thread -> Place \cup {None}]
    /\ \A t \in Thread : row'[t] \in Selectable(t)
    /\ index' = [index EXCEPT !.phase = "upserted"]
    /\ UNCHANGED <<live, liveD, status, dbTx, importVars, loaded, confirmed,
                   interrupts, failures>>

IndexComplete ==
    /\ index.phase = "upserted"
    /\ status' = "complete"
    /\ index' = [phase |-> "off", scanned |-> {}, found |-> {}]
    /\ UNCHANGED <<live, liveD, row, dbTx, importVars, loaded, confirmed,
                   interrupts, failures>>

-----------------------------------------------------------------------------
(* The machine (external).                                                 *)

\* The kernel writes a pending directory change back on its own.
WriteBack(place) ==
    /\ liveD[place] # live[place]
    /\ liveD' = [liveD EXCEPT ![place] = live[place]]
    /\ UNCHANGED <<live, dbVars, importVars, nativeVars, confirmed, interrupts,
                   failures>>

\* Power loss: the disk and the committed database come back.  A behaviour has
\* interruptions or power losses, not both: an interrupted import leaves files
\* that a retry takes as they are, and DurableBeforeCommit shows that nothing
\* makes those durable.
MachineFailure ==
    /\ failures < MaxFailures /\ interrupts = 0
    /\ failures' = failures + 1
    /\ live' = liveD
    /\ dbTx' = None
    /\ pc' = [p \in Proc |-> "idle"]
    /\ plan' = [p \in Proc |-> None]
    /\ at' = [p \in Proc |-> 1]
    /\ choice' = [p \in Proc |-> NoChoice]
    /\ guards' = [p \in Proc |-> {}]
    /\ loaded' = {}
    /\ index' = [phase |-> "off", scanned |-> {}, found |-> {}]
    /\ UNCHANGED <<liveD, row, status, confirmed, interrupts>>

-----------------------------------------------------------------------------
\* What a started import does on its own.
Progress(p) ==
    \/ CheckConflicts(p) \/ BeginSelectionUpdate(p)
    \/ PublishPrefix(p) \/ SyncPrefix(p)
    \/ LinkFile(p) \/ SyncLink(p) \/ ReuseFile(p)
    \/ FinishUpdate(p) \/ FinishPublicationSelection(p)

Importer(p) ==
    \/ \E pl \in Plans : Acquire(p, pl)
    \/ Progress(p) \/ CommitUnknown(p) \/ Interrupt(p)

Indexer ==
    IndexStart \/ (\E loc \in Loc : IndexScan(loc)) \/ IndexUpsert \/ IndexComplete

Native ==
    \/ NativeCreate \/ Indexer
    \/ \E t \in Thread : NativeLoad(t) \/ NativeUnload(t)
    \/ \E r \in Rollout : NativeAppend(r) \/ NativeRevert(r)

Machine == MachineFailure \/ \E place \in Place : WriteBack(place)

Next == Native \/ Machine \/ \E p \in Proc : Importer(p)

Spec == Init /\ [][Next]_vars

\* A running import and the indexer make progress, and whoever wants a session
\* imported retries until the writer locks are free.
FairSpec ==
    /\ Spec
    /\ WF_vars(Indexer)
    /\ \A p \in Proc : WF_vars(Progress(p))
    /\ \A p \in Proc, pl \in Plans : SF_vars(Acquire(p, pl))

-----------------------------------------------------------------------------
(* Properties.                                                             *)

PC == {"idle", "check", "reserve", "file", "syncPrefix", "link", "syncLink",
       "commit", "confirm", "rereserve", "recommit"}

\* Types; an importer past the checks works on a file of its plan, and the
\* reservation is held by an importer that publishes or commits.
TypeOK ==
    /\ live \in [Place -> Seq(Record)]
    /\ liveD \in [Place -> Seq(Record)]
    /\ row \in [Thread -> Place \cup {None}]
    /\ status \in {"absent", "pending", "running", "complete"}
    /\ dbTx \in Proc \cup {None}
    /\ pc \in [Proc -> PC]
    /\ plan \in [Proc -> Plans \cup {None}]
    /\ \A p \in Proc : pc[p] # "idle" => plan[p] # None /\ at[p] \in Indices(plan[p])
    /\ \A p \in Proc : pc[p] \in {"commit", "recommit"} => dbTx = p
    /\ guards \in [Proc -> SUBSET (Thread \cup Rollout)]
    /\ loaded \in SUBSET Thread
    /\ index \in [phase : {"off", "scan", "upserted"}, scanned : SUBSET Loc,
                  found : SUBSET Place]
    /\ confirmed \in SUBSET Plans
    /\ interrupts \in 0..MaxInterrupts
    /\ failures \in 0..MaxFailures

\* The conversation of the plan is visible, with all that it inherits.
Visible(pl) == VisibleIn(live, pl)
Inherits(pl) == InheritsIn(live, pl)

\* Whenever a conversation is visible it can be resumed (extend.go:18-21).  This
\* needs the prerequisites-first order, the growth of shorter copies and the
\* syncs between files (publish.go:108-135).
LineageClosed == \A pl \in Plans : Visible(pl) => Inherits(pl)

\* The home as a store of sessions: those with their whole lineage.
Store == INSTANCE SessionStore WITH
    Session <- Plans,
    held <- {pl \in Plans : Visible(pl) /\ Inherits(pl)},
    reported <- confirmed

\* Publication implements SessionStore: a session is reported only when it is
\* held with all that it inherits, no later import, interruption or native
\* append takes a held session away, and a power failure none that was reported
\* (publish, and the syncs before it reports).
ImplementsStore == Store!Spec

\* No step shortens, rewrites or removes history: a managed prefix only grows,
\* and an ordinary conversation changes only under native Codex's own writer
\* lock ("existing conversations are never overwritten", locks.go:43).
KeepsHistory ==
    \A place \in Place : live[place] # Absent =>
        /\ IsPrefixOf(live[place], live'[place])
        /\ place[1] = "full" /\ live'[place] # live[place] =>
               ThreadOf[place[2]] \in loaded

HistoryOnlyGrows == [][MachineFailure \/ KeepsHistory]_vars

\* selection_update.go:176-180, on the selection after a reported success: "A scan
\* that has not started yet will see the complete publication; an overlapping
\* scan must finish before its selected prerequisite is repaired."  So no thread
\* that was imported selects a partial prerequisite afterwards.
ConfirmedNeverPartial ==
    \A pl \in confirmed :
        row[pl.thread] = None \/ row[pl.thread][1] = "full"

\* What publish really achieves.  It does not wait for indexing when a plan has
\* one file and nothing to promote (publish.go:158).  After a reported success
\* the thread never selects a prerequisite if the conversation inherits, for then
\* an overlapping scan was waited for and repaired; if it inherits nothing, it
\* never selects a prefix of the conversation itself.
AwaitedNeverPartial ==
    \A pl \in confirmed, r \in Rollout :
        Last(pl) > 1 \/ r = Main(pl).rollout => row[pl.thread] # <<"pre", r>>

\* The database never selects a file that does not exist, as long as the
\* machine does not fail: native indexing commits the name of a file whose
\* directory may not be on disk yet.
NoDanglingSelection ==
    failures = 0 => \A t \in Thread : row[t] # None => live[row[t]] # Absent

\* Whatever a plan brings as a prerequisite of the thread is in the lineage of
\* every plan for the thread.
SharesLineage(t) ==
    \A pl, other \in Plans : pl.thread = t =>
        \A i \in Indices(other) \ {Last(other)} :
            ThreadOf[other.files[i].rollout] = t =>
                \E j \in Indices(pl) : pl.files[j].rollout = other.files[i].rollout

\* Retry completes: whatever the interruptions left behind, and however indexing
\* overlapped, every thread is eventually imported if the home had nothing that
\* conflicts, native Codex does not load the conversations meanwhile and the
\* machine does not fail (publish.go:99-104, "retry is safe").  Plans for two
\* rollouts of one thread exclude each other; and where one of them does not
\* descend from a prerequisite of the thread, indexing can select that one while
\* an import is interrupted, and every retry is then a conflict.
RetrySucceeds ==
    (\A pl \in Plans : ~Conflict(pl)) /\ [](loaded = {} /\ failures = 0) =>
        \A t \in Thread : SharesLineage(t) =>
            <>(\E pl \in confirmed : pl.thread = t)

\* selection_update.go:152: "All live history must be durable before this call."
\* Every file of the plan is on disk, in some sufficient copy, when the selection
\* is about to be committed.
DurableBeforeCommit ==
    \A p \in Proc : pc[p] \in {"commit", "recommit"} =>
        \A i \in Indices(plan[p]) :
            \E loc \in Loc : IsPrefixOf(plan[p].files[i].content,
                                        liveD[<<loc, plan[p].files[i].rollout>>])

=============================================================================
