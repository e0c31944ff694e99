------------------------- MODULE HomeBootstrapProofs -------------------------
(***************************************************************************)
(* What the start of any number of containers does to a shared home.        *)
(***************************************************************************)
EXTENDS HomeBootstrap, TLAPS

\* The control points of a container that has not found out yet whether it can
\* work in the home, or has found that it cannot.
Outside == {"off", "start", "look", "chownHome", "shell", "failed"}

\* Only in a home of the user does a container create anything.
Working == \A c \in Container : pc[c] \in Outside \/ owner = "user"

\* A container that is about to change the owner found nothing in the home, and if
\* something has come since, the home is already the user's.
Pending ==
    \A c \in Container : pc[c] = "chownHome" => OnlyMountPoints \/ owner = "user"

\* A new volume is the user's or holds nothing but mount points, and then the
\* containers that did not take it over saw that of another workspace.
Claimed ==
    fresh =>
        /\ owner = "user" \/ (OnlyMountPoints /\ marker = "absent")
        /\ \A c \in Container :
              pc[c] \in {"shell", "failed"}
                => owner = "user" \/ mounts \ {entry[c]} # {}
        /\ \A f \in Shell : file[f] # "unreadable"

IInv == TypeOK /\ Working /\ Pending /\ Claimed

\* The initial states satisfy the invariant.
LEMMA InitIInv == Init => IInv
<1> SUFFICES ASSUME Init PROVE IInv
  OBVIOUS
<1> USE DEF Init, File, Shell, Harness, Content
<1>1. TypeOK
  <2>1. file \in [File -> Content] /\ \A f \in Shell : file[f] # "empty"
    <3>1. CASE fresh = TRUE
      BY <3>1
    <3>2. CASE fresh = FALSE
      <4>1. PICK rc, profile \in {"absent", "users", "unreadable"},
                 settings \in {"absent", "users"} :
              file = [f \in File |-> CASE f = "bashrc" -> rc
                                       [] f = "bash_profile" -> profile
                                       [] f = "settings" -> settings
                                       [] OTHER -> "absent"]
        BY <3>2
      <4> QED
        BY <4>1
    <3> QED
      BY <3>1, <3>2
  <2>2. pc \in [Container -> Point] /\ path \in [Container -> Shell]
    BY DEF Point
  <2>3. /\ entry \in [Container -> Dir \cup {NoDir}] /\ mounts \subseteq Dir
        /\ owner \in {"root", "user"}
        /\ used \in BOOLEAN /\ fresh \in BOOLEAN
        /\ stateDir \in {"absent", "root", "user"}
        /\ marker \in {"absent", "empty", "default"}
        /\ temps = {} /\ kills = 0
    OBVIOUS
  <2>4. 0 \in 0..MaxKills
    BY ConstantsAssumption
  <2> HIDE DEF Init
  <2> QED
    BY <2>1, <2>2, <2>3, <2>4 DEF TypeOK
<1>2. Working /\ Pending
  BY DEF Working, Pending, Outside
<1>3. Claimed
  BY DEF Claimed, OnlyMountPoints, Exists
<1> QED
  BY <1>1, <1>2, <1>3 DEF IInv

\* Every step keeps the types.
LEMMA NextTypeOK == TypeOK /\ [Next]_vars => TypeOK'
<1> SUFFICES ASSUME TypeOK, [Next]_vars PROVE TypeOK'
  OBVIOUS
<1> USE DEF TypeOK, Point, File, Shell, Harness, Content, Goto
<1>1. ASSUME NEW c \in Container, Mount(c) \/ CheckMarker(c) \/ CheckEmpty(c)
             \/ ChownHome(c) \/ MkdirState(c) \/ ChownState(c) \/ OpenMarker(c)
             \/ WriteMarker(c)
      PROVE TypeOK'
  BY <1>1 DEF Mount, CheckMarker, CheckEmpty, ChownHome, MkdirState, ChownState,
              OpenMarker, WriteMarker, home, given
<1>2. ASSUME NEW c \in Container, CheckAccess(c) \/ CheckMissing(c)
             \/ WriteTemp(c) \/ Unlink(c) \/ Verify(c)
      PROVE TypeOK'
  BY <1>2 DEF CheckAccess, CheckMissing, WriteTemp, Unlink, Verify, home,
              given
<1>3. ASSUME NEW c \in Container, Link(c) PROVE TypeOK'
  <2>0. pc' \in [Container -> Point]
    BY <1>3 DEF Link
  <2>1. path[c] \in File /\ LinkResult(path[c]) \in Content \ {"empty"}
    BY DEF LinkResult, Exists
  <2>2. file' = [file EXCEPT ![path[c]] = LinkResult(path[c])]
    BY <1>3 DEF Link
  <2>3. file' \in [File -> Content] /\ \A f \in Shell : file'[f] # "empty"
    BY <2>1, <2>2
  <2>4. UNCHANGED <<given, owner, mounts, used, stateDir, marker, temps, path, kills>>
    BY <1>3 DEF Link
  <2> QED
    BY <2>0, <2>3, <2>4 DEF given
<1>4. ASSUME NEW c \in Container, CheckSettings(c) \/ OpenSettings(c)
             \/ WriteSettings(c) \/ MarkSudoNotice(c) \/ SessionInit(c)
      PROVE TypeOK'
  BY <1>4 DEF CheckSettings, OpenSettings, WriteSettings, MarkSudoNotice,
              SessionInit, home, given
<1>5. ASSUME NEW c \in Container, Kill(c) PROVE TypeOK'
  <2>1. kills' \in 0..MaxKills
    BY <1>5, ConstantsAssumption DEF Kill
  <2> QED
    BY <1>5, <2>1 DEF Kill, home, given
<1>6. ASSUME NEW c \in Container, UserWrites(c) PROVE TypeOK'
  BY <1>6 DEF UserWrites, given
<1>7. CASE UNCHANGED vars
  BY <1>7 DEF vars, home, given
<1> QED
  BY <1>1, <1>2, <1>3, <1>4, <1>5, <1>6, <1>7 DEF Next, Step

\* Every step keeps the order of things: what a container creates, it creates in
\* a home of the user.
LEMMA NextOrdered == IInv /\ [Next]_vars => Working' /\ Pending' /\ Claimed'
<1> DEFINE Ordered == Working /\ Pending /\ Claimed
<1> SUFFICES ASSUME TypeOK, Ordered, [Next]_vars PROVE Ordered'
  BY DEF IInv
<1> USE DEF Working, Pending, Claimed, Outside, OnlyMountPoints, Exists, TypeOK,
            Goto, home, given
<1>1. ASSUME NEW c \in Container, Mount(c) \/ CheckMarker(c) \/ CheckEmpty(c)
      PROVE Ordered'
  BY <1>1 DEF Mount, CheckMarker, CheckEmpty, HomeIsEmpty
<1>2. ASSUME NEW c \in Container, ChownHome(c) PROVE Ordered'
  BY <1>2 DEF ChownHome
<1>3. ASSUME NEW c \in Container, MkdirState(c) \/ ChownState(c)
             \/ OpenMarker(c) \/ WriteMarker(c)
      PROVE Ordered'
  BY <1>3 DEF MkdirState, ChownState, OpenMarker, WriteMarker
<1>4. ASSUME NEW c \in Container, CheckAccess(c) \/ CheckMissing(c)
             \/ WriteTemp(c) \/ Unlink(c)
      PROVE Ordered'
  BY <1>4 DEF CheckAccess, CheckMissing, WriteTemp, Unlink
<1>5. ASSUME NEW c \in Container, Link(c) PROVE Ordered'
  BY <1>5 DEF Link, LinkResult, File, Shell, Harness
<1>6. ASSUME NEW c \in Container, Verify(c) PROVE Ordered'
  BY <1>6 DEF Verify
<1>7. ASSUME NEW c \in Container, CheckSettings(c) \/ OpenSettings(c)
             \/ WriteSettings(c) \/ MarkSudoNotice(c) \/ SessionInit(c)
      PROVE Ordered'
  BY <1>7 DEF CheckSettings, OpenSettings, WriteSettings, MarkSudoNotice,
              SessionInit, File, Shell, Harness
<1>8. ASSUME NEW c \in Container, Kill(c) PROVE Ordered'
  BY <1>8 DEF Kill
<1>9. ASSUME NEW c \in Container, UserWrites(c) PROVE Ordered'
  BY <1>9 DEF UserWrites, File, Shell, Harness
<1>10. CASE UNCHANGED vars
  BY <1>10 DEF vars
<1> QED
  BY <1>1, <1>2, <1>3, <1>4, <1>5, <1>6, <1>7, <1>8, <1>9, <1>10 DEF Next, Step

\* The invariant is inductive.
LEMMA NextIInv == IInv /\ [Next]_vars => IInv'
BY NextTypeOK, NextOrdered DEF IInv

\* The invariant holds in every reachable state.
LEMMA Inductive == Spec => []IInv
<1>1. Init => IInv
  BY InitIInv
<1>2. IInv /\ [Next]_vars => IInv'
  BY NextIInv
<1> QED
  BY <1>1, <1>2, PTL DEF Spec

\* The variables keep their types, and no container ever exposes a half-written
\* startup file in the home it shares.
THEOREM HomeTypeCorrect == Spec => []TypeOK
<1>1. IInv => TypeOK
  BY DEF IInv
<1> QED
  BY <1>1, Inductive, PTL

\* However many containers start at once on a new volume, and wherever they are
\* killed, a start fails only if another workspace's mount point is in the home
\* and nobody has begun to set the home up.
THEOREM FreshHomeFailure == Spec => FreshHomeUsable
<1> DEFINE Excused ==
      \A c \in Container :
        fresh /\ pc[c] # "failed" /\ pc'[c] = "failed"
           => OnlyMountPoints /\ mounts \ {entry[c]} # {}
<1>1. IInv /\ [Next]_vars => [Excused]_vars
  <2> SUFFICES ASSUME IInv, [Next]_vars, fresh,
                      NEW c \in Container, pc[c] # "failed", pc'[c] = "failed"
               PROVE OnlyMountPoints /\ mounts \ {entry[c]} # {}
    OBVIOUS
  <2> USE DEF IInv, TypeOK, Goto
  <2>1. PICK d \in Container : CheckAccess(d) \/ Verify(d)
    BY DEF Next, Step, Mount, CheckMarker, CheckEmpty, ChownHome, MkdirState,
           ChownState, OpenMarker, WriteMarker, CheckMissing, WriteTemp, Link,
           Unlink, CheckSettings, OpenSettings, WriteSettings, MarkSudoNotice,
           SessionInit, Kill, UserWrites, vars
  <2>2. CASE CheckAccess(d)
    BY <2>2 DEF CheckAccess, Claimed
  <2>3. CASE Verify(d)
    BY <2>3 DEF Verify, Claimed
  <2> QED
    BY <2>1, <2>2, <2>3
<1> QED
  BY <1>1, Inductive, PTL DEF Spec, FreshHomeUsable

\* No start changes the owner of a home that has anything of its own in it, also
\* when its look at the home is out of date.
THEOREM OwnershipPreserved == Spec => HomeOwnershipKept
<1>1. IInv /\ [Next]_vars => [~OnlyMountPoints => owner' = owner]_vars
  <2> SUFFICES ASSUME IInv, [Next]_vars, ~OnlyMountPoints PROVE owner' = owner
    OBVIOUS
  <2>1. ASSUME NEW c \in Container, ChownHome(c) PROVE owner' = owner
    BY <2>1 DEF IInv, Pending, ChownHome
  <2> QED
    BY <2>1 DEF Next, Step, Mount, CheckMarker, CheckEmpty, MkdirState, ChownState,
       OpenMarker, WriteMarker, CheckAccess, CheckMissing, WriteTemp, Link,
       Unlink, Verify, CheckSettings, OpenSettings, WriteSettings,
       MarkSudoNotice, SessionInit, Kill, UserWrites, vars, home
<1> QED
  BY <1>1, Inductive, PTL DEF Spec, HomeOwnershipKept

\* A startup file appears complete, and what a user put there is never replaced
\* by a start.
THEOREM StartupFilesPreserved == Spec => StartupFilesKept
<1> DEFINE Kept == \A f \in Shell :
              \/ file'[f] = file[f]
              \/ file[f] = "absent" /\ file'[f] = "default"
              \/ file'[f] = "users"
<1>1. IInv /\ [Next]_vars => [Kept]_vars
  <2> SUFFICES ASSUME TypeOK, [Next]_vars PROVE Kept
    BY DEF IInv
  <2> USE DEF TypeOK, File, Shell, Harness
  <2>1. ASSUME NEW c \in Container, Link(c) PROVE Kept
    BY <2>1 DEF Link, LinkResult, Exists
  <2>2. ASSUME NEW c \in Container, OpenSettings(c) \/ WriteSettings(c)
               \/ MarkSudoNotice(c) \/ UserWrites(c)
        PROVE Kept
    BY <2>2 DEF OpenSettings, WriteSettings, MarkSudoNotice, UserWrites
  <2>3. CASE UNCHANGED file
    BY <2>3
  <2> QED
    BY <2>1, <2>2, <2>3 DEF Next, Step, Mount, CheckMarker, CheckEmpty, ChownHome,
       MkdirState, ChownState, OpenMarker, WriteMarker, CheckAccess,
       CheckMissing, WriteTemp, Unlink, Verify, CheckSettings, SessionInit,
       Kill, vars, home
<1> QED
  BY <1>1, Inductive, PTL DEF Spec, StartupFilesKept
=============================================================================
