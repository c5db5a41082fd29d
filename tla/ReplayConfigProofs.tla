-------------------------- MODULE ReplayConfigProofs --------------------------
(***************************************************************************)
(* Theorems about ReplayConfig, for all sets of entries, capacities and    *)
(* numbers of edits.  IInv is inductive; with it every step of the handler *)
(* is a step of ConfigFollower or a stutter.                               *)
(***************************************************************************)
EXTENDS ReplayConfig, TLAPS

(* A file that can be read is a set of entries.                            *)
LEMMA ReadFile ==
  ASSUME TypeOK, file # Broken
  PROVE  file \in SUBSET Args
  BY DEF TypeOK, Contents

(* After on_config_update the keys are the entries of the file.            *)
LEMMA UpdateFollows ==
  ASSUME TypeOK, file # Broken, OnConfigUpdate
  PROVE  /\ keys' = file
         /\ feeding' \in SUBSET keys'
         /\ dying' \in [Args -> Nat]
<1>1. file \in SUBSET Args
  BY ReadFile
<1>2. keys' = file
  BY <1>1 DEF OnConfigUpdate, TypeOK
<1>3. feeding' \in SUBSET keys'
  BY <1>1 DEF OnConfigUpdate, TypeOK
<1>4. dying' \in [Args -> Nat]
  BY DEF OnConfigUpdate, TypeOK
<1> QED
  BY <1>2, <1>3, <1>4

(* Initial states satisfy the invariant.                                   *)
LEMMA InvInit == Init => IInv
<1> SUFFICES ASSUME Init PROVE IInv
  OBVIOUS
<1>1. edits \in 0..MaxEdits /\ unread \in 0..edits
  BY ReplayConfigAssumption DEF Init, ReplayConfigAssumption
<1>2. data \in Seq(Args) /\ Len(data) <= DataCap
  BY ReplayConfigAssumption DEF Init, ReplayConfigAssumption
<1>3. dying \in [Args -> Nat] /\ feeding \in SUBSET keys
  BY DEF Init
<1>4. TypeOK
  BY <1>1, <1>2, <1>3 DEF Init, TypeOK
<1>5. Tracked
  BY DEF Init, Tracked
<1> QED
  BY <1>4, <1>5 DEF IInv

(* Every step keeps the inductive invariant.                               *)
LEMMA InvStep == IInv /\ [Next]_vars => IInv'
<1> SUFFICES ASSUME IInv, [Next]_vars PROVE IInv'
  OBVIOUS
<1> USE ReplayConfigAssumption
<1>1. CASE New
  <2>1. CASE file = Broken
    BY <1>1, <2>1 DEF New, IInv, TypeOK, Tracked, fileVars, tasks
  <2>2. CASE file # Broken
    <3>1. keys' = file /\ feeding' \in SUBSET keys' /\ dying' \in [Args -> Nat]
      BY <1>1, <2>2, UpdateFollows DEF New, IInv
    <3>2. file \in SUBSET Args
      BY <2>2, ReadFile DEF IInv
    <3> QED
      BY <1>1, <2>2, <3>1, <3>2 DEF New, IInv, TypeOK, Tracked, fileVars
  <2> QED
    BY <2>1, <2>2
<1>2. CASE CreateWatcher
  BY <1>2 DEF CreateWatcher, IInv, TypeOK, Tracked, fileVars, tasks
<1>3. CASE HandleEvent
  <2>1. unread' \in 0..edits'
    BY <1>3 DEF HandleEvent, IInv, TypeOK
  <2>2. CASE file = Broken
    BY <1>3, <2>1, <2>2 DEF HandleEvent, IInv, TypeOK, Tracked, tasks
  <2>3. CASE file # Broken
    <3>1. keys' = file /\ feeding' \in SUBSET keys' /\ dying' \in [Args -> Nat]
      BY <1>3, <2>3, UpdateFollows DEF HandleEvent, IInv
    <3>2. file \in SUBSET Args
      BY <2>3, ReadFile DEF IInv
    <3> QED
      BY <1>3, <2>1, <2>3, <3>1, <3>2 DEF HandleEvent, IInv, TypeOK, Tracked
  <2> QED
    BY <2>2, <2>3
<1>4. ASSUME NEW a \in Args, FeedSend(a) PROVE IInv'
  <2>1. data' \in Seq(Args) /\ Len(data') <= DataCap
    BY <1>4, ReplayConfigAssumption DEF FeedSend, IInv, TypeOK, ReplayConfigAssumption
  <2> QED
    BY <1>4, <2>1 DEF FeedSend, IInv, TypeOK, Tracked, fileVars, tasks
<1>5. ASSUME NEW a \in Args, FeedEnd(a) PROVE IInv'
  BY <1>5 DEF FeedEnd, IInv, TypeOK, Tracked, fileVars
<1>6. ASSUME NEW a \in Args, Aborted(a) PROVE IInv'
  <2>1. dying' \in [Args -> Nat]
    BY <1>6 DEF Aborted, IInv, TypeOK
  <2> QED
    BY <1>6, <2>1 DEF Aborted, IInv, TypeOK, Tracked, fileVars
<1>7. CASE HubTakes
  <2>1. data' \in Seq(Args) /\ Len(data') <= DataCap
    BY <1>7, ReplayConfigAssumption DEF HubTakes, IInv, TypeOK, ReplayConfigAssumption
  <2> QED
    BY <1>7, <2>1 DEF HubTakes, IInv, TypeOK, Tracked, fileVars, tasks
<1>8. CASE Edit
  <2>1. edits' \in 0..MaxEdits /\ unread' \in 0..edits'
    BY <1>8, ReplayConfigAssumption DEF Edit, IInv, TypeOK, ReplayConfigAssumption
  <2>2. hub = "loop" => unread' # 0
    BY <1>8 DEF Edit, IInv, TypeOK
  <2> QED
    BY <1>8, <2>1, <2>2 DEF Edit, IInv, TypeOK, Tracked, tasks
<1>9. CASE UNCHANGED vars
  BY <1>9 DEF vars, IInv, TypeOK, Tracked, fileVars, tasks
<1> QED
  BY <1>1, <1>2, <1>3, <1>4, <1>5, <1>6, <1>7, <1>8, <1>9 DEF Next

(* IInv is an invariant of every instance.                                 *)
THEOREM Inductive == Spec => []IInv
  BY InvInit, InvStep, PTL DEF Spec

(* The types; no more than DataCap messages wait; a task belongs to a key. *)
THEOREM TypeCorrect == Spec => []TypeOK
<1>1. IInv => TypeOK
  BY DEF IInv
<1> QED
  BY <1>1, Inductive, PTL

(* Whenever no event is pending the keys are the entries of the file.      *)
THEOREM FileIsFollowed == Spec => []AgreesWithFile
<1>1. IInv => AgreesWithFile
  BY DEF IInv, TypeOK, Tracked, AgreesWithFile, Follower!Faithful
<1> QED
  BY <1>1, Inductive, PTL

------------------------------------------------------------------------------
(* Initial states of the handler are initial states of ConfigFollower.     *)
LEMMA FollowerInit == Init => Follower!Init
  BY DEF Init, Contents, Follower!Init, Follower!Contents

(* Every step of the handler is one of ConfigFollower, or a stutter.       *)
LEMMA FollowerStep == IInv /\ IInv' /\ [Next]_vars => [Follower!Next]_(Follower!vars)
<1> SUFFICES ASSUME IInv, IInv', [Next]_vars PROVE [Follower!Next]_(Follower!vars)
  OBVIOUS
<1> USE DEF Follower!vars
<1>1. CASE New
  <2>1. CASE file = Broken
    BY <1>1, <2>1
       DEF New, Follower!Next, Follower!Start, Follower!Adopt, fileVars, tasks
  <2>2. CASE file # Broken
    <3>1. keys' = file
      BY <1>1, <2>2, UpdateFollows DEF New, IInv
    <3> QED
      BY <1>1, <2>2, <3>1
         DEF New, Follower!Next, Follower!Start, Follower!Adopt, fileVars
  <2> QED
    BY <2>1, <2>2
<1>2. CASE CreateWatcher
  BY <1>2 DEF CreateWatcher, Follower!Next, Follower!Listen, fileVars, tasks
<1>3. CASE HandleEvent
  <2>1. CASE file = Broken
    BY <1>3, <2>1
       DEF HandleEvent, IInv, TypeOK, Follower!Next, Follower!Follow, Follower!Adopt, tasks
  <2>2. CASE file # Broken
    <3>1. keys' = file
      BY <1>3, <2>2, UpdateFollows DEF HandleEvent, IInv
    <3> QED
      BY <1>3, <2>2, <3>1
         DEF HandleEvent, IInv, TypeOK, Follower!Next, Follower!Follow, Follower!Adopt
  <2> QED
    BY <2>1, <2>2
<1>4. CASE \E a \in Args : FeedSend(a) \/ FeedEnd(a) \/ Aborted(a)
  BY <1>4 DEF FeedSend, FeedEnd, Aborted, fileVars, tasks
<1>5. CASE HubTakes
  BY <1>5 DEF HubTakes, fileVars, tasks
<1>6. CASE Edit
  <2>1. (unread' > 0) <=> (unread > 0 \/ hub = "loop")
    BY <1>6 DEF Edit, IInv, TypeOK
  <2> QED
    BY <1>6, <2>1
       DEF Edit, Contents, Follower!Next, Follower!Write, Follower!Contents, tasks
<1>7. CASE UNCHANGED vars
  BY <1>7 DEF vars, fileVars, tasks
<1> QED
  BY <1>1, <1>2, <1>3, <1>4, <1>5, <1>6, <1>7 DEF Next

(* The handler of crypto-market-replay implements ConfigFollower.          *)
THEOREM FollowerImplemented == Spec => ImplementsFollower
  BY FollowerInit, FollowerStep, Inductive, PTL DEF Spec, ImplementsFollower, Follower!Spec

------------------------------------------------------------------------------
(* An event leaves the tasks of the entries that stay alone.               *)
THEOREM UnchangedAreSpared == Spec => UpdateSparesUnchanged
<1>1. IInv /\ [Next]_vars => [SparedNow]_vars
  <2> SUFFICES ASSUME IInv, [Next]_vars, unread' < unread,
                      NEW a \in keys \cap keys'
               PROVE  (a \in feeding' <=> a \in feeding) /\ dying'[a] = dying[a]
    BY DEF SparedNow
  <2>1. HandleEvent
    BY DEF Next, New, CreateWatcher, FeedSend, FeedEnd, Aborted, HubTakes, Edit,
       vars, fileVars, IInv, TypeOK
  <2>2. CASE file = Broken
    BY <2>1, <2>2 DEF HandleEvent, tasks
  <2>3. CASE file # Broken
    <3>1. OnConfigUpdate /\ keys' = file
      BY <2>1, <2>3, UpdateFollows DEF HandleEvent, IInv
    <3> QED
      BY <3>1 DEF OnConfigUpdate, IInv, TypeOK
  <2> QED
    BY <2>2, <2>3
<1> QED
  BY <1>1, Inductive, PTL DEF Spec, UpdateSparesUnchanged

==============================================================================
