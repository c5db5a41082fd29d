---------------------------- MODULE MulticastProofs ----------------------------
(***************************************************************************)
(* The two ends of the multicast group.  MulticastServer for all urls,     *)
(* types and contents of the file: the types, and that the map follows the *)
(* file; register() is looked at first, then the update of an event, then  *)
(* every action.  MulticastClient for buffers and datagrams of any size:   *)
(* the program is given the datagrams that arrived.                        *)
(***************************************************************************)
EXTENDS MulticastServer, MulticastClient, FiniteSetTheorems, SequenceTheorems, TLAPS

(* Entries are pairs of a type and a url.                                  *)
LEMMA EntryParts ==
  ASSUME NEW ipcs \in Seq(Types \X Urls), NEW i \in DOMAIN ipcs
  PROVE  /\ ipcs[i] = <<ipcs[i][1], ipcs[i][2]>>
         /\ ipcs[i][1] \in Types
         /\ ipcs[i][2] \in Urls
         /\ ipcs[i] \in ToSet(ipcs)
  BY DEF ToSet

(* A sequence has finitely many entries for a url.                         *)
LEMMA OccursCount ==
  ASSUME NEW ipcs \in Seq(Types \X Urls), NEW u, Occurs(u, ipcs) # {}
  PROVE  Cardinality(Occurs(u, ipcs)) - 1 \in Nat
<1>1. Occurs(u, ipcs) \subseteq 1..Len(ipcs)
  BY DEF Occurs
<1>2. IsFiniteSet(1..Len(ipcs))
  BY FS_Interval
<1>3. IsFiniteSet(Occurs(u, ipcs))
  BY <1>1, <1>2, FS_Subset
<1>4. Cardinality(Occurs(u, ipcs)) \in Nat /\ Cardinality(Occurs(u, ipcs)) # 0
  BY <1>3, FS_CardinalityType, FS_EmptySet
<1> QED
  BY <1>4

(* The type register() leaves behind for a url it was given is that of an
   entry it was given.                                                     *)
LEMMA LatestEntry ==
  ASSUME NEW ipcs \in Seq(Types \X Urls), NEW u \in Urls, NEW t \in Latest(u, ipcs)
  PROVE  t \in Types /\ <<t, u>> \in ToSet(ipcs)
<1>1. PICK i \in Occurs(u, ipcs) : t = ipcs[i][1]
  BY DEF Latest
<1>2. i \in DOMAIN ipcs /\ ipcs[i][2] = u
  BY DEF Occurs
<1> QED
  BY <1>1, <1>2, EntryParts

(* The map after register(): what was kept, overwritten by what was given. *)
LEMMA RegisterMap ==
  ASSUME MulticastAssumption, TasksOK,
         NEW ipcs \in Seq(Types \X Urls), NEW kept \in SUBSET Mapped,
         Register(kept, ipcs), dying' \in [Urls -> Nat]
  PROVE  /\ TasksOK'
         /\ Mapped' = kept \cup UrlsOf(ToSet(ipcs))
         /\ \A u \in Mapped' \ UrlsOf(ToSet(ipcs)) : types'[u] = types[u]
         /\ \A u \in UrlsOf(ToSet(ipcs)) : <<types'[u], u>> \in ToSet(ipcs)
<1> DEFINE new == {u \in Urls : Occurs(u, ipcs) # {}}
<1>1. new = UrlsOf(ToSet(ipcs))
  <2>1. ASSUME NEW u \in new PROVE u \in UrlsOf(ToSet(ipcs))
    <3>1. PICK i \in DOMAIN ipcs : ipcs[i][2] = u
      BY DEF Occurs
    <3> QED
      BY <3>1, EntryParts DEF UrlsOf
  <2>2. ASSUME NEW u \in UrlsOf(ToSet(ipcs)) PROVE u \in new
    <3>1. PICK i \in DOMAIN ipcs : ipcs[i][2] = u
      BY DEF UrlsOf, ToSet
    <3> QED
      BY <3>1, EntryParts DEF Occurs
  <2> QED
    BY <2>1, <2>2
<1>2. \A u \in new : types'[u] \in Types /\ <<types'[u], u>> \in ToSet(ipcs)
  <2> TAKE u \in new
  <2>1. types'[u] \in Latest(u, ipcs)
    BY DEF Register
  <2> QED
    BY <2>1, LatestEntry
<1>3. \A u \in kept \ new : types'[u] = types[u] /\ types[u] # NoType
  BY DEF Register, Mapped
<1>4. \A u \in Urls \ (kept \cup new) : types'[u] = NoType
  BY DEF Register
<1>5. types' \in [Urls -> Types \cup {NoType}]
  BY DEF Register
<1>6. Mapped' = kept \cup new
  BY <1>2, <1>3, <1>4, MulticastAssumption DEF Mapped, MulticastAssumption
<1>7. owned' \in SUBSET Mapped'
  <2>1. owned' = new \cup (owned \cap kept)
    BY DEF Register
  <2> QED
    BY <1>6, <2>1
<1>8. loose' \in [Urls -> Nat]
  <2>1. \A u \in new : Cardinality(Occurs(u, ipcs)) - 1 \in Nat
    BY OccursCount
  <2>2. ASSUME NEW u \in Urls PROVE loose'[u] \in Nat
    <3> DEFINE detached == IF u \in owned \cap kept THEN 1 ELSE 0
    <3>1. loose[u] \in Nat /\ detached \in Nat
      BY DEF TasksOK
    <3>2. loose'[u] = IF u \in new
                      THEN loose[u] + (Cardinality(Occurs(u, ipcs)) - 1) + detached
                      ELSE loose[u]
      BY DEF Register
    <3>3. CASE u \in new
      <4> HIDE DEF detached
      <4> QED
        BY <3>1, <3>2, <3>3, <2>1
    <3>4. CASE u \notin new
      BY <3>1, <3>2, <3>4
    <3> QED
      BY <3>3, <3>4
  <2>3. loose' = [u \in Urls |-> loose'[u]]
    BY DEF Register
  <2> QED
    BY <2>2, <2>3
<1>9. TasksOK'
  BY <1>5, <1>7, <1>8 DEF TasksOK
<1> QED
  BY <1>1, <1>2, <1>3, <1>6, <1>9

(* The entries of a file are finitely many.                                *)
LEMMA FileFinite ==
  ASSUME NEW ipcs \in Seq(Types \X Urls)
  PROVE  IsFiniteSet(ToSet(ipcs)) /\ ToSet(ipcs) \subseteq Types \X Urls
<1>1. ipcs \in Surjection(1..Len(ipcs), ToSet(ipcs))
  BY DEF Surjection, ToSet
<1>2. IsFiniteSet(1..Len(ipcs))
  BY FS_Interval
<1>3. IsFiniteSet(ToSet(ipcs))
  BY <1>1, <1>2, FS_Surjection
<1> QED
  BY <1>3, EntryParts DEF ToSet

(* Every order of a finite set is a sequence of all of it.                 *)
LEMMA OrderOfAll ==
  ASSUME NEW S \in SUBSET (Types \X Urls), IsFiniteSet(S), NEW ipcs \in SetToSeqs(S)
  PROVE  ipcs \in Seq(Types \X Urls) /\ ToSet(ipcs) = S
         /\ \A i, j \in DOMAIN ipcs : i # j => ipcs[i] # ipcs[j]
<1> DEFINE n == Cardinality(S)
<1>1. n \in Nat
  BY FS_CardinalityType
<1>2. ipcs \in [1..n -> S] /\ \A i, j \in 1..n : i # j => ipcs[i] # ipcs[j]
  BY DEF SetToSeqs
<1>3. ipcs \in Injection(1..n, S)
  BY <1>2 DEF Injection, IsInjective
<1>4. IsFiniteSet(1..n) /\ Cardinality(1..n) = n
  BY <1>1, FS_Interval
<1>5. ipcs \in Surjection(1..n, S)
  BY <1>3, <1>4, FS_Injection
<1>6. ipcs \in Seq(Types \X Urls)
  BY <1>1, <1>2
<1>7. DOMAIN ipcs = 1..n
  BY <1>2
<1>8. ToSet(ipcs) = S
  BY <1>2, <1>5, <1>7 DEF Surjection, ToSet
<1> QED
  BY <1>2, <1>6, <1>7, <1>8

(* The entries of the map.                                                 *)
LEMMA CurrentEntries ==
  ASSUME TasksOK
  PROVE  /\ Current \subseteq Types \X Urls
         /\ UrlsOf(Current) = Mapped
         /\ \A u \in Mapped : <<types[u], u>> \in Current
         /\ \A ipc \in Current : ipc = <<types[ipc[2]], ipc[2]>> /\ ipc[2] \in Mapped
<1>1. ASSUME NEW u \in Mapped
      PROVE  <<types[u], u>> \in Types \X Urls /\ <<types[u], u>>[2] = u
  BY DEF TasksOK, Mapped
<1>2. UrlsOf(Current) = Mapped
  BY <1>1 DEF UrlsOf, Current
<1>3. ASSUME NEW ipc \in Current
      PROVE  ipc = <<types[ipc[2]], ipc[2]>> /\ ipc[2] \in Mapped
  <2>1. PICK u \in Mapped : ipc = <<types[u], u>>
    BY DEF Current
  <2> QED
    BY <2>1
<1> QED
  BY <1>1, <1>2, <1>3 DEF Current

(* An event whose file parses makes the map agree with the file.           *)
LEMMA UpdateFollows ==
  ASSUME MulticastAssumption, TasksOK, file \in Configs, Update, file' = file
  PROVE  TasksOK' /\ InSync'
<1> DEFINE new     == ToSet(file)
           removed == Current \ new
           added   == new \ Current
           kept    == Mapped \ UrlsOf(removed)
<1>1. file \in Seq(Types \X Urls)
  BY MulticastAssumption DEF MulticastAssumption
<1>2. IsFiniteSet(added) /\ added \in SUBSET (Types \X Urls)
  BY <1>1, FileFinite, FS_Subset
<1>3. PICK ipcs \in SetToSeqs(added) : Register(kept, ipcs)
  BY DEF Update
<1>4. ipcs \in Seq(Types \X Urls) /\ ToSet(ipcs) = added
  BY <1>2, OrderOfAll
<1>5. dying' \in [Urls -> Nat]
  BY DEF Update, Cleanup, TasksOK
<1> HIDE DEF new, removed, added, kept
<1>6. /\ TasksOK'
      /\ Mapped' = kept \cup UrlsOf(added)
      /\ \A u \in Mapped' \ UrlsOf(added) : types'[u] = types[u]
      /\ \A u \in UrlsOf(added) : <<types'[u], u>> \in added
  BY <1>3, <1>4, <1>5, RegisterMap DEF kept
<1>7. ASSUME NEW u \in Mapped' PROVE <<types'[u], u>> \in new
  <2>1. CASE u \in UrlsOf(added)
    BY <2>1, <1>6 DEF added
  <2>2. CASE u \notin UrlsOf(added)
    <3>1. u \in kept /\ types'[u] = types[u]
      BY <2>2, <1>6, <1>7
    <3>2. <<types[u], u>> \in Current
      BY <3>1, CurrentEntries DEF kept
    <3>3. <<types[u], u>> \notin removed
      BY <3>1 DEF kept, UrlsOf
    <3> QED
      BY <3>1, <3>2, <3>3 DEF removed
  <2> QED
    BY <2>1, <2>2
<1>8. ASSUME NEW u \in UrlsOf(new) PROVE u \in Mapped'
  <2>1. PICK ipc \in new : ipc[2] = u
    BY DEF UrlsOf
  <2>2. CASE ipc \in added
    BY <2>1, <2>2, <1>6 DEF UrlsOf
  <2>3. CASE ipc \notin added
    <3>1. ipc \in Current
      BY <2>1, <2>3 DEF added
    <3>2. u \in Mapped /\ ipc = <<types[u], u>>
      BY <2>1, <3>1, CurrentEntries
    <3>3. u \notin UrlsOf(removed)
      <4>1. ASSUME NEW r \in removed, r[2] = u PROVE FALSE
        BY <4>1, <2>1, <3>2, CurrentEntries DEF removed
      <4> QED
        BY <4>1 DEF UrlsOf
    <3> QED
      BY <3>2, <3>3, <1>6 DEF kept
  <2> QED
    BY <2>2, <2>3
<1>9. Current' \subseteq new
  BY <1>7 DEF Current
<1>10. UrlsOf(Current)' = UrlsOf(new)
  <2>1. UrlsOf(Current)' = Mapped'
    <3>1. \A u \in Mapped' : <<types'[u], u>>[2] = u
      OBVIOUS
    <3> QED
      BY <3>1 DEF UrlsOf, Current
  <2>2. ASSUME NEW u \in Mapped' PROVE u \in UrlsOf(new)
    <3>1. <<types'[u], u>> \in new /\ <<types'[u], u>>[2] = u
      BY <1>7
    <3> QED
      BY <3>1 DEF UrlsOf
  <2> QED
    BY <2>1, <2>2, <1>8
<1>11. new = ToSet(file')
  BY DEF new
<1> QED
  BY <1>6, <1>9, <1>10, <1>11 DEF InSync, UrlsOf

------------------------------------------------------------------------------
(* A fresh map that was given a file agrees with it.                       *)
LEMMA InitiateFollows ==
  ASSUME MulticastAssumption, TasksOK, file \in Configs,
         Register({}, file), file' = file, dying' = dying
  PROVE  TasksOK' /\ InSync'
<1>1. file \in Seq(Types \X Urls)
  BY MulticastAssumption DEF MulticastAssumption
<1>2. dying' \in [Urls -> Nat]
  BY DEF TasksOK
<1>3. /\ TasksOK'
      /\ Mapped' = UrlsOf(ToSet(file))
      /\ \A u \in UrlsOf(ToSet(file)) : <<types'[u], u>> \in ToSet(file)
  <2>1. {} \in SUBSET Mapped
    OBVIOUS
  <2>2. /\ TasksOK'
        /\ Mapped' = {} \cup UrlsOf(ToSet(file))
        /\ \A u \in UrlsOf(ToSet(file)) : <<types'[u], u>> \in ToSet(file)
    BY <1>1, <1>2, <2>1, RegisterMap
  <2> QED
    BY <2>2
<1>4. Current' \subseteq ToSet(file)
  BY <1>3 DEF Current
<1>5. UrlsOf(Current)' = Mapped'
  <2>1. \A u \in Mapped' : <<types'[u], u>>[2] = u
    OBVIOUS
  <2> QED
    BY <2>1 DEF UrlsOf, Current
<1> QED
  BY <1>3, <1>4, <1>5 DEF InSync, UrlsOf

(* The inductive invariant holds at the start.                             *)
LEMMA InvInit == Init => IInv
<1> SUFFICES ASSUME Init PROVE IInv
  OBVIOUS
<1>1. FileOK
  <2>1. edits \in 0..MaxEdits /\ unread \in 0..edits
    BY MulticastAssumption DEF Init, MulticastAssumption
  <2> QED
    BY <2>1 DEF Init, FileOK
<1>2. TasksOK
  BY DEF Init, TasksOK
<1>3. pc = "initiate" /\ queue \in Seq(Urls)
  BY DEF Init
<1>4. StartsEmpty
  BY DEF Init, StartsEmpty, Mapped
<1> QED
  BY <1>1, <1>2, <1>3, <1>4 DEF IInv, TypeOK, Tracked

(* A step that leaves the map and the file alone keeps them in agreement.  *)
LEMMA SameSync ==
  ASSUME UNCHANGED <<file, types>>
  PROVE  InSync' <=> InSync
  BY DEF InSync, Current, Mapped, UrlsOf

(* Every step keeps the inductive invariant.                               *)
LEMMA InvStep == IInv /\ [Next]_vars => IInv'
<1> SUFFICES ASSUME IInv, [Next]_vars PROVE IInv'
  OBVIOUS
<1> USE MulticastAssumption
<1>1. CASE Initiate
  <2>1. CASE file = Broken
    BY <1>1, <2>1 DEF Initiate, IInv, TypeOK, FileOK, TasksOK, StartsEmpty,
       Tracked, Mapped, fileVars, tasks
  <2>2. CASE file # Broken
    <3>1. TasksOK' /\ InSync'
      BY <1>1, <2>2, InitiateFollows
         DEF Initiate, IInv, TypeOK, FileOK, fileVars
    <3> QED
      BY <1>1, <2>2, <3>1
         DEF Initiate, IInv, TypeOK, FileOK, StartsEmpty, Tracked, fileVars
  <2> QED
    BY <2>1, <2>2
<1>2. CASE Watch
  <2>1. InSync' <=> InSync
    BY <1>2, SameSync DEF Watch, fileVars, tasks
  <2> QED
    BY <1>2, <2>1 DEF Watch, IInv, TypeOK, FileOK, TasksOK, StartsEmpty,
       Tracked, Mapped, fileVars, tasks
<1>3. CASE Multicast
  <2>1. InSync' <=> InSync
    BY <1>3, SameSync DEF Multicast, fileVars, tasks
  <2>2. queue' \in Seq(Urls) /\ pc' \in {"serve", "stopped"}
    BY <1>3 DEF Multicast, IInv, TypeOK
  <2>3. FileOK' /\ TasksOK'
    BY <1>3 DEF Multicast, IInv, TypeOK, FileOK, TasksOK, Mapped, fileVars, tasks
  <2> QED
    BY <1>3, <2>1, <2>2, <2>3
       DEF Multicast, IInv, TypeOK, StartsEmpty, Tracked, Mapped, fileVars, tasks
<1>4. CASE HandleEvent
  <2>1. CASE file = Broken
    BY <1>4, <2>1 DEF HandleEvent, IInv, TypeOK, FileOK, TasksOK, StartsEmpty,
       Tracked, Mapped, tasks
  <2>2. CASE file # Broken
    <3>1. TasksOK' /\ InSync'
      BY <1>4, <2>2, UpdateFollows DEF HandleEvent, IInv, TypeOK, FileOK
    <3> QED
      BY <1>4, <2>2, <3>1
         DEF HandleEvent, IInv, TypeOK, FileOK, StartsEmpty, Tracked
  <2> QED
    BY <2>1, <2>2
<1>5. ASSUME NEW u \in Urls, Receive(u) PROVE IInv'
  <2>1. InSync' <=> InSync
    BY <1>5, SameSync DEF Receive, fileVars, tasks
  <2> QED
    BY <1>5, <2>1 DEF Receive, IInv, TypeOK, FileOK, TasksOK, StartsEmpty,
       Tracked, Mapped, fileVars, tasks
<1>6. ASSUME NEW u \in Urls, StreamEnd(u) PROVE IInv'
  <2>1. InSync' <=> InSync
    BY <1>6, SameSync DEF StreamEnd, fileVars
  <2>2. TasksOK'
    <3>1. CASE u \in owned /\ owned' = owned \ {u} /\ UNCHANGED loose
      BY <1>6, <3>1 DEF StreamEnd, IInv, TypeOK, TasksOK, Mapped
    <3>2. CASE loose[u] > 0 /\ loose' = [loose EXCEPT ![u] = @ - 1] /\ UNCHANGED owned
      <4>1. loose[u] \in Nat
        BY DEF IInv, TypeOK, TasksOK
      <4>2. loose[u] - 1 \in Nat
        BY <3>2, <4>1
      <4>3. loose' \in [Urls -> Nat]
        BY <3>2, <4>2 DEF IInv, TypeOK, TasksOK
      <4> QED
        BY <1>6, <3>2, <4>3 DEF StreamEnd, IInv, TypeOK, TasksOK, Mapped
    <3> QED
      BY <1>6, <3>1, <3>2 DEF StreamEnd
  <2> QED
    BY <1>6, <2>1, <2>2 DEF StreamEnd, IInv, TypeOK, FileOK, StartsEmpty,
       Tracked, Mapped, fileVars
<1>7. ASSUME NEW u \in Urls, Aborted(u) PROVE IInv'
  <2>1. InSync' <=> InSync
    BY <1>7, SameSync DEF Aborted, fileVars
  <2>2. TasksOK'
    BY <1>7 DEF Aborted, IInv, TypeOK, TasksOK, Mapped
  <2> QED
    BY <1>7, <2>1, <2>2 DEF Aborted, IInv, TypeOK, FileOK, StartsEmpty,
       Tracked, Mapped, fileVars
<1>8. CASE Edit
  <2>1. FileOK'
    BY <1>8 DEF Edit, IInv, TypeOK, FileOK, MulticastAssumption
  <2>2. Tracked'
    <3>1. pc = "serve" => unread' # 0
      BY <1>8 DEF Edit, IInv, TypeOK, FileOK, MulticastAssumption
    <3>2. pc = "watch" => stale'
      BY <1>8 DEF Edit
    <3> QED
      BY <1>8, <3>1, <3>2 DEF Edit, Tracked
  <2> QED
    BY <1>8, <2>1, <2>2 DEF Edit, IInv, TypeOK, TasksOK, StartsEmpty, Mapped,
       tasks
<1>9. CASE UNCHANGED vars
  <2>1. InSync' <=> InSync
    BY <1>9, SameSync DEF vars, fileVars, tasks
  <2> QED
    BY <1>9, <2>1 DEF vars, IInv, TypeOK, FileOK, TasksOK, StartsEmpty,
       Tracked, Mapped, fileVars, tasks
<1> QED
  BY <1>1, <1>2, <1>3, <1>4, <1>5, <1>6, <1>7, <1>8, <1>9 DEF Next

(* IInv is an invariant for every set of urls and types, every content the
   file may get and every number of edits.                                 *)
THEOREM Inductive == Spec => []IInv
  BY InvInit, InvStep, PTL DEF Spec

(* The types; ipcs_map owns tasks of its own keys only.                    *)
THEOREM TypeCorrect == Spec => []TypeOK
<1>1. IInv => TypeOK
  BY DEF IInv
<1> QED
  BY <1>1, Inductive, PTL

(* Once all events are handled the map agrees with the file, however edits,
   events and their handlers were interleaved, entries with the same url
   included.                                                               *)
THEOREM FileIsFollowed == Spec => []FollowsFile
<1>1. IInv => FollowsFile
  BY DEF IInv, Tracked, FollowsFile
<1> QED
  BY <1>1, Inductive, PTL

------------------------------------------------------------------------------
(* An entry that is alone for its url is counted once.                     *)
LEMMA OccursOnce ==
  ASSUME NEW ipcs \in Seq(Types \X Urls), NEW u, Occurs(u, ipcs) # {},
         \A i, j \in Occurs(u, ipcs) : i = j
  PROVE  Cardinality(Occurs(u, ipcs)) = 1
<1>1. PICK i : Occurs(u, ipcs) = {i}
  OBVIOUS
<1> QED
  BY <1>1, FS_Singleton

(* A url the file does not name twice has one entry there at most.         *)
LEMMA EntryOfUrl ==
  ASSUME NEW u, \A i, j \in Occurs(u, file) : i = j,
         NEW a \in ToSet(file), NEW b \in ToSet(file), a[2] = u, b[2] = u
  PROVE  a = b
<1>1. PICK i \in DOMAIN file, j \in DOMAIN file : a = file[i] /\ b = file[j]
  BY DEF ToSet
<1> QED
  BY <1>1 DEF Occurs

(* register() of a url that is new and named once detaches no task of it.  *)
LEMMA RegisterOnce ==
  ASSUME TasksOK, NEW u \in Urls,
         NEW ipcs \in Seq(Types \X Urls), NEW kept, Register(kept, ipcs),
         \A i, j \in Occurs(u, ipcs) : i = j,
         u \in kept => Occurs(u, ipcs) = {}
  PROVE  loose'[u] = loose[u]
<1>1. CASE Occurs(u, ipcs) = {}
  BY <1>1 DEF Register
<1>2. CASE Occurs(u, ipcs) # {}
  <2>1. Cardinality(Occurs(u, ipcs)) = 1
    BY <1>2, OccursOnce
  <2>2. u \notin owned \cap kept
    BY <1>2
  <2>3. loose'[u] = loose[u] + (1 - 1) + 0
    BY <1>2, <2>1, <2>2 DEF Register
  <2>4. loose[u] \in Nat
    BY DEF TasksOK
  <2> QED
    BY <2>3, <2>4
<1> QED
  BY <1>1, <1>2

(* An event detaches no task of such a url: what is added was not in the map. *)
LEMMA UpdateOnce ==
  ASSUME MulticastAssumption, TasksOK, file \in Configs, Update,
         NEW u \in Urls, \A i, j \in Occurs(u, file) : i = j
  PROVE  loose'[u] = loose[u]
<1> DEFINE new     == ToSet(file)
           removed == Current \ new
           added   == new \ Current
           kept    == Mapped \ UrlsOf(removed)
<1>1. file \in Seq(Types \X Urls)
  BY MulticastAssumption DEF MulticastAssumption
<1>2. IsFiniteSet(added) /\ added \in SUBSET (Types \X Urls)
  BY <1>1, FileFinite, FS_Subset
<1>3. PICK ipcs \in SetToSeqs(added) : Register(kept, ipcs)
  BY DEF Update
<1>4. /\ ipcs \in Seq(Types \X Urls) /\ ToSet(ipcs) = added
      /\ \A i, j \in DOMAIN ipcs : i # j => ipcs[i] # ipcs[j]
  BY <1>2, OrderOfAll
<1> HIDE DEF removed, added, kept
<1>5. \A i \in DOMAIN ipcs : ipcs[i] \in added /\ ipcs[i] \in ToSet(file)
  BY <1>4 DEF ToSet, added
<1>6. ASSUME NEW i \in Occurs(u, ipcs), NEW j \in Occurs(u, ipcs)
      PROVE  i = j
  <2>1. /\ i \in DOMAIN ipcs /\ ipcs[i][2] = u
        /\ j \in DOMAIN ipcs /\ ipcs[j][2] = u
    BY DEF Occurs
  <2>2. ipcs[i] = ipcs[j]
    BY <2>1, <1>5, EntryOfUrl
  <2> QED
    BY <2>1, <2>2, <1>4
<1>7. ASSUME u \in kept PROVE Occurs(u, ipcs) = {}
  <2> SUFFICES ASSUME NEW i \in Occurs(u, ipcs) PROVE FALSE
    OBVIOUS
  <2>1. i \in DOMAIN ipcs /\ ipcs[i][2] = u
    BY DEF Occurs
  <2>2. u \in Mapped /\ <<types[u], u>> \in Current /\ <<types[u], u>>[2] = u
    BY <1>7, CurrentEntries DEF kept
  <2>3. <<types[u], u>> \in ToSet(file)
    BY <1>7, <2>2 DEF kept, removed, UrlsOf
  <2>4. ipcs[i] = <<types[u], u>>
    BY <2>1, <2>2, <2>3, <1>5, EntryOfUrl
  <2> QED
    BY <2>1, <2>2, <2>4, <1>5 DEF added
<1> QED
  BY <1>3, <1>4, <1>6, <1>7, RegisterOnce

(* Every step detaches tasks only of urls the file names twice.            *)
LEMMA LostStep == IInv /\ [Next]_vars => [LostNow]_vars
<1> USE MulticastAssumption
<1> SUFFICES ASSUME IInv, [Next]_vars, NEW u \in Urls, ~NamedTwice(u)
             PROVE  ~(loose'[u] > loose[u])
  BY DEF LostNow
<1>1. TasksOK /\ loose[u] \in Nat
  BY DEF IInv, TypeOK, TasksOK
<1>2. CASE Initiate /\ file # Broken
  <2>1. file \in Configs /\ Register({}, file)
    BY <1>2 DEF Initiate, IInv, TypeOK, FileOK
  <2>2. file \in Seq(Types \X Urls)
    BY <2>1 DEF MulticastAssumption
  <2>3. loose'[u] = loose[u]
    BY <1>1, <1>2, <2>1, <2>2, RegisterOnce DEF NamedTwice
  <2> QED
    BY <1>1, <2>3
<1>3. CASE HandleEvent /\ file # Broken
  <2>1. loose'[u] = loose[u]
    BY <1>1, <1>3, UpdateOnce DEF HandleEvent, IInv, TypeOK, FileOK, NamedTwice
  <2> QED
    BY <1>1, <2>1
<1>4. ASSUME NEW v \in Urls, StreamEnd(v) PROVE ~(loose'[u] > loose[u])
  <2>1. CASE UNCHANGED loose
    BY <1>1, <2>1
  <2>2. CASE loose' = [loose EXCEPT ![v] = @ - 1]
    <3>1. loose'[u] = loose[u] \/ loose'[u] = loose[u] - 1
      BY <2>2 DEF IInv, TypeOK, TasksOK
    <3> QED
      BY <1>1, <3>1
  <2> QED
    BY <1>4, <2>1, <2>2 DEF StreamEnd
<1>5. CASE UNCHANGED loose
  BY <1>1, <1>5
<1> QED
  BY <1>2, <1>3, <1>4, <1>5 DEF Next, Initiate, Watch, Multicast, HandleEvent,
     Receive, Aborted, Edit, vars, tasks

(* A running task loses its handle only to a file that names its url twice. *)
THEOREM HandlesAreNotLost == Spec => HandlesAreKept
  BY Inductive, LostStep, PTL DEF Spec, HandlesAreKept

(* The event of an unchanged entry.                                        *)
LEMMA SparedStep == IInv /\ [Next]_vars => [SparedNow]_vars
<1> USE MulticastAssumption
<1> SUFFICES ASSUME IInv, [Next]_vars, unread' < unread,
                    NEW u \in Mapped, types'[u] = types[u]
             PROVE  (u \in owned' <=> u \in owned) /\ loose'[u] = loose[u]
                    /\ dying'[u] = dying[u]
  BY DEF SparedNow
<1>1. unread \in Nat /\ TasksOK
  BY DEF IInv, TypeOK, FileOK, MulticastAssumption
<1>2. HandleEvent
  <2>1. unread' # unread /\ unread' # unread + 1
    BY <1>1
  <2> QED
    BY <2>1 DEF Next, Initiate, Watch, Multicast, Receive, StreamEnd, Aborted,
       Edit, vars, fileVars
<1>3. CASE file = Broken
  BY <1>2, <1>3 DEF HandleEvent, tasks
<1>4. CASE file # Broken
  <2> DEFINE removed == Current \ ToSet(file)
             added   == ToSet(file) \ Current
             kept    == Mapped \ UrlsOf(removed)
  <2>1. file \in Configs /\ file \in Seq(Types \X Urls)
    BY <1>4 DEF IInv, TypeOK, FileOK, MulticastAssumption
  <2>2. IsFiniteSet(added) /\ added \in SUBSET (Types \X Urls)
    BY <2>1, FileFinite, FS_Subset
  <2>3. PICK ipcs \in SetToSeqs(added) : Register(kept, ipcs)
    BY <1>2, <1>4 DEF HandleEvent, Update
  <2>4. ipcs \in Seq(Types \X Urls) /\ ToSet(ipcs) = added
    BY <2>2, OrderOfAll
  <2>5. Cleanup(UrlsOf(removed))
    BY <1>2, <1>4 DEF HandleEvent, Update
  <2> HIDE DEF removed, added, kept
  <2>6. <<types[u], u>> \in Current
    BY <1>1, CurrentEntries
  <2>7. dying' \in [Urls -> Nat]
    BY <1>1, <2>5 DEF Cleanup, TasksOK
  <2>8. u \in Urls /\ types[u] # NoType
    BY DEF Mapped
  <2>9. /\ Mapped' = kept \cup UrlsOf(added)
        /\ \A v \in UrlsOf(added) : <<types'[v], v>> \in added
    BY <1>1, <2>3, <2>4, <2>7, RegisterMap DEF kept
  <2>10. u \notin UrlsOf(added)
    BY <2>6, <2>9 DEF added
  <2>11. u \in kept
    BY <2>8, <2>9, <2>10 DEF Mapped
  <2>12. Occurs(u, ipcs) = {}
    <3> SUFFICES ASSUME NEW i \in Occurs(u, ipcs) PROVE FALSE
      OBVIOUS
    <3>1. ipcs[i] \in added /\ ipcs[i][2] = u
      BY <2>4, EntryParts DEF Occurs
    <3> QED
      BY <3>1, <2>10 DEF UrlsOf
  <2>13. u \in owned' <=> u \in owned
    BY <2>3, <2>8, <2>11, <2>12 DEF Register
  <2>14. loose'[u] = loose[u]
    BY <2>3, <2>8, <2>12 DEF Register
  <2>15. dying'[u] = dying[u]
    BY <2>5, <2>8, <2>11 DEF Cleanup, kept
  <2> QED
    BY <2>13, <2>14, <2>15
<1> QED
  BY <1>3, <1>4

(* An event leaves the tasks of unchanged entries alone.                   *)
THEOREM UnchangedAreSpared == Spec => UpdateSparesUnchanged
  BY Inductive, SparedStep, PTL DEF Spec, UpdateSparesUnchanged

------------------------------------------------------------------------------
(* What ConfigFollower sees: the map that agrees with the file has the urls
   of the file as its keys.                                                *)
LEMMA SyncMapped == TasksOK /\ InSync => Mapped = UrlsOf(ToSet(file))
<1> SUFFICES ASSUME TasksOK, InSync PROVE Mapped = UrlsOf(ToSet(file))
  OBVIOUS
<1>1. \A u \in Mapped : <<types[u], u>> \in Current /\ <<types[u], u>>[2] = u
  BY CurrentEntries
<1>2. \A ipc \in Current : ipc[2] \in Mapped
  BY CurrentEntries
<1>3. UrlsOf(Current) = Mapped
  BY <1>1, <1>2 DEF UrlsOf
<1> QED
  BY <1>3 DEF InSync

(* A content of the file is one of ConfigFollower.                         *)
LEMMA ContentUrls ==
  ASSUME MulticastAssumption, NEW ipcs \in Configs
  PROVE  UrlsOf(ToSet(ipcs)) \in SUBSET Urls /\ UrlsOf(ToSet(ipcs)) # Broken
<1>1. ipcs \in Seq(Types \X Urls)
  BY DEF MulticastAssumption
<1>2. \A ipc \in ToSet(ipcs) : ipc[2] \in Urls
  BY <1>1, EntryParts DEF ToSet
<1>3. UrlsOf(ToSet(ipcs)) \in SUBSET Urls
  BY <1>2 DEF UrlsOf
<1> QED
  BY <1>3 DEF MulticastAssumption

(* Initial states of the server are initial states of ConfigFollower.      *)
LEMMA FollowerInit == Init => Follower!Init
<1> SUFFICES ASSUME Init PROVE Follower!Init
  OBVIOUS
<1>1. Mapped = {}
  BY DEF Init, Mapped
<1>2. (IF file = Broken THEN Broken ELSE UrlsOf(ToSet(file))) \in Follower!Contents
  BY MulticastAssumption, ContentUrls DEF Init, Follower!Contents
<1> QED
  BY <1>1, <1>2 DEF Init, Follower!Init

(* Every step of the server is one of ConfigFollower, or a stutter.        *)
LEMMA FollowerStep == IInv /\ IInv' /\ [Next]_vars => [Follower!Next]_(Follower!vars)
<1> SUFFICES ASSUME IInv, IInv', [Next]_vars PROVE [Follower!Next]_(Follower!vars)
  OBVIOUS
<1> USE MulticastAssumption DEF Follower!vars
<1>1. UNCHANGED types => UNCHANGED Mapped
  BY DEF Mapped
<1>2. UNCHANGED file => UNCHANGED UrlsOf(ToSet(file))
  BY DEF UrlsOf, ToSet
<1>3. file # Broken => file \in Configs /\ UrlsOf(ToSet(file)) # Broken
  BY ContentUrls DEF IInv, TypeOK, FileOK
<1>4. CASE Initiate
  <2>1. CASE file = Broken
    BY <1>1, <1>2, <1>4, <2>1
       DEF Initiate, Follower!Next, Follower!Start, Follower!Adopt, fileVars, tasks
  <2>2. CASE file # Broken
    <3>1. TasksOK' /\ InSync'
      BY <1>4, <2>2, InitiateFollows
         DEF Initiate, IInv, TypeOK, FileOK, fileVars
    <3>2. (Mapped = UrlsOf(ToSet(file)))'
      BY <3>1, SyncMapped, PTL
    <3> QED
      BY <1>2, <1>3, <1>4, <2>2, <3>2
         DEF Initiate, Follower!Next, Follower!Start, Follower!Adopt, fileVars
  <2> QED
    BY <2>1, <2>2
<1>5. CASE Watch
  BY <1>1, <1>2, <1>5
     DEF Watch, Follower!Next, Follower!Listen, fileVars, tasks
<1>6. CASE Multicast
  BY <1>1, <1>2, <1>6
     DEF Multicast, Follower!Next, Follower!GoDown, fileVars, tasks
<1>7. CASE HandleEvent
  <2>1. unread > 0 /\ (unread' > 0) \in BOOLEAN
    BY <1>7 DEF HandleEvent
  <2>2. CASE file = Broken
    BY <1>1, <1>2, <1>7, <2>1, <2>2
       DEF HandleEvent, Follower!Next, Follower!Follow, Follower!Adopt, tasks
  <2>3. CASE file # Broken
    <3>1. TasksOK' /\ InSync'
      BY <1>7, <2>3, UpdateFollows DEF HandleEvent, IInv, TypeOK, FileOK
    <3>2. (Mapped = UrlsOf(ToSet(file)))'
      BY <3>1, SyncMapped, PTL
    <3> QED
      BY <1>2, <1>3, <1>7, <2>1, <2>3, <3>2
         DEF HandleEvent, Follower!Next, Follower!Follow, Follower!Adopt
  <2> QED
    BY <2>2, <2>3
<1>8. ASSUME NEW u \in Urls, Receive(u) \/ StreamEnd(u) \/ Aborted(u)
      PROVE  UNCHANGED Follower!vars
  BY <1>1, <1>2, <1>8 DEF Receive, StreamEnd, Aborted, fileVars, tasks
<1>9. CASE Edit
  <2>1. (unread' > 0) <=> (unread > 0 \/ pc = "serve")
    BY <1>9 DEF Edit, IInv, TypeOK, FileOK, MulticastAssumption
  <2>2. (IF file' = Broken THEN Broken ELSE UrlsOf(ToSet(file))') \in Follower!Contents
    <3>1. CASE file' = Broken
      BY <3>1 DEF Follower!Contents
    <3>2. CASE file' # Broken
      <4>1. file' \in Configs
        BY <1>9, <3>2 DEF Edit
      <4>2. UrlsOf(ToSet(file')) \in SUBSET Urls
        BY <4>1, ContentUrls
      <4> QED
        BY <3>2, <4>2 DEF Follower!Contents, UrlsOf, ToSet
    <3> QED
      BY <3>1, <3>2
  <2> QED
    BY <1>1, <1>9, <2>1, <2>2
       DEF Edit, IInv, TypeOK, Follower!Next, Follower!Write, tasks
<1>10. CASE UNCHANGED vars
  BY <1>1, <1>2, <1>10 DEF vars, fileVars, tasks
<1> QED
  BY <1>4, <1>5, <1>6, <1>7, <1>8, <1>9, <1>10 DEF Next

(* The handler of crypto-market-multicast implements ConfigFollower.       *)
THEOREM FollowerImplemented == Spec => ImplementsFollower
  BY FollowerInit, FollowerStep, Inductive, PTL DEF Spec, ImplementsFollower, Follower!Spec

------------------------------------------------------------------------------
(* The client *)

USE DEF Zero

(* One more element leaves the others where they are.                      *)
LEMMA Appended ==
  ASSUME NEW S, NEW s \in Seq(S), NEW e \in S
  PROVE  /\ Append(s, e) \in Seq(S)
         /\ Append(s, e) # <<>>
         /\ Len(Append(s, e)) = Len(s) + 1
         /\ DOMAIN Append(s, e) = 1..(Len(s) + 1)
         /\ DOMAIN s = 1..Len(s)
         /\ Len(s) \in Nat
         /\ Append(s, e)[Len(s) + 1] = e
         /\ \A i \in 1..Len(s) : Append(s, e)[i] = s[i]
  OBVIOUS

(* What the program has and what is in the channel, together.              *)
LEMMA Together ==
  ASSUME NEW S, NEW s \in Seq(S), NEW t \in Seq(S)
  PROVE  /\ s \o t \in Seq(S)
         /\ Len(s \o t) = Len(s) + Len(t)
         /\ Len(s) \in Nat /\ Len(t) \in Nat
         /\ \A i \in 1..Len(s) : (s \o t)[i] = s[i]
         /\ \A i \in 1..Len(t) : (s \o t)[Len(s) + i] = t[i]
         /\ \A e \in S : s \o Append(t, e) = Append(s \o t, e)
         /\ t # <<>> => Append(s, Head(t)) \o Tail(t) = s \o t
<1>1. \A e \in S : s \o Append(t, e) = Append(s \o t, e)
  OBVIOUS
<1>2. ASSUME t # <<>> PROVE Append(s, Head(t)) \o Tail(t) = s \o t
  <2>1. Head(t) \in S /\ Tail(t) \in Seq(S) /\ t = <<Head(t)>> \o Tail(t)
    BY <1>2, HeadTailProperties
  <2>2. Append(s, Head(t)) = s \o <<Head(t)>>
    BY <2>1
  <2>3. (s \o <<Head(t)>>) \o Tail(t) = s \o (<<Head(t)>> \o Tail(t))
    BY <2>1, ConcatAssociative
  <2> QED
    BY <2>1, <2>2, <2>3
<1>3. /\ s \o t \in Seq(S)
      /\ Len(s \o t) = Len(s) + Len(t)
      /\ Len(s) \in Nat /\ Len(t) \in Nat
  OBVIOUS
<1>4. \A i \in 1..Len(s) : (s \o t)[i] = s[i]
  OBVIOUS
<1>5. \A i \in 1..Len(t) : (s \o t)[Len(s) + i] = t[i]
  OBVIOUS
<1> QED
  BY <1>1, <1>2, <1>3, <1>4, <1>5

(* The task's message has the type of one.                                 *)
LEMMA MessageType ==
  ASSUME ClientTypeOK
  PROVE  Message \in Seq(Data)
<1> USE ClientAssumption DEF ClientAssumption
<1>1. size \in Nat /\ size <= BufLen
  BY DEF ClientTypeOK
<1>2. \A c \in 1..size : c \in 1..BufLen
  BY <1>1
<1>3. Message \in [1..size -> Data]
  BY <1>2 DEF Message, ClientTypeOK
<1> QED
  BY <1>1, <1>3, SeqDef

(* Initial states satisfy the invariant.                                   *)
LEMMA ClientInvInit == ClientInit => ClientIInv
<1> SUFFICES ASSUME ClientInit PROVE ClientIInv
  OBVIOUS
<1> USE ClientAssumption DEF ClientAssumption, ClientInit
<1>1. ClientTypeOK
  BY DEF ClientTypeOK, Data
<1>2. Held
  BY DEF Held
<1>3. MessagesAreDatagrams
  <2>1. got \o chan = <<>>
    OBVIOUS
  <2> QED
    BY <2>1 DEF MessagesAreDatagrams, Passed
<1> QED
  BY <1>1, <1>2, <1>3 DEF ClientIInv

(* A further datagram: those there were keep their places.                 *)
LEMMA SendKeeps == ClientIInv /\ SendTo => ClientIInv'
<1> SUFFICES ASSUME ClientIInv, SendTo PROVE ClientIInv'
  OBVIOUS
<1> USE ClientAssumption DEF ClientAssumption
<1>0. PICK n \in 0..MaxLen : \E data \in [1..n -> Cells] : sent' = Append(sent, data)
  BY DEF SendTo
<1>1. PICK data \in [1..n -> Cells] : sent' = Append(sent, data)
  BY <1>0
<1>2. data \in Seq(Cells)
  <2>1. n \in Nat
    OBVIOUS
  <2> QED
    BY <2>1, SeqDef
<1>3. sent \in Seq(Seq(Cells)) /\ net \subseteq DOMAIN sent
  BY DEF ClientIInv, ClientTypeOK
<1>4. PICK s : s = Append(sent, data)
  OBVIOUS
<1>5. /\ s \in Seq(Seq(Cells))
      /\ DOMAIN s = 1..(Len(sent) + 1) /\ DOMAIN sent = 1..Len(sent) /\ Len(sent) \in Nat
      /\ \A i \in 1..Len(sent) : s[i] = sent[i]
  BY <1>2, <1>3, <1>4, Appended
<1>6. sent' = s /\ UNCHANGED <<buffer, size, reader, chan, got, arrived, program>>
  BY <1>1, <1>4 DEF SendTo
<1>7. net' \subseteq DOMAIN s
  BY <1>3, <1>5 DEF SendTo
<1>8. \A k \in DOMAIN arrived : arrived[k] \in DOMAIN s /\ s[arrived[k]] = sent[arrived[k]]
  BY <1>5 DEF ClientIInv, ClientTypeOK
<1>9. ClientTypeOK'
  BY <1>5, <1>6, <1>7, <1>8 DEF ClientIInv, ClientTypeOK
<1>10. arrived \in Seq(Nat) /\ Len(arrived) \in Nat /\ DOMAIN arrived = 1..Len(arrived)
  BY DEF ClientIInv, ClientTypeOK
<1>11. Held'
  BY <1>6, <1>8, <1>10 DEF ClientIInv, Held, Message, Cut
<1>12. Passed' = Passed /\ Passed <= Len(arrived)
  BY <1>6, <1>10 DEF Passed
<1>13. MessagesAreDatagrams'
  <2>1. PICK all : all = got \o chan
    OBVIOUS
  <2>2. (got \o chan)' = all
    BY <2>1, <1>6
  <2>3. Len(all) \in Nat
    BY <2>1, Together DEF ClientIInv, ClientTypeOK
  <2>4. \A k \in 1..Len(all) : k \in DOMAIN arrived
    BY <2>1, <2>3, <1>10, <1>12 DEF ClientIInv, MessagesAreDatagrams, Passed
  <2> QED
    BY <2>1, <2>2, <2>4, <1>6, <1>8, <1>12 DEF ClientIInv, MessagesAreDatagrams, Cut
<1> QED
  BY <1>9, <1>11, <1>13 DEF ClientIInv

(* A datagram is received: the message to come is what is left of it.      *)
LEMMA RecvKeeps == ClientIInv /\ RecvFrom => ClientIInv'
<1> SUFFICES ASSUME ClientIInv, RecvFrom PROVE ClientIInv'
  OBVIOUS
<1> USE ClientAssumption DEF ClientAssumption
<1>1. PICK i \in net :
        /\ net' \in {net, net \ {i}}
        /\ arrived' = Append(arrived, i)
        /\ size' = Filled(sent[i])
        /\ buffer' = [c \in 1..BufLen |-> IF c <= Len(sent[i]) THEN sent[i][c] ELSE buffer[c]]
  BY DEF RecvFrom
<1>2. /\ reader = "receiving" /\ reader' = "sending"
      /\ UNCHANGED <<sent, chan, got, program>>
  BY DEF RecvFrom
<1>3. i \in DOMAIN sent /\ sent \in Seq(Seq(Cells)) /\ i \in Nat
  BY DEF ClientIInv, ClientTypeOK
<1>4. sent[i] \in Seq(Cells) /\ Len(sent[i]) \in Nat /\ DOMAIN sent[i] = 1..Len(sent[i])
  BY <1>3
<1>5. PICK a : a = Append(arrived, i)
  OBVIOUS
<1>6. /\ a \in Seq(Nat) /\ a # <<>> /\ Len(a) = Len(arrived) + 1
      /\ DOMAIN a = 1..(Len(arrived) + 1) /\ DOMAIN arrived = 1..Len(arrived)
      /\ Len(arrived) \in Nat
      /\ a[Len(arrived) + 1] = i
      /\ \A k \in 1..Len(arrived) : a[k] = arrived[k]
  <2>1. arrived \in Seq(Nat)
    BY DEF ClientIInv, ClientTypeOK
  <2>2. /\ Append(arrived, i) \in Seq(Nat)
        /\ Append(arrived, i) # <<>>
        /\ Len(Append(arrived, i)) = Len(arrived) + 1
        /\ DOMAIN Append(arrived, i) = 1..(Len(arrived) + 1)
        /\ DOMAIN arrived = 1..Len(arrived)
        /\ Len(arrived) \in Nat
        /\ Append(arrived, i)[Len(arrived) + 1] = i
        /\ \A k \in 1..Len(arrived) : Append(arrived, i)[k] = arrived[k]
    <3>1. i \in Nat
      BY <1>3
    <3> QED
      BY <2>1, <3>1, Appended
  <2> QED
    BY <2>2, <1>5, Zenon
<1>7. arrived' = a
  BY <1>1, <1>5
<1>8. size' \in 0..BufLen /\ size' = Filled(sent[i]) /\ size' <= Len(sent[i])
  BY <1>1, <1>4 DEF Filled
<1>9. buffer' \in [1..BufLen -> Data]
  <2>1. \A c \in 1..BufLen : c <= Len(sent[i]) => sent[i][c] \in Cells
    BY <1>4
  <2> QED
    BY <1>1, <2>1 DEF ClientIInv, ClientTypeOK, Data
<1>10. ClientTypeOK'
  <2>1. \A k \in DOMAIN a : a[k] \in DOMAIN sent
    <3>1. \A k \in 1..Len(arrived) : arrived[k] \in DOMAIN sent
      BY <1>6 DEF ClientIInv, ClientTypeOK
    <3>2. TAKE k \in DOMAIN a
    <3>3. CASE k = Len(arrived) + 1
      BY <3>3, <1>3, <1>6
    <3>4. CASE k # Len(arrived) + 1
      <4>1. k \in 1..Len(arrived)
        BY <3>4, <1>6
      <4> QED
        BY <4>1, <3>1, <1>6
    <3> QED
      BY <3>3, <3>4
  <2>2. net' \subseteq DOMAIN sent
    BY <1>1 DEF ClientIInv, ClientTypeOK
  <2> QED
    BY <2>1, <2>2, <1>2, <1>6, <1>7, <1>8, <1>9 DEF ClientIInv, ClientTypeOK
<1>11. Held'
  <2>1. \A c \in 1..Filled(sent[i]) : buffer'[c] = sent[i][c]
    BY <1>1, <1>4, <1>8
  <2>2. Message' = [c \in 1..Filled(sent[i]) |-> sent[i][c]]
    BY <2>1, <1>8 DEF Message
  <2>3. Message' = Cut(sent[i])
    BY <2>2 DEF Cut, Filled
  <2>4. a[Len(a)] = i
    BY <1>6
  <2> QED
    BY <2>3, <2>4, <1>2, <1>6, <1>7 DEF Held, Cut
<1>12. Passed' = Passed /\ Passed = Len(arrived)
  BY <1>2, <1>6, <1>7 DEF Passed
<1>13. MessagesAreDatagrams'
  <2>1. PICK all : all = got \o chan
    OBVIOUS
  <2>2. (got \o chan)' = all
    BY <2>1, <1>2
  <2>3. Len(all) \in Nat
    BY <2>1, Together DEF ClientIInv, ClientTypeOK
  <2>4. \A k \in 1..Len(all) : a[k] = arrived[k]
    <3>1. Len(all) <= Len(arrived)
      BY <2>1, <1>12 DEF ClientIInv, MessagesAreDatagrams
    <3> QED
      BY <3>1, <2>3, <1>6
  <2>5. \A k \in 1..Len(all) : all[k] = Cut(sent[arrived[k]])
    BY <2>1 DEF ClientIInv, MessagesAreDatagrams
  <2>6. Len(all) <= Passed /\ (program # "left" => Len(all) = Passed)
    BY <2>1 DEF ClientIInv, MessagesAreDatagrams
  <2>7. \A k \in 1..Len(all) : all[k] = Cut(sent[a[k]])
    BY <2>4, <2>5
  <2>8. program' = program /\ sent' = sent
    BY <1>2
  <2>9. Len((got \o chan)') <= Passed' /\ (program' # "left" => Len((got \o chan)') = Passed')
    BY <2>2, <2>6, <2>8, <1>12
  <2>10. \A k \in 1..Len((got \o chan)') : (got \o chan)'[k] = Cut(sent'[arrived'[k]])
    BY <2>2, <2>7, <2>8, <1>7
  <2> QED
    BY <2>9, <2>10, Zenon DEF MessagesAreDatagrams
<1> QED
  BY <1>10, <1>11, <1>13 DEF ClientIInv

(* The message is passed on: it is the next of what the program is given.  *)
LEMMA PassOnKeeps == ClientIInv /\ PassOn => ClientIInv'
<1> SUFFICES ASSUME ClientIInv, PassOn PROVE ClientIInv'
  OBVIOUS
<1>1. /\ reader = "sending"
      /\ UNCHANGED <<sent, net, buffer, size, got, arrived, program>>
  BY DEF PassOn
<1>2. /\ got \in Seq(Seq(Data)) /\ chan \in Seq(Seq(Data)) /\ Message \in Seq(Data)
      /\ Len(arrived) \in Nat
  BY MessageType DEF ClientIInv, ClientTypeOK
<1>3. arrived # <<>> /\ Message = Cut(sent[arrived[Len(arrived)]])
  BY <1>1 DEF ClientIInv, Held
<1>4. CASE program = "running"
  <2>1. chan' = Append(chan, Message) /\ reader' = "receiving"
    BY <1>4 DEF PassOn
  <2>2. PICK all : all = got \o chan
    OBVIOUS
  <2>3. PICK new : new = Append(all, Message)
    OBVIOUS
  <2>4. got \o Append(chan, Message) = new
    BY <1>2, <2>2, <2>3, Together
  <2>5. all \in Seq(Seq(Data))
    BY <1>2, <2>2, Together
  <2>6. /\ Len(new) = Len(all) + 1 /\ Len(all) \in Nat
        /\ new[Len(all) + 1] = Message
        /\ \A k \in 1..Len(all) : new[k] = all[k]
    BY <1>2, <2>3, <2>5, Appended
  <2>7. Len(all) = Len(arrived) - 1 /\ Len(new) = Len(arrived)
    BY <1>1, <1>2, <1>4, <2>2, <2>6 DEF ClientIInv, MessagesAreDatagrams, Passed
  <2>8. \A k \in 1..Len(new) : new[k] = Cut(sent[arrived[k]])
    <3>1. \A k \in 1..Len(all) : all[k] = Cut(sent[arrived[k]])
      BY <2>2 DEF ClientIInv, MessagesAreDatagrams
    <3>2. TAKE k \in 1..Len(new)
    <3>3. CASE k = Len(new)
      BY <3>3, <1>3, <2>6, <2>7
    <3>4. CASE k # Len(new)
      <4>1. k \in 1..Len(all)
        BY <3>4, <2>6
      <4> QED
        BY <4>1, <3>1, <2>6
    <3> QED
      BY <3>3, <3>4
  <2>9. Passed' = Len(arrived) /\ (got \o chan)' = new
    BY <1>1, <2>1, <2>4 DEF Passed
  <2>10. MessagesAreDatagrams'
    BY <2>7, <2>8, <2>9, <1>1, <1>2 DEF MessagesAreDatagrams, Cut
  <2>11. Append(chan, Message) \in Seq(Seq(Data))
    BY <1>2
  <2>12. ClientTypeOK'
    BY <1>1, <2>1, <2>11 DEF ClientIInv, ClientTypeOK
  <2>13. Held'
    BY <2>1 DEF Held
  <2> QED
    BY <2>10, <2>12, <2>13 DEF ClientIInv
<1>5. CASE program # "running"
  <2>1. reader' = "stopped" /\ chan' = chan
    BY <1>5 DEF PassOn
  <2>2. ClientTypeOK'
    BY <1>1, <2>1 DEF ClientIInv, ClientTypeOK
  <2>3. Held'
    BY <1>1, <1>3, <2>1 DEF Held, Message, Cut
  <2>4. MessagesAreDatagrams'
    BY <1>1, <2>1 DEF ClientIInv, MessagesAreDatagrams, Passed, Cut
  <2> QED
    BY <2>2, <2>3, <2>4 DEF ClientIInv
<1> QED
  BY <1>4, <1>5

(* The program takes a message: it has as many as before, with the channel. *)
LEMMA TakeKeeps == ClientIInv /\ Take => ClientIInv'
<1> SUFFICES ASSUME ClientIInv, Take PROVE ClientIInv'
  OBVIOUS
<1>1. /\ chan # <<>>
      /\ chan' = Tail(chan)
      /\ got' = Append(got, Head(chan))
      /\ UNCHANGED <<sent, net, buffer, size, reader, arrived, program>>
  BY DEF Take
<1>2. got \in Seq(Seq(Data)) /\ chan \in Seq(Seq(Data))
  BY DEF ClientIInv, ClientTypeOK
<1>3. (got \o chan)' = got \o chan
  BY <1>1, <1>2, Together
<1>4. chan' \in Seq(Seq(Data)) /\ got' \in Seq(Seq(Data))
  <2>1. Head(chan) \in Seq(Data) /\ Tail(chan) \in Seq(Seq(Data))
    BY <1>1, <1>2, HeadTailProperties
  <2> QED
    BY <1>1, <1>2, <2>1
<1>5. ClientTypeOK'
  BY <1>1, <1>4 DEF ClientIInv, ClientTypeOK
<1>6. Held'
  BY <1>1 DEF ClientIInv, Held, Message, Cut
<1>7. MessagesAreDatagrams'
  <2>1. PICK all : all = got \o chan
    OBVIOUS
  <2>2. (got \o chan)' = all
    BY <2>1, <1>3
  <2>3. /\ Len(all) <= Passed /\ (program # "left" => Len(all) = Passed)
        /\ \A k \in 1..Len(all) : all[k] = Cut(sent[arrived[k]])
    BY <2>1 DEF ClientIInv, MessagesAreDatagrams
  <2>4. Passed' = Passed
    BY <1>1 DEF Passed
  <2> QED
    BY <2>2, <2>3, <2>4, <1>1 DEF MessagesAreDatagrams, Cut
<1> QED
  BY <1>5, <1>6, <1>7 DEF ClientIInv

(* The program leaves: what is in the channel is lost with it.             *)
LEMMA LeaveKeeps == ClientIInv /\ ProgramLeaves => ClientIInv'
<1> SUFFICES ASSUME ClientIInv, ProgramLeaves PROVE ClientIInv'
  OBVIOUS
<1>1. /\ program' = "left" /\ chan' = <<>>
      /\ UNCHANGED <<sent, net, buffer, size, reader, got, arrived>>
  BY DEF ProgramLeaves
<1>2. got \in Seq(Seq(Data)) /\ chan \in Seq(Seq(Data)) /\ Len(arrived) \in Nat
  BY DEF ClientIInv, ClientTypeOK
<1>3. (got \o chan)' = got
  BY <1>1, <1>2
<1>4. PICK all : all = got \o chan
  OBVIOUS
<1>5. /\ Len(got) <= Len(all) /\ Len(got) \in Nat /\ Len(all) \in Nat
      /\ \A k \in 1..Len(got) : got[k] = all[k]
  BY <1>2, <1>4, Together
<1>6. Len(all) <= Passed /\ \A k \in 1..Len(all) : all[k] = Cut(sent[arrived[k]])
  BY <1>4 DEF ClientIInv, MessagesAreDatagrams
<1>7. Passed' = Passed /\ Passed \in Int
  BY <1>1, <1>2 DEF Passed
<1>8. Len(got) <= Passed /\ \A k \in 1..Len(got) : got[k] = Cut(sent[arrived[k]])
  BY <1>5, <1>6, <1>7
<1>9. MessagesAreDatagrams'
  BY <1>1, <1>3, <1>7, <1>8 DEF MessagesAreDatagrams, Cut
<1>10. ClientTypeOK'
  BY <1>1 DEF ClientIInv, ClientTypeOK
<1>11. Held'
  BY <1>1 DEF ClientIInv, Held, Message, Cut
<1> QED
  BY <1>9, <1>10, <1>11 DEF ClientIInv

(* The other steps touch nothing the invariant relates.                    *)
LEMMA OthersKeep ==
  ClientIInv /\ (Lose \/ RecvFails \/ ProgramEnds \/ UNCHANGED clientVars) => ClientIInv'
<1> SUFFICES ASSUME ClientIInv, Lose \/ RecvFails \/ ProgramEnds \/ UNCHANGED clientVars PROVE ClientIInv'
  OBVIOUS
<1>1. /\ UNCHANGED <<sent, buffer, size, chan, got, arrived>>
      /\ net' \subseteq net
      /\ reader' = reader \/ (reader = "receiving" /\ reader' = "panicked")
      /\ program' = program \/ (program = "running" /\ program' = "over")
  BY DEF Lose, RecvFails, ProgramEnds, clientVars
<1>2. ClientTypeOK'
  BY <1>1 DEF ClientIInv, ClientTypeOK
<1>3. Held'
  BY <1>1 DEF ClientIInv, Held, Message, Cut
<1>4. MessagesAreDatagrams'
  BY <1>1 DEF ClientIInv, MessagesAreDatagrams, Passed, Cut
<1> QED
  BY <1>2, <1>3, <1>4 DEF ClientIInv

(* The strengthening holds in every reachable state.                       *)
THEOREM ClientInductive == ClientSpec => []ClientIInv
<1>1. ClientIInv /\ [ClientNext]_clientVars => ClientIInv'
  BY SendKeeps, RecvKeeps, PassOnKeeps, TakeKeeps, LeaveKeeps, OthersKeep DEF ClientNext
<1> QED
  BY ClientInvInit, <1>1, PTL DEF ClientSpec

(* Types; recv_from never says that it filled more than the buffer.        *)
THEOREM ClientTypeCorrect == ClientSpec => []ClientTypeOK
<1>1. ClientIInv => ClientTypeOK
  BY DEF ClientIInv
<1> QED
  BY <1>1, ClientInductive, PTL

(* The buffer the task uses again and again never mixes two datagrams.     *)
THEOREM BufferIsFresh == ClientSpec => []MessagesAreDatagrams
<1>1. ClientIInv => MessagesAreDatagrams
  BY DEF ClientIInv
<1> QED
  BY <1>1, ClientInductive, PTL

==============================================================================
