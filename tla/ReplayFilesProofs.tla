--------------------------- MODULE ReplayFilesProofs ---------------------------
(***************************************************************************)
(* Recorder and ReplayFiles for all bounds and any number of requests: the *)
(* types of both, and that a download is the beginning of one day's file   *)
(* while that file grows.  Facts about sequences first, then the steps of  *)
(* the recorder, then those of the downloads.                              *)
(***************************************************************************)
EXTENDS ReplayFiles, SequenceTheorems, TLAPS

(* What was copied from a file is still its beginning when it has grown.   *)
LEMMA CopyOfGrown ==
  ASSUME NEW s \in Seq(Messages), NEW e \in Messages, NEW n \in 0..Len(s)
  PROVE  SubSeq(Append(s, e), 1, n) = SubSeq(s, 1, n)
<1> DEFINE a == SubSeq(Append(s, e), 1, n)
           b == SubSeq(s, 1, n)
<1>1. Append(s, e) \in Seq(Messages) /\ Len(Append(s, e)) = Len(s) + 1
      /\ \A i \in 1..Len(s) : Append(s, e)[i] = s[i]
  BY AppendProperties
<1>2. \A i \in 1..n : s[i] \in Messages /\ Append(s, e)[i] = s[i]
  BY <1>1, ElementOfSeq
<1>3. /\ a \in Seq(Messages) /\ Len(a) = n
      /\ \A i \in 1..n : a[i] = Append(s, e)[i]
  BY <1>2, SubSeqProperties, Z3
<1>4. /\ b \in Seq(Messages) /\ Len(b) = n
      /\ \A i \in 1..n : b[i] = s[i]
  BY <1>2, SubSeqProperties, Z3
<1> QED
  BY <1>2, <1>3, <1>4, SeqEqual

(* A copy and the next piece.                                              *)
LEMMA CopyExtends ==
  ASSUME NEW s \in Seq(Messages), NEW p \in 0..Len(s), NEW n \in p..Len(s)
  PROVE  SubSeq(s, 1, p) \o SubSeq(s, p + 1, n) = SubSeq(s, 1, n)
<1>1. Len(s) \in Nat
  BY LenProperties
<1>2. 1 \in 1..(Len(s) + 1) /\ p \in (1 - 1)..Len(s)
  BY <1>1
<1> QED
  BY <1>2, ConcatAdjacentSubSeq

(* A copy is a prefix.                                                     *)
LEMMA CopyIsPrefix ==
  ASSUME NEW s \in Seq(Messages), NEW n \in 0..Len(s)
  PROVE  IsPrefix(SubSeq(s, 1, n), s) /\ Len(SubSeq(s, 1, n)) = n
<1> DEFINE c == SubSeq(s, 1, n)
<1>1. \A i \in 1..n : s[i] \in Messages
  BY ElementOfSeq
<1>2. c \in Seq(Messages) /\ Len(c) = n
  BY <1>1, SubSeqProperties, Z3
<1>3. SubSeq(c, 1, Len(c)) = c
  BY <1>2, SubSeqFull
<1> QED
  BY <1>2, <1>3 DEF IsPrefix

------------------------------------------------------------------------------
(* The recorder *)

RecIInv == RecTypeOK /\ Sizes

LEMMA RecInitial == RecInit => RecIInv
  BY RecorderAssumption, EmptySeq DEF RecInit, RecIInv, RecTypeOK, Sizes

(* Every step of the recorder and around it keeps the types and the sizes. *)
LEMMA RecStep == RecIInv /\ RecNext => RecIInv'
<1> SUFFICES ASSUME RecIInv, RecNext PROVE RecIInv'
  OBVIOUS
<1> USE RecorderAssumption DEF RecIInv, RecTypeOK, Sizes, outside
<1>1. CASE StartWriter
  BY <1>1 DEF StartWriter
<1>2. CASE Subscribe
  BY <1>2 DEF Subscribe
<1>3. CASE SocketPanics
  BY <1>3 DEF SocketPanics
<1>4. CASE Read
  <2>1. Head(inbox) \in Messages /\ Tail(inbox) \in Seq(Messages)
        /\ Len(Tail(inbox)) = Len(inbox) - 1
    BY <1>4, HeadTailProperties DEF Read
  <2>2. Append(queue, Head(inbox)) \in Seq(Messages)
        /\ Len(Append(queue, Head(inbox))) = Len(queue) + 1
    BY <2>1, AppendProperties
  <2>3. queue' \in Seq(Messages) /\ Len(queue') <= Len(queue) + 1 /\ Len(queue') \in Nat
    <3>1. queue' = Append(queue, Head(inbox)) \/ queue' = queue
      BY <1>4 DEF Read
    <3>2. Len(queue) \in Nat
      BY LenProperties
    <3>3. CASE queue' = Append(queue, Head(inbox))
      BY ONLY <2>2, <3>2, <3>3
    <3>4. CASE queue' = queue
      BY ONLY <3>2, <3>4, RecTypeOK DEF RecTypeOK
    <3> QED
      BY <3>1, <3>3, <3>4
  <2>4. /\ inbox' = Tail(inbox) /\ pc' \in {"reading", "over"}
        /\ UNCHANGED <<outside, heard, file, exit>>
    BY <1>4 DEF Read
  <2>5. Len(inbox') = Len(inbox) - 1 /\ Len(inbox) \in Nat /\ Len(queue) \in Nat
        /\ \A d \in 0..MaxDays : Len(file[d]) \in Nat
    BY <2>1, <2>4, LenProperties
  <2>6. RecTypeOK'
    BY <2>1, <2>3, <2>4, <2>5
  <2>7. Sizes'
    <3> SUFFICES ASSUME NEW d \in 0..MaxDays
                 PROVE  Len(file[d]) + Len(queue') + Len(inbox') <= published
      BY <2>4
    <3> QED
      BY <2>3, <2>5
  <2> QED
    BY <2>6, <2>7
<1>5. CASE StreamEnds
  BY <1>5 DEF StreamEnds
<1>6. CASE Exit
  BY <1>6 DEF Exit
<1>7. CASE Publish
  <2>1. published + 1 \in Messages
    BY <1>7 DEF Publish, Messages
  <2>2. Append(inbox, published + 1) \in Seq(Messages)
        /\ Len(Append(inbox, published + 1)) = Len(inbox) + 1
    BY <2>1, AppendProperties
  <2>3. Append(heard, published + 1) \in Seq(Messages)
    BY <2>1, AppendProperties
  <2>4. /\ inbox' \in Seq(Messages) /\ Len(inbox') <= Len(inbox) + 1 /\ Len(inbox') \in Nat
        /\ Len(inbox') <= HighWater
        /\ heard' \in Seq(Messages)
        /\ Len(inbox) \in Nat /\ Len(queue) \in Nat /\ \A d \in 0..MaxDays : Len(file[d]) \in Nat
    <3>1. Len(inbox) \in Nat /\ Len(queue) \in Nat /\ \A d \in 0..MaxDays : Len(file[d]) \in Nat
      BY LenProperties
    <3>2. \/ inbox' = Append(inbox, published + 1) /\ Len(inbox) < HighWater
             /\ heard' = Append(heard, published + 1)
          \/ inbox' = inbox /\ heard' = heard
      BY <1>7 DEF Publish
    <3>3. CASE /\ inbox' = Append(inbox, published + 1) /\ Len(inbox) < HighWater
               /\ heard' = Append(heard, published + 1)
      BY ONLY <2>2, <2>3, <3>1, <3>3, RecorderAssumption DEF RecorderAssumption
    <3>4. CASE inbox' = inbox /\ heard' = heard
      BY ONLY <3>1, <3>4, RecTypeOK DEF RecTypeOK
    <3> QED
      BY <3>2, <3>3, <3>4
  <2>5. published' = published + 1 /\ published' \in 0..MaxMsgs
        /\ UNCHANGED <<pc, queue, today, file, exit>>
    BY <1>7 DEF Publish
  <2>6. RecTypeOK'
    BY <2>4, <2>5
  <2>7. Sizes'
    <3> SUFFICES ASSUME NEW d \in 0..MaxDays
                 PROVE  Len(file[d]) + Len(queue) + Len(inbox') <= published'
      BY <2>5
    <3> QED
      BY <2>4, <2>5
  <2> QED
    BY <2>6, <2>7
<1>8. CASE Store
  <2>1. Head(queue) \in Messages /\ Tail(queue) \in Seq(Messages)
        /\ Len(Tail(queue)) = Len(queue) - 1
    BY <1>8, HeadTailProperties DEF Store
  <2>2. Append(file[today], Head(queue)) \in Seq(Messages)
        /\ Len(Append(file[today], Head(queue))) = Len(file[today]) + 1
    BY <2>1, AppendProperties
  <2>3. file' \in [0..MaxDays -> Seq(Messages)]
        /\ \A d \in 0..MaxDays : Len(file'[d]) <= Len(file[d]) + 1
    BY <1>8, <2>2 DEF Store
  <2> QED
    BY <1>8, <2>1, <2>3 DEF Store
<1>9. CASE Midnight
  BY <1>9 DEF Midnight
<1> QED
  BY <1>1, <1>2, <1>3, <1>4, <1>5, <1>6, <1>7, <1>8, <1>9 DEF RecNext, Process

LEMMA RecStutter == RecIInv /\ UNCHANGED recVars => RecIInv'
  BY DEF RecIInv, RecTypeOK, Sizes, recVars

(* The recorder's types: nothing it holds is more than was published, and a
   subscriber holds no more than its socket does.                          *)
THEOREM RecorderTypeCorrect == Spec => []RecTypeOK
<1>1. RecIInv /\ [RecNext]_recVars => RecIInv'
  BY RecStep, RecStutter
<1>2. RecIInv => RecTypeOK
  BY DEF RecIInv
<1> QED
  BY RecInitial, <1>1, <1>2, PTL DEF Spec

------------------------------------------------------------------------------
(* What is recorded *)

(* The elements of a sequence that grows by one.                           *)
LEMMA Grown ==
  ASSUME NEW s \in Seq(Messages), NEW e \in Messages
  PROVE  /\ ToSet(Append(s, e)) = ToSet(s) \cup {e}
         /\ Climbs(s) /\ (\A m \in ToSet(s) : m < e) => Climbs(Append(s, e))
<1> DEFINE t == Append(s, e)
<1>1. /\ Len(s) \in Nat /\ DOMAIN s = 1..Len(s) /\ DOMAIN t = 1..(Len(s) + 1)
      /\ \A i \in 1..Len(s) : t[i] = s[i]
      /\ t[Len(s) + 1] = e
  BY AppendProperties, LenProperties
<1>2. 1..(Len(s) + 1) = 1..Len(s) \cup {Len(s) + 1}
  BY <1>1
<1> HIDE DEF t
<1>3. ToSet(t) = ToSet(s) \cup {e}
  BY <1>1, <1>2 DEF ToSet
<1>4. ASSUME Climbs(s), \A m \in ToSet(s) : m < e PROVE Climbs(t)
  <2> SUFFICES ASSUME NEW i \in DOMAIN t, NEW j \in DOMAIN t, i < j PROVE t[i] < t[j]
    BY DEF Climbs
  <2>1. i \in 1..Len(s)
    BY <1>1
  <2>2. CASE j = Len(s) + 1
    BY <1>1, <1>4, <2>1, <2>2 DEF ToSet
  <2>3. CASE j \in 1..Len(s)
    BY <1>1, <1>4, <2>1, <2>3 DEF Climbs
  <2> QED
    BY <1>1, <1>2, <2>2, <2>3
<1> QED
  BY <1>3, <1>4 DEF t

(* The elements of a sequence whose first one is taken.                    *)
LEMMA FirstTaken ==
  ASSUME NEW s \in Seq(Messages), s # <<>>
  PROVE  /\ Head(s) \in Messages /\ Tail(s) \in Seq(Messages)
         /\ ToSet(s) = {Head(s)} \cup ToSet(Tail(s))
         /\ Climbs(s) => Climbs(Tail(s)) /\ \A m \in ToSet(Tail(s)) : Head(s) < m
<1> DEFINE t == Tail(s)
<1>1. /\ Len(s) \in Nat \ {0} /\ DOMAIN s = 1..Len(s) /\ DOMAIN t = 1..(Len(s) - 1)
      /\ Head(s) = s[1] /\ Head(s) \in Messages /\ t \in Seq(Messages)
      /\ \A i \in 1..(Len(s) - 1) : t[i] = s[i + 1]
  BY EmptySeq, LenProperties, HeadTailProperties
<1>2. /\ \A i \in 1..(Len(s) - 1) : i + 1 \in 1..Len(s) /\ 1 < i + 1
      /\ \A i \in 1..Len(s) : i = 1 \/ (i - 1 \in 1..(Len(s) - 1) /\ i = (i - 1) + 1)
      /\ \A i, j \in 1..(Len(s) - 1) : i < j => i + 1 < j + 1
      /\ 1 \in 1..Len(s)
  BY <1>1
<1> HIDE DEF t
<1>3. ToSet(s) \subseteq {Head(s)} \cup ToSet(t)
  <2> SUFFICES ASSUME NEW i \in 1..Len(s) PROVE s[i] \in {Head(s)} \cup ToSet(t)
    BY <1>1 DEF ToSet
  <2>1. CASE i = 1
    BY <1>1, <2>1
  <2>2. CASE i - 1 \in 1..(Len(s) - 1) /\ i = (i - 1) + 1
    BY <1>1, <2>2 DEF ToSet
  <2> QED
    BY <1>2, <2>1, <2>2
<1>4. {Head(s)} \cup ToSet(t) \subseteq ToSet(s)
  <2>1. \A i \in 1..(Len(s) - 1) : t[i] \in ToSet(s)
    BY <1>1, <1>2 DEF ToSet
  <2> QED
    BY <1>1, <1>2, <2>1 DEF ToSet
<1>5. ASSUME Climbs(s) PROVE Climbs(t) /\ \A m \in ToSet(t) : Head(s) < m
  <2>1. \A i \in 1..(Len(s) - 1) : s[1] < s[i + 1]
    BY <1>1, <1>2, <1>5 DEF Climbs
  <2>2. \A i, j \in 1..(Len(s) - 1) : i < j => s[i + 1] < s[j + 1]
    BY <1>1, <1>2, <1>5 DEF Climbs
  <2>3. Climbs(t)
    BY <1>1, <2>2 DEF Climbs
  <2>4. \A m \in ToSet(t) : Head(s) < m
    BY <1>1, <2>1 DEF ToSet
  <2> QED
    BY <2>3, <2>4
<1> QED
  BY <1>1, <1>3, <1>4, <1>5 DEF t

(* Messages are numbers.                                                   *)
LEMMA Numbered ==
  /\ \A s \in Seq(Messages) : ToSet(s) \subseteq Messages
  /\ Messages \subseteq Nat
<1>1. ASSUME NEW s \in Seq(Messages) PROVE ToSet(s) \subseteq Messages
  BY LenProperties, ElementOfSeq DEF ToSet
<1>2. Messages \subseteq Nat
  BY DEF Messages
<1> QED
  BY <1>1, <1>2

LEMMA EmptySet == ToSet(<<>>) = {} /\ Climbs(<<>>)
  BY DEF ToSet, Climbs

(* The entries the DataWriter has not stored are dropped, or stay.         *)
LEMMA QueueDropped ==
  ASSUME RecTypeOK, RecordedHasNoHoles, UNCHANGED <<heard, file>>, queue' = <<>> \/ queue' = queue
  PROVE  RecordedHasNoHoles' /\ Taken' \subseteq Taken /\ Recorded' = Recorded
<1>1. Recorded' = Recorded /\ heard' = heard
  BY DEF Recorded
<1>2. CASE queue' = queue
  BY <1>1, <1>2 DEF RecordedHasNoHoles, RecordedInOrder, Taken
<1>3. CASE queue' = <<>>
  <2>1. Taken' = Recorded /\ ToSet(queue') = {} /\ Climbs(queue')
    BY <1>1, <1>3, EmptySet DEF Taken
  <2>2. RecordedInOrder'
    BY <2>1 DEF RecordedHasNoHoles, RecordedInOrder, Below
  <2>3. ToSet(heard) \subseteq Nat /\ Taken \subseteq ToSet(heard)
    BY Numbered DEF RecTypeOK, RecordedHasNoHoles
  <2>4. \A n \in Recorded, m \in ToSet(queue) : n < m
    BY DEF RecordedHasNoHoles, RecordedInOrder, Recorded, Below
  <2>5. \A n \in Recorded, m \in ToSet(heard) : m < n => m \in Recorded
    <3> SUFFICES ASSUME NEW n \in Recorded, NEW m \in ToSet(heard), m < n, m \in ToSet(queue)
                 PROVE  FALSE
      BY DEF RecordedHasNoHoles, Taken
    <3>1. n \in Nat /\ m \in Nat /\ n < m
      BY <2>3, <2>4 DEF Taken
    <3> QED
      BY <3>1
  <2> QED
    BY <1>1, <2>1, <2>2, <2>3, <2>5 DEF RecordedHasNoHoles, Taken
<1> QED
  BY <1>2, <1>3

(* A message is read: it is the first in the inbox and later than all taken.
   It is taken, or nothing is read any more.                               *)
LEMMA ReadCourse ==
  ASSUME RecTypeOK, RecordedHasNoHoles, Course, Read
  PROVE  RecordedHasNoHoles' /\ Course'
<1> DEFINE e == Head(inbox)
<1>1. /\ pc = "reading" /\ inbox # <<>> /\ inbox' = Tail(inbox)
      /\ UNCHANGED <<published, today, heard, file, exit>>
      /\ inbox \in Seq(Messages) /\ queue \in Seq(Messages)
  BY DEF Read, outside, RecTypeOK
<1>2. /\ ToSet(heard) = Taken \cup ToSet(inbox)
      /\ Climbs(inbox)
      /\ \A m \in Taken, n \in ToSet(inbox) : m < n
  BY <1>1 DEF Course
<1>3. /\ e \in Messages /\ ToSet(inbox) = {e} \cup ToSet(inbox')
      /\ Climbs(inbox') /\ \A m \in ToSet(inbox') : e < m
  BY <1>1, <1>2, FirstTaken
<1> HIDE DEF e
<1>4. \/ queue' = Append(queue, e) /\ pc' = pc
      \/ queue' = queue /\ pc' = "over"
  BY DEF Read, e
<1>5. CASE queue' = queue /\ pc' = "over"
  <2>1. RecordedHasNoHoles'
    BY <1>1, <1>5, QueueDropped
  <2> QED
    BY <1>1, <1>5, <2>1 DEF Course
<1>6. CASE queue' = Append(queue, e) /\ pc' = pc
  <2>1. Recorded' = Recorded
    BY <1>1 DEF Recorded
  <2>2. \A m \in Taken : m < e
    BY <1>2, <1>3
  <2>3. /\ ToSet(queue') = ToSet(queue) \cup {e}
        /\ Climbs(queue')
    <3>1. Climbs(queue) /\ \A m \in ToSet(queue) : m < e
      BY <2>2 DEF RecordedHasNoHoles, RecordedInOrder, Taken
    <3> QED
      BY <1>1, <1>3, <1>6, <3>1, Grown
  <2>4. Taken' = Taken \cup {e}
    BY <2>1, <2>3 DEF Taken
  <2>5. RecordedInOrder'
    <3>1. \A d \in 0..MaxDays : ToSet(file[d]) \subseteq Taken
      BY DEF Taken, Recorded
    <3> QED
      BY <1>1, <2>2, <2>3, <3>1 DEF RecordedHasNoHoles, RecordedInOrder, Below
  <2>6. ToSet(heard) = Taken' \cup ToSet(inbox')
    BY <1>2, <1>3, <2>4
  <2>7. \A m \in Taken', n \in ToSet(inbox') : m < n
    BY <1>2, <1>3, <2>4
  <2>8. ToSet(heard) \subseteq Nat
    BY Numbered DEF RecTypeOK
  <2>9. \A n \in Taken', m \in ToSet(heard) : m < n => m \in Taken'
    <3> SUFFICES ASSUME NEW n \in Taken', NEW m \in ToSet(inbox'), m < n PROVE FALSE
      BY <2>6
    <3>1. n \in Nat /\ m \in Nat /\ n < m
      BY <2>6, <2>7, <2>8
    <3> QED
      BY <3>1
  <2>10. RecordedHasNoHoles'
    BY <1>1, <2>5, <2>6, <2>9 DEF RecordedHasNoHoles
  <2> QED
    BY <1>1, <1>3, <1>6, <2>6, <2>7, <2>10 DEF Course
<1> QED
  BY <1>4, <1>5, <1>6

(* A message is published: later than all that was.                        *)
LEMMA PublishCourse ==
  ASSUME RecTypeOK, RecordedHasNoHoles, Course, Publish
  PROVE  RecordedHasNoHoles' /\ Course'
<1> DEFINE e == published + 1
<1>1. /\ UNCHANGED <<pc, queue, today, file, exit>> /\ published' = e
      /\ \/ pc = "reading" /\ inbox' = Append(inbox, e) /\ heard' = Append(heard, e)
         \/ UNCHANGED <<inbox, heard>>
      /\ e \in Messages /\ published \in Nat
      /\ inbox \in Seq(Messages) /\ heard \in Seq(Messages)
  <2>1. e \in Messages /\ published \in Nat
    BY RecorderAssumption DEF RecorderAssumption, Publish, RecTypeOK, Messages
  <2> QED
    BY <2>1 DEF Publish, RecTypeOK
<1>2. Taken' = Taken /\ RecordedInOrder'
  BY <1>1 DEF Taken, Recorded, RecordedHasNoHoles, RecordedInOrder
<1>3. /\ \A n \in ToSet(heard) : n \in Nat /\ n < e
      /\ e < e + 1 /\ Taken \subseteq ToSet(heard)
  <2>1. \A n \in ToSet(heard) : n \in Nat /\ n <= published
    BY Numbered DEF Course, RecTypeOK
  <2> QED
    BY <1>1, <2>1 DEF RecordedHasNoHoles
<1>4. CASE UNCHANGED <<inbox, heard>>
  <2>1. RecordedHasNoHoles'
    BY <1>2, <1>4 DEF RecordedHasNoHoles
  <2>2. \A n \in ToSet(heard') : n <= published'
    BY <1>1, <1>3, <1>4
  <2> QED
    BY <1>1, <1>2, <1>4, <2>1, <2>2 DEF Course
<1>5. CASE pc = "reading" /\ inbox' = Append(inbox, e) /\ heard' = Append(heard, e)
  <2>1. /\ ToSet(heard) = Taken \cup ToSet(inbox) /\ Climbs(inbox) /\ Climbs(heard)
        /\ \A m \in Taken, n \in ToSet(inbox) : m < n
    BY <1>5 DEF Course
  <2> HIDE DEF e
  <2>2. ToSet(heard') = ToSet(heard) \cup {e} /\ ToSet(inbox') = ToSet(inbox) \cup {e}
        /\ Climbs(inbox') /\ Climbs(heard')
    BY <1>1, <1>3, <1>5, <2>1, Grown
  <2>3. RecordedHasNoHoles'
    <3>1. \A n \in Taken : ~(e < n)
      BY <1>1, <1>3 DEF e
    <3> QED
      BY <1>2, <2>2, <3>1 DEF RecordedHasNoHoles
  <2>4. \A n \in ToSet(heard') : n <= published'
    BY <1>1, <1>3, <2>2 DEF e
  <2>5. ToSet(heard') = Taken' \cup ToSet(inbox')
    BY <1>2, <2>1, <2>2
  <2>6. \A m \in Taken', n \in ToSet(inbox') : m < n
    BY <1>2, <1>3, <2>1, <2>2
  <2> QED
    BY <1>1, <1>5, <2>2, <2>3, <2>4, <2>5, <2>6 DEF Course
<1> QED
  BY <1>1, <1>4, <1>5

(* An entry is stored in the file of the day, where it is the last, and no
   file of a later day has anything yet.                                   *)
LEMMA StoreCourse ==
  ASSUME RecTypeOK, RecordedHasNoHoles, Course, Store
  PROVE  RecordedHasNoHoles' /\ Course'
<1> DEFINE e == Head(queue)
<1>1. /\ queue # <<>> /\ queue' = Tail(queue) /\ today \in 0..MaxDays
      /\ file' = [file EXCEPT ![today] = Append(file[today], e)]
      /\ UNCHANGED <<published, today, inbox, heard, pc, exit>>
      /\ queue \in Seq(Messages) /\ file \in [0..MaxDays -> Seq(Messages)]
  BY DEF Store, outside, RecTypeOK
<1>2. /\ Climbs(queue)
      /\ \A d \in 0..MaxDays : Climbs(file[d]) /\ Below(file[d], queue)
      /\ \A d, f \in 0..MaxDays : d < f => Below(file[d], file[f])
      /\ \A d \in 0..MaxDays : d > today => ToSet(file[d]) = {}
  BY EmptySet DEF RecordedHasNoHoles, RecordedInOrder, Course
<1>3. /\ e \in Messages /\ ToSet(queue) = {e} \cup ToSet(queue')
      /\ Climbs(queue') /\ \A m \in ToSet(queue') : e < m
  BY <1>1, <1>2, FirstTaken
<1> HIDE DEF e
<1>4. \A d \in 0..MaxDays : \A m \in ToSet(file[d]) : m < e
  BY <1>2, <1>3 DEF Below
<1>5. /\ ToSet(file'[today]) = ToSet(file[today]) \cup {e} /\ Climbs(file'[today])
      /\ \A d \in 0..MaxDays : d # today => file'[d] = file[d]
  <2>1. file[today] \in Seq(Messages) /\ Climbs(file[today]) /\ \A m \in ToSet(file[today]) : m < e
    BY <1>1, <1>2, <1>4
  <2>2. file'[today] = Append(file[today], e) /\ \A d \in 0..MaxDays : d # today => file'[d] = file[d]
    BY <1>1
  <2> QED
    BY <1>3, <2>1, <2>2, Grown
<1>6. \A d \in 0..MaxDays : ToSet(file'[d]) = ToSet(file[d]) \cup (IF d = today THEN {e} ELSE {})
  BY <1>5
<1>7. Recorded' = Recorded \cup {e}
  BY <1>1, <1>6 DEF Recorded
<1>8. Taken' = Taken
  BY <1>3, <1>7 DEF Taken
<1>9. RecordedInOrder'
  <2>1. ASSUME NEW d \in 0..MaxDays PROVE Climbs(file'[d]) /\ Below(file'[d], queue')
    BY <1>2, <1>3, <1>5, <1>6 DEF Below
  <2>2. ASSUME NEW d \in 0..MaxDays, NEW f \in 0..MaxDays, d < f
        PROVE  Below(file'[d], file'[f])
    <3>1. CASE d = today
      <4>1. ToSet(file'[f]) = {}
        BY <1>1, <1>2, <1>6, <2>2, <3>1
      <4> QED
        BY <4>1 DEF Below
    <3>2. CASE d # today
      BY <1>2, <1>4, <1>6, <2>2, <3>2 DEF Below
    <3> QED
      BY <3>1, <3>2
  <2> QED
    BY <1>3, <2>1, <2>2 DEF RecordedInOrder
<1>10. RecordedHasNoHoles'
  BY <1>1, <1>8, <1>9 DEF RecordedHasNoHoles
<1>11. \A d \in 0..MaxDays : d > today' => file'[d] = <<>>
  BY <1>1, <1>5 DEF Course
<1> QED
  BY <1>1, <1>8, <1>10, <1>11 DEF Course

(* Every step of the recorder keeps its files a beginning of what it heard. *)
LEMMA CourseStep ==
  ASSUME RecTypeOK, RecordedHasNoHoles, Course, [RecNext]_recVars
  PROVE  RecordedHasNoHoles' /\ Course'
<1>1. CASE Read
  BY <1>1, ReadCourse
<1>2. CASE Publish
  BY <1>2, PublishCourse
<1>3. CASE Store
  BY <1>3, StoreCourse
<1>4. CASE StartWriter \/ StreamEnds \/ UNCHANGED recVars
  <2>1. UNCHANGED <<published, today, inbox, heard, queue, file>>
        /\ (pc' = pc \/ pc' \in {"aborted", "over"} \/ (pc = "writer" /\ pc' = "socket"))
    BY <1>4 DEF StartWriter, StreamEnds, recVars, outside
  <2>2. RecordedHasNoHoles' /\ Taken' = Taken
    BY <2>1, QueueDropped DEF Taken, Recorded
  <2> QED
    BY <2>1, <2>2 DEF Course
<1>5. CASE Subscribe
  <2>1. UNCHANGED <<published, today, inbox, heard, queue, file>> /\ heard = <<>> /\ inbox = <<>>
        /\ pc' \in {"reading", "aborted"}
    BY <1>5 DEF Subscribe, outside, Course
  <2>2. RecordedHasNoHoles' /\ Taken' = Taken
    BY <2>1, QueueDropped DEF Taken, Recorded
  <2>3. Taken = {} /\ ToSet(heard) = {} /\ ToSet(inbox) = {}
    BY <2>1, EmptySet DEF RecordedHasNoHoles
  <2> QED
    BY <2>1, <2>2, <2>3, EmptySet DEF Course
<1>6. CASE SocketPanics \/ Exit
  <2>1. UNCHANGED <<published, today, heard, pc, file>> /\ queue' = <<>>
        /\ (inbox' = inbox \/ inbox' = <<>>) /\ pc # "reading"
    BY <1>6 DEF SocketPanics, Exit, outside
  <2>2. RecordedHasNoHoles'
    BY <2>1, QueueDropped
  <2> QED
    BY <2>1, <2>2 DEF Course
<1>7. CASE Midnight
  <2>1. UNCHANGED <<published, inbox, heard, pc, queue, file, exit>> /\ today' = today + 1
        /\ today \in 0..MaxDays
    BY <1>7 DEF Midnight, RecTypeOK
  <2>2. RecordedHasNoHoles' /\ Taken' = Taken
    BY <2>1, QueueDropped DEF Taken, Recorded
  <2>3. \A d \in 0..MaxDays : d > today' => file'[d] = <<>>
    BY <2>1, RecorderAssumption DEF Course
  <2> QED
    BY <2>1, <2>2, <2>3 DEF Course
<1> QED
  BY <1>1, <1>2, <1>3, <1>4, <1>5, <1>6, <1>7 DEF RecNext, Process

LEMMA CourseInitial == RecInit => RecordedHasNoHoles /\ Course
<1> SUFFICES ASSUME RecInit PROVE RecordedHasNoHoles /\ Course
  OBVIOUS
<1>1. /\ ToSet(heard) = {} /\ ToSet(queue) = {} /\ Climbs(heard) /\ Climbs(queue)
      /\ \A d \in 0..MaxDays : file[d] = <<>> /\ ToSet(file[d]) = {} /\ Climbs(file[d])
  BY EmptySet DEF RecInit
<1>2. Taken = {}
  BY <1>1 DEF Taken, Recorded
<1> QED
  BY <1>1, <1>2 DEF RecInit, RecordedHasNoHoles, RecordedInOrder, Below, Course

CourseInv == RecIInv /\ RecordedHasNoHoles /\ Course

(* Whatever fails and whenever midnight comes, the files of a recorder are, one
   after the other, a beginning of what its subscriber was given.          *)
THEOREM RecordingIsABeginning == Spec => []RecordedHasNoHoles
<1>1. CourseInv /\ [RecNext]_recVars => CourseInv'
  BY RecStep, RecStutter, CourseStep DEF CourseInv, RecIInv
<1>2. RecInit => CourseInv
  BY RecInitial, CourseInitial DEF CourseInv
<1>3. CourseInv => RecordedHasNoHoles
  BY DEF CourseInv
<1> QED
  BY <1>1, <1>2, <1>3, PTL DEF Spec

------------------------------------------------------------------------------
(* The downloads *)

(* A recorder's step changes a file only by a record at its end.           *)
LEMMA FilesGrow ==
  ASSUME RecTypeOK, RecNext, NEW d \in 0..MaxDays
  PROVE  \/ file'[d] = file[d]
         \/ \E e \in Messages : file'[d] = Append(file[d], e)
<1>1. CASE Store
  <2>1. Head(queue) \in Messages
    BY <1>1, HeadTailProperties DEF Store, RecTypeOK
  <2> QED
    BY <1>1, <2>1 DEF Store, RecTypeOK
<1>2. CASE ~Store
  BY <1>2 DEF RecNext, Process, StartWriter, Subscribe, SocketPanics, Read,
              StreamEnds, Exit, Publish, Midnight
<1> QED
  BY <1>1, <1>2

(* A download is not disturbed by the recorder.                            *)
LEMMA CopiesStay ==
  ASSUME FilesIInv, RecNext, UNCHANGED dl, NEW r \in Requests
  PROVE  Copied(r)'
<1> USE DEF FilesIInv, FilesTypeOK
<1>1. CASE dl[r].at \in {"streaming", "done"}
  <2>1. dl[r].day \in 0..MaxDays /\ dl[r].pos \in Nat /\ dl[r].opened \in Nat
    BY <1>1
  <2> DEFINE f == file[dl[r].day]
  <2>2. f \in Seq(Messages) /\ Copied(r)
    BY <2>1 DEF RecTypeOK
  <2>3. CASE file'[dl[r].day] = f
    BY <1>1, <2>2, <2>3 DEF Copied
  <2>4. ASSUME NEW e \in Messages, file'[dl[r].day] = Append(f, e)
        PROVE  Copied(r)'
    <3>1. Len(Append(f, e)) = Len(f) + 1 /\ Len(f) \in Nat
      BY <2>2, AppendProperties, LenProperties
    <3>2. SubSeq(Append(f, e), 1, dl[r].pos) = SubSeq(f, 1, dl[r].pos)
      BY <1>1, <2>1, <2>2, <3>1, CopyOfGrown DEF Copied
    <3> QED
      BY <1>1, <2>1, <2>2, <2>4, <3>1, <3>2 DEF Copied
  <2> QED
    BY <2>1, <2>3, <2>4, FilesGrow
<1>2. CASE dl[r].at \notin {"streaming", "done"}
  BY <1>2 DEF Copied
<1> QED
  BY <1>1, <1>2

LEMMA FilesInitial == FilesInit => FilesIInv
<1> SUFFICES ASSUME FilesInit PROVE FilesIInv
  OBVIOUS
<1>1. RecIInv
  BY RecInitial DEF FilesInit
<1>2. dl = [r \in Requests |-> NoDownload]
  BY DEF FilesInit
<1>3. \A r \in Requests : Copied(r)
  BY <1>2 DEF Copied, NoDownload
<1> QED
  BY <1>1, <1>2, <1>3, RecorderAssumption, EmptySeq
  DEF RecIInv, FilesIInv, FilesTypeOK, FilesInit, NoDownload

(* Every step keeps the strengthened invariant.                            *)
LEMMA FilesStep == FilesIInv /\ [FilesNext]_filesVars => FilesIInv'
<1> SUFFICES ASSUME FilesIInv, [FilesNext]_filesVars PROVE FilesIInv'
  OBVIOUS
<1> USE RecorderAssumption DEF FilesIInv
<1>1. CASE RecNext /\ UNCHANGED <<options, server, config, dl>>
  <2>1. RecIInv'
    BY <1>1, RecStep DEF RecIInv, FilesTypeOK
  <2>2. \A r \in Requests : Copied(r)'
    BY <1>1, CopiesStay
  <2> QED
    BY <1>1, <2>1, <2>2 DEF RecIInv, FilesTypeOK
<1> DEFINE Kept == UNCHANGED recVars /\ RecIInv' /\ UNCHANGED file
<1>2. CASE UNCHANGED filesVars
  BY <1>2, RecStutter DEF filesVars, recVars, RecIInv, FilesTypeOK, Copied
<1>3. UNCHANGED recVars => Kept
  BY RecStutter DEF RecIInv, FilesTypeOK, recVars
<1>4. CASE StartServer
  <2>1. Kept
    BY <1>3, <1>4 DEF StartServer
  <2>2. \A r \in Requests : Copied(r)'
    BY <1>4, <2>1 DEF StartServer, Copied
  <2> QED
    BY <1>4, <2>1, <2>2 DEF StartServer, ValueOf, RecIInv, FilesTypeOK
<1>5. ASSUME NEW r \in Requests, Ask(r) PROVE FilesIInv'
  <2>1. Kept /\ UNCHANGED <<options, server, config>>
    BY <1>3, <1>5 DEF Ask
  <2>2. CASE dl' = [dl EXCEPT ![r].at = "panicked"]
    <3>1. \A q \in Requests : Copied(q)'
      BY <1>5, <2>1, <2>2 DEF Ask, Copied, FilesTypeOK
    <3> QED
      BY <1>5, <2>1, <2>2, <3>1 DEF RecIInv, FilesTypeOK
  <2>3. ASSUME NEW elapse \in 0..MaxDays, NEW known \in BOOLEAN,
               dl' = [dl EXCEPT ![r] = [@ EXCEPT !.at = IF known THEN "opening" ELSE "notFound",
                                                 !.day = today - elapse]]
        PROVE  FilesIInv'
    <3>1. today - elapse \in (-MaxDays)..MaxDays
      BY DEF FilesTypeOK, RecTypeOK
    <3>2. \A q \in Requests : Copied(q)'
      BY <1>5, <2>1, <2>3 DEF Ask, Copied, FilesTypeOK
    <3> QED
      BY <2>1, <2>3, <3>1, <3>2 DEF RecIInv, FilesTypeOK
  <2> QED
    BY <1>5, <2>2, <2>3 DEF Ask
<1>6. ASSUME NEW r \in Requests, OpenFile(r) PROVE FilesIInv'
  <2>1. Kept /\ UNCHANGED <<options, server, config>>
    BY <1>3, <1>6 DEF OpenFile
  <2>2. dl[r].pos = 0 /\ dl[r].got = <<>> /\ dl[r].at = "opening"
    BY <1>6 DEF OpenFile, Copied
  <2>3. CASE CanOpen(dl[r].day)
    <3> DEFINE f == file[dl[r].day]
    <3>1. /\ dl[r].day \in 0..MaxDays
          /\ dl' = [dl EXCEPT ![r] = [dl[r] EXCEPT !.at = "streaming", !.opened = Len(f)]]
      BY <1>6, <2>3 DEF OpenFile, CanOpen
    <3>2. f \in Seq(Messages) /\ Len(f) \in 0..MaxMsgs
      BY <3>1, LenProperties DEF FilesTypeOK, RecTypeOK, Sizes
    <3>3. SubSeq(f, 1, 0) = <<>>
      BY SubSeqEmpty
    <3>4. \A q \in Requests : Copied(q)'
      BY <2>1, <2>2, <3>1, <3>2, <3>3 DEF Copied, FilesTypeOK
    <3> QED
      BY <2>1, <3>1, <3>2, <3>4 DEF RecIInv, FilesTypeOK
  <2>4. CASE ~CanOpen(dl[r].day)
    <3>1. dl' = [dl EXCEPT ![r] = [dl[r] EXCEPT !.at = "notFound"]]
      BY <1>6, <2>4 DEF OpenFile
    <3>2. \A q \in Requests : Copied(q)'
      BY <2>1, <2>2, <3>1 DEF Copied, FilesTypeOK
    <3> QED
      BY <2>1, <3>1, <3>2 DEF RecIInv, FilesTypeOK
  <2> QED
    BY <2>3, <2>4
<1>7. ASSUME NEW r \in Requests, Piece(r) PROVE FilesIInv'
  <2>1. Kept /\ UNCHANGED <<options, server, config>> /\ dl[r].at = "streaming"
    BY <1>3, <1>7 DEF Piece
  <2> DEFINE f == file[dl[r].day]
             p == dl[r].pos
  <2>2. PICK n \in (p + 1)..Len(f) :
          dl' = [dl EXCEPT ![r] = [dl[r] EXCEPT !.pos = n,
                                                !.got = dl[r].got \o SubSeq(f, p + 1, n)]]
    BY <1>7 DEF Piece, Source, FilesTypeOK
  <2>3. /\ dl[r].day \in 0..MaxDays /\ f \in Seq(Messages) /\ Len(f) \in 0..MaxMsgs
        /\ p \in Nat /\ p <= Len(f) /\ n \in 0..MaxMsgs /\ n <= Len(f)
    <3>1. dl[r].day \in 0..MaxDays /\ p \in Nat
      BY <2>1 DEF FilesTypeOK
    <3>2. f \in Seq(Messages)
      BY <3>1 DEF FilesTypeOK, RecTypeOK
    <3>3. Len(f) + Len(queue) + Len(inbox) <= published
      BY <3>1 DEF Sizes
    <3>4. Len(f) \in Nat /\ Len(queue) \in Nat /\ Len(inbox) \in Nat
      BY <3>2, LenProperties DEF FilesTypeOK, RecTypeOK
    <3>5. Len(f) \in 0..MaxMsgs
      BY <3>3, <3>4 DEF FilesTypeOK, RecTypeOK
    <3>6. p <= Len(f)
      BY <2>1 DEF Copied
    <3> QED
      BY <2>2, <3>1, <3>2, <3>5, <3>6
  <2>4. dl[r].got \o SubSeq(f, p + 1, n) = SubSeq(f, 1, n)
    <3>1. dl[r].got = SubSeq(f, 1, p)
      BY <2>1 DEF Copied
    <3>2. p \in 0..Len(f) /\ n \in p..Len(f) /\ 1 \in 1..Len(f) + 1
      BY <2>2, <2>3
    <3> QED
      <4>1. p \in 0..Len(f)
        BY <3>2
      <4>2. SubSeq(f, 1, p) \o SubSeq(f, p + 1, n) = SubSeq(f, 1, n)
        BY <2>3, <3>2, <4>1, CopyExtends
      <4> QED
        BY <3>1, <4>2
  <2>5. SubSeq(f, 1, n) \in Seq(Messages)
    <3>1. \A i \in 1..n : f[i] \in Messages
      BY <2>2, <2>3, ElementOfSeq
    <3> QED
      BY <2>3, <3>1, SubSeqProperties, Z3
  <2>6. \A q \in Requests : Copied(q)'
    BY <2>1, <2>2, <2>3, <2>4 DEF Copied, FilesTypeOK
  <2> QED
    BY <2>1, <2>2, <2>3, <2>4, <2>5, <2>6 DEF RecIInv, FilesTypeOK
<1>8. ASSUME NEW r \in Requests, EndOfFile(r) PROVE FilesIInv'
  <2>1. Kept /\ UNCHANGED <<options, server, config>> /\ dl[r].at = "streaming"
    BY <1>3, <1>8 DEF EndOfFile
  <2>2. dl' = [dl EXCEPT ![r] = [dl[r] EXCEPT !.at = "done"]]
        /\ dl[r].pos >= Len(file[dl[r].day])
    BY <1>8 DEF EndOfFile, Source
  <2>3. file[dl[r].day] \in Seq(Messages) /\ dl[r].opened \in Nat /\ dl[r].pos \in Nat
        /\ Len(file[dl[r].day]) \in Nat
    BY <2>1, LenProperties DEF FilesTypeOK, RecTypeOK
  <2>4. \A q \in Requests : Copied(q)'
    BY <2>1, <2>2, <2>3 DEF Copied, FilesTypeOK
  <2> QED
    BY <2>1, <2>2, <2>4 DEF RecIInv, FilesTypeOK
<1> QED
  BY <1>1, <1>2, <1>4, <1>5, <1>6, <1>7, <1>8 DEF FilesNext

THEOREM FilesInductive == FilesSpec => []FilesIInv
  BY FilesInitial, FilesStep, PTL DEF FilesSpec

(* The types of the server's state and of every download.                  *)
THEOREM FilesTypeCorrect == FilesSpec => []FilesTypeOK
<1>1. FilesIInv => FilesTypeOK
  BY DEF FilesIInv
<1> QED
  BY <1>1, FilesInductive, PTL

(* A download is the beginning of the file of one day, and when it is done
   it has all that was there when the file was opened: recorder and midnight
   may come between any two pieces.                                        *)
THEOREM DownloadsAreOneDay == FilesSpec => []DownloadIsOneDay
<1>1. FilesIInv => DownloadIsOneDay
  <2> SUFFICES ASSUME FilesIInv, NEW r \in Requests, dl[r].at \in {"streaming", "done"}
               PROVE  /\ IsPrefix(dl[r].got, file[dl[r].day])
                      /\ dl[r].at = "done" => Len(dl[r].got) >= dl[r].opened
    BY DEF DownloadIsOneDay
  <2> DEFINE f == file[dl[r].day]
  <2>1. f \in Seq(Messages) /\ dl[r].pos \in 0..Len(f) /\ dl[r].got = SubSeq(f, 1, dl[r].pos)
    BY LenProperties DEF FilesIInv, FilesTypeOK, RecTypeOK, Copied
  <2>2. IsPrefix(dl[r].got, f) /\ Len(dl[r].got) = dl[r].pos
    BY <2>1, CopyIsPrefix
  <2> QED
    BY <2>1, <2>2 DEF FilesIInv, FilesTypeOK, Copied
<1> QED
  BY <1>1, FilesInductive, PTL

(* The same of the recorder beside a server that reads its files: a download
   takes nothing from them.                                                *)
THEOREM RecordingUndisturbed == FilesSpec => []RecordedHasNoHoles
<1>1. FilesInit => CourseInv
  BY RecInitial, CourseInitial DEF FilesInit, CourseInv
<1>2. CourseInv /\ [FilesNext]_filesVars => CourseInv'
  <2> SUFFICES ASSUME CourseInv, [FilesNext]_filesVars PROVE CourseInv'
    OBVIOUS
  <2>1. [RecNext]_recVars
    BY DEF FilesNext, filesVars, StartServer, Ask, OpenFile, Piece, EndOfFile
  <2> QED
    BY <2>1, RecStep, RecStutter, CourseStep DEF CourseInv, RecIInv
<1>3. CourseInv => RecordedHasNoHoles
  BY DEF CourseInv
<1> QED
  BY <1>1, <1>2, <1>3, PTL DEF FilesSpec

==============================================================================
