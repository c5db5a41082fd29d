------------------------ MODULE IntegrationPipelineProofs ------------------------
(***************************************************************************)
(* IntegrationPipeline for any symbols and any bounds: the types, that what *)
(* is published is the beginning of what was crawled, and that nothing is  *)
(* lost before the writer stops.  Facts about messages and channels first, *)
(* then one lemma for each action.                                         *)
(***************************************************************************)
EXTENDS IntegrationPipeline, SequenceTheorems, TLAPS

(* Sequences *)

(* The elements of a sequence are its head and those of its tail.          *)
LEMMA HeadAndTail ==
  ASSUME NEW S, NEW s \in Seq(S), s # <<>>
  PROVE  /\ Len(s) \in Nat \ {0} /\ 1 \in DOMAIN s
         /\ Head(s) = s[1] /\ Head(s) \in S
         /\ Tail(s) \in Seq(S) /\ Len(Tail(s)) = Len(s) - 1
         /\ DOMAIN s = 1..Len(s) /\ DOMAIN Tail(s) = 1..(Len(s) - 1)
         /\ \A i \in 1..(Len(s) - 1) : Tail(s)[i] = s[i + 1]
         /\ ToSet(s) = {Head(s)} \cup ToSet(Tail(s))
<1>1. Len(s) \in Nat \ {0} /\ DOMAIN s = 1..Len(s)
  BY EmptySeq, LenProperties
<1>2. Head(s) = s[1] /\ Head(s) \in S /\ Tail(s) \in Seq(S) /\ Len(Tail(s)) = Len(s) - 1
      /\ \A i \in 1..(Len(s) - 1) : Tail(s)[i] = s[i + 1]
  BY HeadTailProperties
<1>3. DOMAIN Tail(s) = 1..(Len(s) - 1)
  BY <1>2, LenProperties
<1>4. \A i \in 1..Len(s) : i = 1 \/ (i - 1 \in 1..(Len(s) - 1) /\ i = (i - 1) + 1)
  BY <1>1
<1>5. \A i \in 1..(Len(s) - 1) : i + 1 \in 1..Len(s)
  BY <1>1
<1>6. ToSet(s) \subseteq {Head(s)} \cup ToSet(Tail(s))
  <2> SUFFICES ASSUME NEW i \in 1..Len(s) PROVE s[i] \in {Head(s)} \cup ToSet(Tail(s))
    BY <1>1 DEF ToSet
  <2>1. CASE i = 1
    BY <2>1, <1>2
  <2>2. CASE i - 1 \in 1..(Len(s) - 1) /\ i = (i - 1) + 1
    BY <2>2, <1>2, <1>3 DEF ToSet
  <2> QED
    BY <1>4, <2>1, <2>2
<1>7. {Head(s)} \cup ToSet(Tail(s)) \subseteq ToSet(s)
  <2>1. Head(s) \in ToSet(s)
    BY <1>1, <1>2 DEF ToSet
  <2>2. \A i \in 1..(Len(s) - 1) : Tail(s)[i] \in ToSet(s)
    BY <1>1, <1>2, <1>5 DEF ToSet
  <2> QED
    BY <1>3, <2>1, <2>2 DEF ToSet
<1> QED
  BY <1>1, <1>2, <1>3, <1>6, <1>7

(* An element is added at the end.                                         *)
LEMMA Appended ==
  ASSUME NEW S, NEW s \in Seq(S), NEW e \in S
  PROVE  /\ Append(s, e) \in Seq(S)
         /\ Len(s) \in Nat /\ DOMAIN s = 1..Len(s)
         /\ DOMAIN Append(s, e) = 1..(Len(s) + 1)
         /\ Len(Append(s, e)) = Len(s) + 1
         /\ \A i \in 1..Len(s) : Append(s, e)[i] = s[i]
         /\ Append(s, e)[Len(s) + 1] = e
         /\ ToSet(Append(s, e)) = ToSet(s) \cup {e}
<1>1. Len(s) \in Nat /\ DOMAIN s = 1..Len(s)
  BY LenProperties
<1>2. /\ Append(s, e) \in Seq(S) /\ Len(Append(s, e)) = Len(s) + 1
      /\ \A i \in 1..Len(s) : Append(s, e)[i] = s[i]
      /\ Append(s, e)[Len(s) + 1] = e
  BY AppendProperties
<1>3. DOMAIN Append(s, e) = 1..(Len(s) + 1)
  BY <1>2, LenProperties
<1>4. 1..(Len(s) + 1) = 1..Len(s) \cup {Len(s) + 1}
  BY <1>1
<1>5. ToSet(Append(s, e)) = ToSet(s) \cup {e}
  BY <1>1, <1>2, <1>3, <1>4 DEF ToSet
<1> QED
  BY <1>1, <1>2, <1>3, <1>5

(* The members of a sequence.                                              *)
LEMMA Members ==
  ASSUME NEW S, NEW s \in Seq(S)
  PROVE  ToSet(s) \subseteq S /\ (s = <<>> => ToSet(s) = {})
  BY LenProperties, ElementOfSeq DEF ToSet

(* More numbers make more sequences of them.                               *)
LEMMA SeqGrows ==
  ASSUME NEW n \in Nat, NEW m \in Nat, n <= m
  PROVE  /\ 1..n \subseteq 1..m
         /\ Seq(1..n) \subseteq Seq(1..m)
         /\ Seq(Seq(1..n)) \subseteq Seq(Seq(1..m))
<1>1. 1..n \subseteq 1..m
  OBVIOUS
<1>2. Seq(1..n) \subseteq Seq(1..m)
  BY <1>1, SeqMonotonic
<1>3. Seq(Seq(1..n)) \subseteq Seq(Seq(1..m))
  BY <1>2, SeqMonotonic
<1> QED
  BY <1>1, <1>2, <1>3

(* What a channel holds, when a message comes and when one is taken.       *)
LEMMA WithinAppend ==
  ASSUME NEW S, NEW q \in Seq(S), NEW m \in S
  PROVE  Within(Append(q, m)) = Within(q) \cup ToSet(m)
<1>1. 1..(Len(q) + 1) = 1..Len(q) \cup {Len(q) + 1}
  BY LenProperties
<1> QED
  BY <1>1, Appended DEF Within

LEMMA WithinTail ==
  ASSUME NEW S, NEW q \in Seq(S), q # <<>>
  PROVE  Within(q) = ToSet(Head(q)) \cup Within(Tail(q))
<1>1. \A i \in 1..Len(q) : i = 1 \/ (i - 1 \in 1..(Len(q) - 1) /\ i = (i - 1) + 1)
  BY LenProperties
<1>2. \A i \in 1..(Len(q) - 1) : i + 1 \in 1..Len(q)
  BY LenProperties
<1>3. /\ DOMAIN q = 1..Len(q) /\ DOMAIN Tail(q) = 1..(Len(q) - 1) /\ Head(q) = q[1]
      /\ 1 \in 1..Len(q) /\ \A i \in 1..(Len(q) - 1) : Tail(q)[i] = q[i + 1]
  BY HeadAndTail
<1>4. Within(q) \subseteq ToSet(Head(q)) \cup Within(Tail(q))
  <2> SUFFICES ASSUME NEW i \in 1..Len(q)
               PROVE  ToSet(q[i]) \subseteq ToSet(Head(q)) \cup Within(Tail(q))
    BY <1>3 DEF Within
  <2>1. CASE i = 1
    BY <2>1, <1>3
  <2>2. CASE i - 1 \in 1..(Len(q) - 1) /\ i = (i - 1) + 1
    BY <2>2, <1>3 DEF Within
  <2> QED
    BY <1>1, <2>1, <2>2
<1>5. ToSet(Head(q)) \cup Within(Tail(q)) \subseteq Within(q)
  <2>1. ToSet(Head(q)) \subseteq Within(q)
    BY <1>3 DEF Within
  <2>2. \A i \in 1..(Len(q) - 1) : ToSet(Tail(q)[i]) \subseteq Within(q)
    BY <1>2, <1>3 DEF Within
  <2> QED
    BY <1>3, <2>1, <2>2 DEF Within
<1> QED
  BY <1>4, <1>5

(* A message of the crawler.                                               *)
LEMMA BlockProperties ==
  ASSUME NEW a \in Nat, NEW b \in Nat, a <= b
  PROVE  /\ Block(a, b) \in Seq((a + 1)..b)
         /\ Len(Block(a, b)) = b - a /\ DOMAIN Block(a, b) = 1..(b - a)
         /\ ToSet(Block(a, b)) = (a + 1)..b
         /\ \A i, j \in DOMAIN Block(a, b) : i < j => Block(a, b)[i] < Block(a, b)[j]
<1>1. b - a \in Nat /\ Block(a, b) \in [1..(b - a) -> (a + 1)..b]
  BY DEF Block
<1>2. Block(a, b) \in Seq((a + 1)..b)
  BY <1>1, SeqDef
<1>3. Len(Block(a, b)) = b - a
  BY <1>1, <1>2, LenProperties
<1>4. DOMAIN Block(a, b) = 1..(b - a)
  BY <1>1
<1>5. ToSet(Block(a, b)) = (a + 1)..b
  <2>1. ToSet(Block(a, b)) = {a + i : i \in 1..(b - a)}
    BY <1>4 DEF ToSet, Block
  <2>2. \A x \in (a + 1)..b : x - a \in 1..(b - a) /\ x = a + (x - a)
    OBVIOUS
  <2>3. \A i \in 1..(b - a) : a + i \in (a + 1)..b
    OBVIOUS
  <2> QED
    BY <2>1, <2>2, <2>3
<1> QED
  BY <1>2, <1>3, <1>4, <1>5 DEF Block

------------------------------------------------------------------------------
(* Channels that hold the numbers of a range, cut into messages *)

LEMMA LineEmpty ==
  ASSUME NEW a \in Nat
  PROVE  Line(<<>>, a, a) /\ \A b \in Nat : Line(<<>>, a, b) => a = b
<1>1. Len(<<>>) = 0 /\ DOMAIN <<>> = {} /\ 0..0 = {0}
  BY EmptySeq
<1>2. Line(<<>>, a, a)
  <2> DEFINE cut == [i \in 0..0 |-> a]
  <2>1. cut \in [0..0 -> a..a] /\ cut[0] = a
    OBVIOUS
  <2>2. \A i, j \in 0..0 : ~(i < j)
    OBVIOUS
  <2> HIDE DEF cut
  <2> QED
    BY <1>1, <2>1, <2>2 DEF Line
<1> QED
  BY <1>1, <1>2 DEF Line

(* A message is added: the numbers go on where they ended.                 *)
LEMMA LineAppend ==
  ASSUME NEW S, NEW q \in Seq(S), NEW a \in Nat, NEW b \in Nat, NEW c \in Nat,
         a <= b, b < c, Block(b, c) \in S, Line(q, a, b)
  PROVE  Line(Append(q, Block(b, c)), a, c)
<1> DEFINE n == Len(q)
           m == Append(q, Block(b, c))
<1>1. PICK cut \in [0..n -> a..b] :
        /\ cut[0] = a /\ cut[n] = b
        /\ \A i, j \in 0..n : i < j => cut[i] < cut[j]
        /\ \A k \in DOMAIN q : q[k] = Block(cut[k - 1], cut[k])
  BY DEF Line
<1>2. /\ n \in Nat /\ DOMAIN q = 1..n /\ Len(m) = n + 1 /\ DOMAIN m = 1..(n + 1)
      /\ \A i \in 1..n : m[i] = q[i]
      /\ m[n + 1] = Block(b, c)
  BY Appended
<1> DEFINE cut2 == [i \in 0..(n + 1) |-> IF i = n + 1 THEN c ELSE cut[i]]
<1>3. \A i \in 0..n : cut2[i] = cut[i] /\ cut2[i] \in a..b
  BY <1>1, <1>2
<1>4. cut2[n + 1] = c /\ 0..(n + 1) = 0..n \cup {n + 1}
  BY <1>2
<1>5. cut2 \in [0..(n + 1) -> a..c]
  BY <1>1, <1>2
<1>6. \A i, j \in 0..(n + 1) : i < j => cut2[i] < cut2[j]
  <2> SUFFICES ASSUME NEW i \in 0..(n + 1), NEW j \in 0..(n + 1), i < j
               PROVE  cut2[i] < cut2[j]
    OBVIOUS
  <2> HIDE DEF cut2
  <2>1. i \in 0..n /\ cut2[i] = cut[i] /\ cut2[i] \in a..b
    BY <1>2, <1>3
  <2>2. CASE j = n + 1
    BY <2>1, <2>2, <1>4
  <2>3. CASE j \in 0..n
    BY <2>1, <2>3, <1>1, <1>3
  <2> QED
    BY <1>4, <2>2, <2>3
<1>7. \A k \in 1..(n + 1) : m[k] = Block(cut2[k - 1], cut2[k])
  <2> SUFFICES ASSUME NEW k \in 1..(n + 1) PROVE m[k] = Block(cut2[k - 1], cut2[k])
    OBVIOUS
  <2> HIDE DEF cut2, m
  <2>1. k - 1 \in 0..n /\ cut2[k - 1] = cut[k - 1]
    BY <1>2, <1>3
  <2>2. CASE k = n + 1
    BY <2>1, <2>2, <1>1, <1>2, <1>4
  <2>3. CASE k \in 1..n
    <3>1. cut2[k] = cut[k]
      BY <2>3, <1>3
    <3>2. m[k] = q[k] /\ q[k] = Block(cut[k - 1], cut[k])
      BY <2>3, <1>1, <1>2
    <3> QED
      BY <2>1, <3>1, <3>2
  <2> QED
    BY <1>2, <2>2, <2>3
<1>8. cut2[0] = a
  BY <1>1, <1>2, <1>3
<1> HIDE DEF cut2, m
<1>9. \E f \in [0..Len(m) -> a..c] :
        /\ f[0] = a /\ f[Len(m)] = c
        /\ \A i, j \in 0..Len(m) : i < j => f[i] < f[j]
        /\ \A k \in DOMAIN m : m[k] = Block(f[k - 1], f[k])
  BY <1>2, <1>4, <1>5, <1>6, <1>7, <1>8
<1>10. Line(m, a, c)
  BY <1>9 DEF Line
<1> QED
  BY <1>10 DEF m

(* The first message is taken: it is the numbers up to some c, and the others
   go on from there.                                                       *)
LEMMA LineTail ==
  ASSUME NEW S, NEW q \in Seq(S), q # <<>>, NEW a \in Nat, NEW b \in Nat, Line(q, a, b)
  PROVE  \E c \in (a + 1)..b : Head(q) = Block(a, c) /\ Line(Tail(q), c, b)
<1> DEFINE n == Len(q)
           t == Tail(q)
<1>1. PICK cut \in [0..n -> a..b] :
        /\ cut[0] = a /\ cut[n] = b
        /\ \A i, j \in 0..n : i < j => cut[i] < cut[j]
        /\ \A k \in DOMAIN q : q[k] = Block(cut[k - 1], cut[k])
  BY DEF Line
<1>2. /\ n \in Nat \ {0} /\ DOMAIN q = 1..n /\ Head(q) = q[1]
      /\ Len(t) = n - 1 /\ DOMAIN t = 1..(n - 1)
      /\ \A i \in 1..(n - 1) : t[i] = q[i + 1]
  BY HeadAndTail
<1> DEFINE c == cut[1]
           cut2 == [i \in 0..(n - 1) |-> cut[i + 1]]
<1>3. c \in (a + 1)..b /\ Head(q) = Block(a, c)
  <2>1. 0 \in 0..n /\ 1 \in 0..n /\ 1 \in 1..n /\ 1 - 1 = 0
    BY <1>2
  <2>2. cut[0] < cut[1] /\ cut[1] \in a..b
    BY <1>1, <2>1
  <2> QED
    BY <1>1, <1>2, <2>1, <2>2
<1>4. \A i \in 0..(n - 1) : i + 1 \in 0..n /\ i + 1 \in 1..n /\ cut2[i] = cut[i + 1]
  BY <1>2
<1>5. cut2 \in [0..(n - 1) -> c..b]
  <2> SUFFICES ASSUME NEW i \in 0..(n - 1) PROVE cut[i + 1] \in c..b
    BY <1>4
  <2>1. i + 1 \in 0..n /\ 1 \in 0..n /\ (i + 1 = 1 \/ 1 < i + 1)
    BY <1>2
  <2>2. cut[i + 1] \in a..b /\ cut[1] \in a..b /\ (cut[i + 1] = cut[1] \/ cut[1] < cut[i + 1])
    BY <1>1, <2>1
  <2> QED
    BY <2>2
<1> HIDE DEF cut2
<1>6. cut2[0] = c /\ cut2[n - 1] = b
  BY <1>1, <1>2, <1>4
<1>7. \A i, j \in 0..(n - 1) : i < j => cut2[i] < cut2[j]
  <2> SUFFICES ASSUME NEW i \in 0..(n - 1), NEW j \in 0..(n - 1), i < j
               PROVE  cut2[i] < cut2[j]
    OBVIOUS
  <2>1. i + 1 < j + 1
    BY <1>2
  <2> QED
    BY <1>1, <1>4, <2>1
<1>8. \A k \in 1..(n - 1) : t[k] = Block(cut2[k - 1], cut2[k])
  <2> SUFFICES ASSUME NEW k \in 1..(n - 1) PROVE t[k] = Block(cut2[k - 1], cut2[k])
    OBVIOUS
  <2>1. k \in 0..(n - 1) /\ k - 1 \in 0..(n - 1) /\ (k - 1) + 1 = k /\ (k + 1) - 1 = k
    BY <1>2
  <2>2. cut2[k] = cut[k + 1] /\ cut2[k - 1] = cut[k]
    BY <1>4, <2>1
  <2>3. k + 1 \in DOMAIN q
    BY <1>2
  <2>4. q[k + 1] = Block(cut[k], cut[k + 1])
    BY <1>1, <2>1, <2>3
  <2> QED
    BY <1>2, <2>2, <2>4
<1> HIDE DEF t
<1>9. \E f \in [0..Len(t) -> c..b] :
        /\ f[0] = c /\ f[Len(t)] = b
        /\ \A i, j \in 0..Len(t) : i < j => f[i] < f[j]
        /\ \A k \in DOMAIN t : t[k] = Block(f[k - 1], f[k])
  BY <1>2, <1>5, <1>6, <1>7, <1>8
<1>10. Line(t, c, b)
  BY <1>9 DEF Line
<1> QED
  BY <1>3, <1>10 DEF t

(* What is left of a message: some of its elements, in their order.        *)
LEMMA ThinnedProperties ==
  ASSUME NEW S, NEW msg \in Seq(S), NEW good \in Thinned(msg)
  PROVE  /\ good \in Seq(S)
         /\ ToSet(good) \subseteq ToSet(msg)
         /\ S \subseteq Nat /\ (\A i, j \in DOMAIN msg : i < j => msg[i] < msg[j])
              => \A i, j \in DOMAIN good : i < j => good[i] < good[j]
<1>1. Len(msg) \in Nat /\ DOMAIN msg = 1..Len(msg)
  BY LenProperties
<1>0. PICK n \in 0..Len(msg) :
         good \in {[i \in 1..n |-> msg[at[i]]] : at \in Increasing(n, Len(msg))}
  BY DEF Thinned
<1>2. PICK at \in Increasing(n, Len(msg)) : good = [i \in 1..n |-> msg[at[i]]]
  BY <1>0
<1>3. /\ n \in Nat /\ at \in [1..n -> 1..Len(msg)]
      /\ \A i, j \in 1..n : i < j => at[i] < at[j]
  BY <1>1, <1>2 DEF Increasing
<1>4. DOMAIN good = 1..n /\ \A i \in 1..n : good[i] = msg[at[i]] /\ at[i] \in 1..Len(msg)
  BY <1>2, <1>3
<1>5. \A i \in 1..Len(msg) : msg[i] \in S
  BY ElementOfSeq
<1>6. good \in [1..n -> S]
  BY <1>2, <1>4, <1>5
<1>7. good \in Seq(S)
  BY <1>3, <1>6, SeqDef
<1>8. ToSet(good) \subseteq ToSet(msg)
  BY <1>1, <1>4 DEF ToSet
<1>9. ASSUME \A i, j \in DOMAIN msg : i < j => msg[i] < msg[j]
      PROVE  \A i, j \in DOMAIN good : i < j => good[i] < good[j]
  BY <1>1, <1>3, <1>4, <1>9
<1> QED
  BY <1>7, <1>8, <1>9

------------------------------------------------------------------------------
(* The steps *)

(* What the invariant says beyond the types.                               *)
Kept == PublishedIsTheBeginning /\ NothingIsLost /\ RawIsOther /\ InLine

LEMMA Initial == Init => IInv
<1> SUFFICES ASSUME Init PROVE IInv
  OBVIOUS
<1>1. /\ log = <<>> /\ Len(log) = 0 /\ 1..0 = {} /\ DOMAIN <<>> = {}
      /\ queue = <<>> /\ raw = <<>> /\ todo = <<>>
  BY EmptySeq DEF Init
<1>2. Published = {} /\ skipped = {} /\ ToSet(todo) = {} /\ Numbers = {}
      /\ \A s \in Symbols : out[s] = <<>>
  BY <1>1 DEF Init, Published, ToSet, Numbers
<1>3. TypeOK
  BY <1>1, EmptySeq DEF Init, TypeOK, Receiving, Stopped
<1>4. PublishedIsTheBeginning
  BY <1>1, <1>2 DEF PublishedIsTheBeginning, PublishedInOrder, NoGaps
<1>5. InLineAt(0, 0)
  BY <1>1, <1>2, LineEmpty DEF InLineAt
<1> QED
  BY <1>1, <1>2, <1>3, <1>4, <1>5 DEF IInv, NothingIsLost, RawIsOther, InLine

(* A step that touches neither the records nor the channels.               *)
LEMMA Quiet ==
  ASSUME IInv, UNCHANGED <<msgType, log, raw, queue, todo, out, skipped>>,
         Receiving' => Receiving
  PROVE  Kept'
<1>1. Published' = Published /\ Numbers' = Numbers
  BY DEF Published, Numbers
<1>2. PublishedIsTheBeginning'
  BY <1>1 DEF IInv, PublishedIsTheBeginning, PublishedInOrder, NoGaps
<1>3. NothingIsLost'
  BY <1>1 DEF IInv, NothingIsLost
<1>4. RawIsOther'
  BY DEF IInv, RawIsOther
<1>5. InLine'
  BY <1>1 DEF IInv, InLine, InLineAt
<1> QED
  BY <1>2, <1>3, <1>4, <1>5 DEF Kept

(* The writer stops: what is published and passed over is what it was.     *)
LEMMA Stopping ==
  ASSUME IInv, UNCHANGED <<msgType, log, raw, out, skipped>>, ~Receiving'
  PROVE  Kept'
<1>1. Published' = Published
  BY DEF Published
<1>2. PublishedIsTheBeginning'
  BY <1>1 DEF IInv, PublishedIsTheBeginning, PublishedInOrder, NoGaps
<1> QED
  BY <1>2 DEF Kept, IInv, NothingIsLost, RawIsOther, InLine

(* A step that moves messages but touches no record that is out.           *)
LEMMA OutAsBefore ==
  ASSUME IInv, UNCHANGED <<log, out, skipped>>
  PROVE  PublishedIsTheBeginning' /\ Published' = Published /\ Numbers' = Numbers
<1>1. Published' = Published /\ Numbers' = Numbers
  BY DEF Published, Numbers
<1> QED
  BY <1>1 DEF IInv, PublishedIsTheBeginning, PublishedInOrder, NoGaps

LEMMA StartKeeps == ASSUME IInv, Start PROVE IInv'
<1>1. Kept'
  BY Quiet DEF Start, sinks, Receiving
<1>2. TypeOK'
  BY DEF IInv, TypeOK, Start, sinks, Numbers, Receiving
<1> QED
  BY <1>1, <1>2 DEF IInv, Kept

LEMMA CrawlerEndsKeeps == ASSUME IInv, CrawlerEnds PROVE IInv'
<1>1. Kept'
  BY Quiet DEF CrawlerEnds, sinks, channels, Receiving
<1>2. TypeOK'
  BY DEF IInv, TypeOK, CrawlerEnds, sinks, channels, Numbers, Receiving
<1> QED
  BY <1>1, <1>2 DEF IInv, Kept

LEMMA WriterStartsKeeps == ASSUME IInv, WriterStarts PROVE IInv'
<1>1. Kept'
  BY Quiet DEF WriterStarts, sinks, channels, Receiving, Stopped
<1>2. TypeOK'
  BY DEF IInv, TypeOK, WriterStarts, sinks, channels, mains, Numbers, Receiving, Stopped
<1> QED
  BY <1>1, <1>2 DEF IInv, Kept

LEMMA GoneKeeps == ASSUME IInv, Gone PROVE IInv'
<1>1. Kept'
  BY Quiet DEF Gone, sinks, channels, Receiving
<1>2. TypeOK'
  BY DEF IInv, TypeOK, Gone, sinks, channels, Numbers, Receiving
<1> QED
  BY <1>1, <1>2 DEF IInv, Kept

LEMMA StutterKeeps == ASSUME IInv, UNCHANGED vars PROVE IInv'
<1>1. Kept'
  BY Quiet DEF vars, sinks, channels, mains, Receiving
<1>2. TypeOK'
  BY DEF IInv, TypeOK, vars, sinks, channels, mains, Numbers, Receiving
<1> QED
  BY <1>1, <1>2 DEF IInv, Kept

(* The types, when the writer stops.                                       *)
LEMMA StopTypes ==
  ASSUME IInv, NEW how \in Stopped, Stop(how),
         UNCHANGED <<msgType, mains, log, raw, conversion, sinks>>
  PROVE  IInv'
<1>1. ~Receiving'
  BY DEF Stop, Receiving
<1>2. Kept'
  BY <1>1, Stopping DEF sinks
<1>3. TypeOK'
  BY <1>1, EmptySeq DEF IInv, TypeOK, Stop, Stopped, mains, sinks, Numbers
<1> QED
  BY <1>2, <1>3 DEF IInv, Kept

LEMMA WriterEndsKeeps == ASSUME IInv, WriterEnds PROVE IInv'
  BY StopTypes DEF WriterEnds, Stopped

LEMMA DropWriterKeeps == ASSUME IInv, DropWriter PROVE IInv'
  BY StopTypes DEF DropWriter, Stopped

(* The writer takes a message: the next numbers.                           *)
LEMMA ReceiveKeeps == ASSUME IInv, Receive PROVE IInv'
<1>0. UNCHANGED <<msgType, mains, log, raw, conversion, sinks>> /\ queue # <<>> /\ writer = "recv"
  BY DEF Receive
<1>1. CASE Stop("unsupported")
  BY <1>0, <1>1, StopTypes DEF Stopped
<1>2. CASE writer' = "parse" /\ todo' = Head(queue) /\ queue' = Tail(queue)
  <2> DEFINE N == Len(log)
  <2>1. queue \in Seq(Seq(Numbers)) /\ N \in Nat /\ todo = <<>> /\ Receiving
    BY <1>0, LenProperties DEF IInv, TypeOK, Receiving, Stopped
  <2>2. Head(queue) \in Seq(Numbers) /\ Tail(queue) \in Seq(Seq(Numbers))
    BY <1>0, <2>1, HeadAndTail
  <2>3. /\ PublishedIsTheBeginning' /\ Published' = Published /\ Numbers' = Numbers
        /\ skipped' = skipped /\ raw' = raw /\ log' = log
    BY <1>0, OutAsBefore DEF sinks
  <2>4. Head(queue) # <<>>
    <3>1. PICK b \in 0..N : \E a \in 0..b : InLineAt(a, b)
      BY <2>1 DEF IInv, InLine
    <3>2. PICK a \in 0..b : InLineAt(a, b)
      BY <3>1
    <3>3. PICK c \in (a + 1)..b : Head(queue) = Block(a, c)
      BY <1>0, <2>1, <3>1, <3>2, LineTail DEF InLineAt
    <3>4. a \in Nat /\ c \in Nat /\ a < c
      BY <2>1, <3>1, <3>2, <3>3
    <3>5. Len(Block(a, c)) = c - a
      BY ONLY <3>4, BlockProperties
    <3>6. Len(Head(queue)) = c - a
      BY ONLY <3>3, <3>5
    <3> QED
      BY <3>4, <3>6, EmptySeq
  <2>5. TypeOK'
    BY <1>0, <1>2, <2>2, <2>4 DEF IInv, TypeOK, sinks, mains, Numbers, Receiving, Stopped
  <2>6. NothingIsLost'
    <3>1. Within(queue) = ToSet(Head(queue)) \cup Within(Tail(queue))
      BY <1>0, <2>1, WithinTail
    <3>2. ToSet(todo) = {}
      BY <2>1, Members, EmptySeq
    <3> QED
      BY <1>2, <2>1, <2>3, <3>1, <3>2 DEF IInv, NothingIsLost
  <2>7. RawIsOther'
    BY <1>0 DEF IInv, RawIsOther
  <2>8. InLine'
    <3>1. PICK b \in 0..N : \E a \in 0..b : InLineAt(a, b)
      BY <2>1 DEF IInv, InLine
    <3>2. PICK a \in 0..b : InLineAt(a, b)
      BY <3>1
    <3>3. PICK c \in (a + 1)..b : Head(queue) = Block(a, c) /\ Line(Tail(queue), c, b)
      BY <1>0, <2>1, <3>1, <3>2, LineTail DEF InLineAt
    <3>4. a \in Nat /\ c \in Nat /\ a <= c /\ c \in 0..b
      BY <2>1, <3>1, <3>2, <3>3
    <3>5. /\ ToSet(todo') = (a + 1)..c
          /\ DOMAIN todo' = 1..(c - a)
          /\ \A i \in DOMAIN todo' : todo'[i] = a + i
          /\ \A i, j \in DOMAIN todo' : i < j => todo'[i] < todo'[j]
      BY <1>2, <3>3, <3>4, BlockProperties DEF Block
    <3>6. Published \cup skipped = 1..a
      <4>1. ToSet(todo) = {}
        BY <2>1, Members, EmptySeq
      <4> QED
        BY <3>2, <4>1 DEF InLineAt
    <3>7. Published' \cup skipped' \cup ToSet(todo') = 1..c
      <4>1. 1..c = 1..a \cup (a + 1)..c
        BY <3>4
      <4> QED
        BY <2>3, <3>5, <3>6, <4>1
    <3>8. \A p \in Published', i \in DOMAIN todo' : p < todo'[i]
      BY <2>3, <3>4, <3>5, <3>6
    <3>9. InLineAt(c, b)'
      BY <1>2, <2>3, <3>2, <3>3, <3>5, <3>7, <3>8 DEF InLineAt
    <3> QED
      BY <2>3, <3>1, <3>4, <3>9 DEF InLine
  <2> QED
    BY <2>3, <2>6, <2>7, <2>8, <2>5 DEF IInv
<1> QED
  BY <1>1, <1>2 DEF Receive

(* The conversion thread hands a message on.                               *)
LEMMA ConvertKeeps == ASSUME IInv, Convert PROVE IInv'
<1>0. UNCHANGED <<msgType, mains, log, writer, todo, sinks>> /\ conversion = "run"
  BY DEF Convert
<1>1. CASE raw = <<>> /\ conversion' = "done" /\ UNCHANGED <<raw, queue>>
  <2>1. Kept'
    BY <1>0, <1>1, Quiet DEF sinks, Receiving
  <2>2. TypeOK'
    BY <1>0, <1>1 DEF IInv, TypeOK, sinks, mains, Numbers, Receiving
  <2> QED
    BY <2>1, <2>2 DEF IInv, Kept
<1>2. CASE ~Receiving /\ raw' = <<>> /\ conversion' = "done" /\ UNCHANGED queue
  <2>1. PublishedIsTheBeginning'
    BY <1>0, OutAsBefore DEF sinks
  <2>2. ~Receiving'
    BY <1>0, <1>2 DEF Receiving
  <2>3. TypeOK'
    BY <1>0, <1>2, EmptySeq DEF IInv, TypeOK, sinks, mains, Numbers, Receiving
  <2> QED
    BY <1>2, <2>1, <2>2, <2>3 DEF IInv, NothingIsLost, RawIsOther, InLine
<1>3. CASE raw # <<>> /\ Receiving /\ raw' = Tail(raw) /\ queue' = Append(queue, Head(raw))
           /\ UNCHANGED conversion
  <2> DEFINE N == Len(log)
  <2>1. /\ queue \in Seq(Seq(Numbers)) /\ raw \in Seq(Seq(Numbers)) /\ N \in Nat
        /\ Receiving /\ Receiving' /\ raw # <<>>
    BY <1>0, <1>3, LenProperties DEF IInv, TypeOK, Receiving
  <2>2. Head(raw) \in Seq(Numbers) /\ Tail(raw) \in Seq(Seq(Numbers))
    BY <2>1, HeadAndTail
  <2>3. Append(queue, Head(raw)) \in Seq(Seq(Numbers))
    BY <2>1, <2>2, Appended
  <2>4. /\ PublishedIsTheBeginning' /\ Published' = Published /\ Numbers' = Numbers
        /\ skipped' = skipped /\ todo' = todo /\ log' = log
    BY <1>0, OutAsBefore DEF sinks
  <2>5. TypeOK'
    BY <1>0, <1>3, <2>1, <2>2, <2>3 DEF IInv, TypeOK, sinks, mains, Numbers, Receiving
  <2>6. NothingIsLost'
    <3>1. Within(raw) = ToSet(Head(raw)) \cup Within(Tail(raw))
      BY <2>1, WithinTail
    <3>2. Within(Append(queue, Head(raw))) = Within(queue) \cup ToSet(Head(raw))
      BY <2>1, <2>2, WithinAppend
    <3> QED
      BY <1>3, <2>1, <2>4, <3>1, <3>2 DEF IInv, NothingIsLost
  <2>7. RawIsOther'
    BY <1>0, <1>3 DEF IInv, RawIsOther
  <2>8. InLine'
    <3>1. PICK b \in 0..N : \E a \in 0..b : InLineAt(a, b)
      BY <2>1 DEF IInv, InLine
    <3>2. PICK a \in 0..b : InLineAt(a, b)
      BY <3>1
    <3>3. PICK c \in (b + 1)..N : Head(raw) = Block(b, c) /\ Line(Tail(raw), c, N)
      BY <2>1, <3>1, <3>2, LineTail DEF InLineAt
    <3>4. a \in Nat /\ b \in Nat /\ c \in Nat /\ a <= b /\ b < c /\ c \in 0..N /\ a \in 0..c
      BY <2>1, <3>1, <3>2, <3>3
    <3>5. Line(Append(queue, Head(raw)), a, c)
      BY <2>1, <2>2, <3>2, <3>3, <3>4, LineAppend DEF InLineAt
    <3>6. InLineAt(a, c)'
      BY <1>3, <2>4, <3>2, <3>3, <3>5 DEF InLineAt
    <3> QED
      BY <2>4, <3>4, <3>6 DEF InLine
  <2> QED
    BY <2>4, <2>5, <2>6, <2>7, <2>8 DEF IInv
<1> QED
  BY <1>1, <1>2, <1>3 DEF Convert

(* The crawler has a message, with the next numbers.                       *)
LEMMA CrawlKeeps ==
  ASSUME IInv, NEW symbols \in BoundedSeq(Symbols, MaxRecs), Crawl(symbols)
  PROVE  IInv'
<1> DEFINE N == Len(log)
           M == N + Len(symbols)
           msg == Block(N, M)
<1>1. symbols \in Seq(Symbols) /\ Len(symbols) \in Nat \ {0} /\ DOMAIN symbols = 1..Len(symbols)
  <2>1. PICK n \in 0..MaxRecs : symbols \in [1..n -> Symbols]
    BY DEF BoundedSeq, SeqOf
  <2>2. n \in Nat
    BY <2>1, IntegrationAssumption
  <2>3. symbols \in Seq(Symbols)
    BY <2>1, <2>2, SeqDef
  <2> QED
    BY <2>3, LenProperties, EmptySeq DEF Crawl
<1>2. /\ log \in Seq(Symbols) /\ N \in Nat /\ M \in Nat /\ N < M /\ M - N = Len(symbols)
      /\ queue \in Seq(Seq(1..N)) /\ raw \in Seq(Seq(1..N)) /\ todo \in Seq(1..N)
      /\ out \in [Symbols -> Seq(1..N)] /\ skipped \subseteq 1..N
  BY <1>1, LenProperties DEF IInv, TypeOK, Numbers
<1>3. /\ log' = log \o symbols
      /\ IF msgType = "other" THEN raw' = Append(raw, msg) /\ UNCHANGED queue
         ELSE Receiving /\ queue' = Append(queue, msg) /\ UNCHANGED raw
      /\ UNCHANGED <<msgType, mains, conversion, writer, todo, sinks>>
  BY <1>1, <1>2 DEF Crawl, Block
<1>4. /\ log' \in Seq(Symbols) /\ Len(log') = M
      /\ \A i \in 1..N : log'[i] = log[i]
  BY <1>1, <1>2, <1>3, ConcatProperties
<1>5. /\ 1..N \subseteq 1..M
      /\ Seq(1..N) \subseteq Seq(1..M) /\ Seq(Seq(1..N)) \subseteq Seq(Seq(1..M))
  BY <1>2, SeqGrows
<1>6. /\ msg \in Seq(1..M) /\ ToSet(msg) = (N + 1)..M
  <2>1. msg \in Seq((N + 1)..M) /\ ToSet(msg) = (N + 1)..M
    BY <1>2, BlockProperties
  <2>2. (N + 1)..M \subseteq 1..M
    BY <1>2
  <2> QED
    BY <2>1, <2>2, SeqMonotonic
<1>7. queue \in Seq(Seq(1..M)) /\ raw \in Seq(Seq(1..M))
  BY <1>2, <1>5
<1>8. Append(queue, msg) \in Seq(Seq(1..M)) /\ Append(raw, msg) \in Seq(Seq(1..M))
  BY <1>6, <1>7, Appended
<1> HIDE DEF msg, M
<1>9. TypeOK'
  <2>1. queue' \in Seq(Seq(1..M)) /\ raw' \in Seq(Seq(1..M))
    BY <1>3, <1>7, <1>8
  <2>2. Numbers' = 1..M
    BY <1>4 DEF Numbers
  <2>3. todo \in Seq(1..M) /\ out \in [Symbols -> Seq(1..M)] /\ skipped \subseteq 1..M
    BY <1>2, <1>5
  <2>4. ~Receiving' => queue' = <<>>
    BY <1>3 DEF IInv, TypeOK, Receiving
  <2>5. /\ msgType \in MsgTypes
        /\ main \in {"start", "crawl", "leaving", "gone"}
        /\ crawler \in {"off", "run", "done"}
        /\ conversion \in {"none", "run", "done"}
        /\ writer \in {"new", "recv", "parse", "send"} \cup Stopped
        /\ todo # <<>> <=> writer \in {"parse", "send"}
        /\ sockets \in SUBSET Symbols
    BY DEF IInv, TypeOK
  <2>6. UNCHANGED <<msgType, main, crawler, conversion, writer, todo, sockets, out, skipped>>
    BY <1>3 DEF mains, sinks
  <2> QED
    BY <1>4, <2>1, <2>2, <2>3, <2>4, <2>5, <2>6 DEF TypeOK, Stopped
<1>10. Published' = Published /\ skipped' = skipped /\ todo' = todo /\ out' = out
  BY <1>3 DEF Published, sinks
<1>11. PublishedIsTheBeginning'
  <2>1. \A s \in Symbols : \A i \in DOMAIN out[s] : out[s][i] \in 1..N
    BY <1>2, LenProperties, ElementOfSeq
  <2> QED
    BY <1>4, <1>10, <2>1 DEF IInv, PublishedIsTheBeginning, PublishedInOrder, NoGaps
<1>12. Within(queue') \cup Within(raw') = Within(queue) \cup Within(raw) \cup (N + 1)..M
  <2>1. Within(Append(queue, msg)) = Within(queue) \cup (N + 1)..M
        /\ Within(Append(raw, msg)) = Within(raw) \cup (N + 1)..M
    <3> DEFINE T == Seq(1..M)
    <3>1. queue \in Seq(T) /\ raw \in Seq(T) /\ msg \in T
      BY <1>6, <1>7
    <3> HIDE DEF T
    <3>2. Within(Append(queue, msg)) = Within(queue) \cup ToSet(msg)
      BY ONLY <3>1, WithinAppend
    <3>3. Within(Append(raw, msg)) = Within(raw) \cup ToSet(msg)
      BY ONLY <3>1, WithinAppend
    <3> QED
      BY <1>6, <3>2, <3>3
  <2>2. \/ raw' = Append(raw, msg) /\ queue' = queue
        \/ queue' = Append(queue, msg) /\ raw' = raw
    BY <1>3
  <2> HIDE DEF N
  <2> QED
    BY ONLY <2>1, <2>2
<1>13. NothingIsLost'
  <2> SUFFICES ASSUME Receiving
               PROVE  1..M \subseteq Published \cup skipped \cup ToSet(todo)
                                     \cup Within(queue') \cup Within(raw')
    BY <1>3, <1>4, <1>10 DEF NothingIsLost, Receiving, Numbers
  <2>1. 1..N \subseteq Published \cup skipped \cup ToSet(todo) \cup Within(queue) \cup Within(raw)
    BY DEF IInv, NothingIsLost, Numbers
  <2>2. 1..M = 1..N \cup (N + 1)..M
    BY <1>2 DEF M
  <2> QED
    BY <1>12, <2>1, <2>2
<1>14. RawIsOther'
  BY <1>3 DEF IInv, RawIsOther
<1>15. InLine'
  <2> SUFFICES ASSUME Receiving
               PROVE  \E b \in 0..M : \E a \in 0..b : InLineAt(a, b)'
    BY <1>3, <1>4 DEF InLine, Receiving
  <2>1. PICK b \in 0..N : \E a \in 0..b : InLineAt(a, b)
    BY DEF IInv, InLine
  <2>2. PICK a \in 0..b : InLineAt(a, b)
    BY <2>1
  <2>3. a \in Nat /\ b \in Nat /\ a <= b /\ b <= N /\ N \in 0..M /\ M \in 0..M /\ b \in 0..M /\ a \in 0..M
    BY <1>2, <2>1, <2>2 DEF M
  <2>4. Line(queue, a, b) /\ Line(raw, b, N)
    BY <2>2 DEF InLineAt
  <2>5. CASE msgType = "other"
    <3>1. Line(Append(raw, msg), b, M)
      BY <1>2, <1>6, <1>7, <2>3, <2>4, LineAppend DEF msg
    <3>2. InLineAt(a, b)'
      BY <1>3, <1>4, <1>10, <2>2, <2>5, <3>1 DEF InLineAt
    <3> QED
      BY <2>3, <3>2
  <2>6. CASE msgType # "other"
    <3>1. raw = <<>> /\ b = N
      BY <1>2, <2>3, <2>4, <2>6, LineEmpty DEF IInv, RawIsOther
    <3>2. Line(Append(queue, msg), a, M)
      BY <1>2, <1>6, <1>7, <2>3, <2>4, <3>1, LineAppend DEF msg
    <3>3. Line(raw, M, M)
      BY <1>2, <3>1, LineEmpty
    <3>4. PICK m \in 0..M : m = M
      BY <2>3
    <3>5. InLineAt(a, m)'
      BY <1>3, <1>4, <1>10, <2>2, <2>6, <3>2, <3>3, <3>4 DEF InLineAt
    <3>6. a \in 0..m
      BY <2>3, <3>4
    <3> QED
      BY <3>5, <3>6
  <2> QED
    BY <2>5, <2>6
<1> QED
  BY <1>9, <1>11, <1>13, <1>14, <1>15 DEF IInv

(* What parses and converts stays in its order.                            *)
LEMMA ParseKeeps == ASSUME IInv, Parse PROVE IInv'
<1>0. /\ UNCHANGED <<msgType, mains, log, raw, conversion, sockets, out>>
      /\ writer = "parse" /\ Receiving /\ todo \in Seq(Numbers) /\ Len(log) \in Nat
      /\ Numbers \subseteq Nat
  BY LenProperties DEF Parse, Receiving, Stopped, IInv, TypeOK, Numbers
<1>1. CASE Stop("panicked") /\ UNCHANGED skipped
  BY <1>0, <1>1, StopTypes DEF Stopped, sinks
<1>2. ASSUME NEW good \in IF msgType = "bbo" THEN Thinned(<<todo[1]>>) ELSE Thinned(todo),
             todo' = good,
             skipped' = skipped \cup (ToSet(todo) \ ToSet(good)),
             writer' = IF good = <<>> THEN "recv" ELSE "send",
             UNCHANGED queue
      PROVE  IInv'
  <2>1. /\ good \in Seq(Numbers) /\ ToSet(good) \subseteq ToSet(todo)
        /\ (\A i, j \in DOMAIN todo : i < j => todo[i] < todo[j])
             => \A i, j \in DOMAIN good : i < j => good[i] < good[j]
    <3>1. CASE msgType # "bbo"
      <4>1. good \in Thinned(todo)
        BY <1>2, <3>1
      <4> QED
        BY <1>0, <4>1, ThinnedProperties
    <3>2. CASE msgType = "bbo"
      <4> DEFINE first == <<todo[1]>>
      <4>1. good \in Thinned(first)
        BY <1>2, <3>2
      <4>2. todo # <<>>
        BY <1>0 DEF IInv, TypeOK
      <4>3. todo[1] \in Numbers /\ todo[1] \in ToSet(todo)
        BY <1>0, <4>2, HeadAndTail DEF ToSet
      <4>4. first \in Seq(Numbers) /\ DOMAIN first = 1..1 /\ first[1] = todo[1] /\ 1..1 = {1}
        BY <4>3
      <4>5. ToSet(first) \subseteq ToSet(todo)
            /\ \A i, j \in DOMAIN first : i < j => first[i] < first[j]
        BY <4>3, <4>4 DEF ToSet
      <4> HIDE DEF first
      <4> QED
        BY <1>0, <4>1, <4>4, <4>5, ThinnedProperties
    <3> QED
      BY <3>1, <3>2
  <2>2. Published' = Published /\ Numbers' = Numbers /\ log' = log /\ out' = out /\ raw' = raw
        /\ Published \cup skipped \cup ToSet(todo)
             = Published' \cup skipped' \cup ToSet(todo')
        /\ skipped \subseteq skipped' /\ skipped' \subseteq Numbers
    <3>1. Published' = Published /\ Numbers' = Numbers
      BY <1>0 DEF Published, Numbers
    <3>2. ToSet(todo) \subseteq Numbers /\ skipped \subseteq Numbers
      BY <1>0, Members DEF IInv, TypeOK
    <3> QED
      BY <1>0, <1>2, <2>1, <3>1, <3>2
  <2>3. Receiving'
    BY <1>2 DEF Receiving, Stopped
  <2>4. TypeOK'
    <3>1. todo' # <<>> <=> writer' \in {"parse", "send"}
      BY <1>2
    <3>2. todo' \in Seq(Numbers') /\ skipped' \subseteq Numbers'
      BY <1>2, <2>1, <2>2
    <3>3. writer' \in {"recv", "send"}
      BY <1>2
    <3> QED
      BY <1>0, <1>2, <2>2, <2>3, <3>1, <3>2, <3>3 DEF IInv, TypeOK, mains
  <2>5. PublishedIsTheBeginning'
    BY <1>0, <2>2 DEF IInv, PublishedIsTheBeginning, PublishedInOrder, NoGaps
  <2>6. NothingIsLost'
    BY <1>0, <1>2, <2>2 DEF IInv, NothingIsLost
  <2>7. RawIsOther'
    BY <1>0 DEF IInv, RawIsOther
  <2>8. InLine'
    <3>1. PICK b \in 0..Len(log) : \E a \in 0..b : InLineAt(a, b)
      BY <1>0 DEF IInv, InLine
    <3>2. PICK a \in 0..b : InLineAt(a, b)
      BY <3>1
    <3>3. \A p \in Published, x \in ToSet(todo) : p < x
      BY <3>2 DEF InLineAt, ToSet
    <3>4. \A p \in Published', i \in DOMAIN todo' : p < todo'[i]
      BY <1>2, <2>1, <2>2, <3>3 DEF ToSet
    <3>5. InLineAt(a, b)'
      BY <1>2, <2>1, <2>2, <3>2, <3>4 DEF InLineAt
    <3> QED
      BY <2>2, <3>5 DEF InLine
  <2> QED
    BY <2>4, <2>5, <2>6, <2>7, <2>8 DEF IInv
<1> QED
  BY <1>1, <1>2 DEF Parse

(* A record goes out, later than all that are out, or it is passed over.   *)
LEMMA PublishKeeps == ASSUME IInv, Publish PROVE IInv'
<1> DEFINE i == Head(todo)
           s == log[i]
<1>0. /\ UNCHANGED <<msgType, mains, log, raw, conversion>>
      /\ writer = "send" /\ Receiving /\ todo \in Seq(Numbers) /\ todo # <<>>
      /\ log \in Seq(Symbols) /\ Len(log) \in Nat
  BY LenProperties DEF Publish, Receiving, Stopped, IInv, TypeOK
<1>1. CASE CreateFails(s)
  BY <1>0, <1>1, StopTypes DEF CreateFails, Stopped
<1>2. CASE /\ sockets' = sockets \cup {s}
           /\ \/ out' = [out EXCEPT ![s] = Append(@, i)] /\ UNCHANGED skipped
              \/ skipped' = skipped \cup {i} /\ UNCHANGED out
           /\ todo' = Tail(todo)
           /\ writer' = IF Tail(todo) = <<>> THEN "recv" ELSE "send"
           /\ UNCHANGED queue
  <2>1. /\ i \in Numbers /\ Tail(todo) \in Seq(Numbers) /\ i = todo[1]
        /\ DOMAIN todo = 1..Len(todo) /\ Len(todo) \in Nat \ {0}
        /\ DOMAIN Tail(todo) = 1..(Len(todo) - 1)
        /\ \A k \in 1..(Len(todo) - 1) : Tail(todo)[k] = todo[k + 1]
        /\ ToSet(todo) = {i} \cup ToSet(Tail(todo))
    BY <1>0, HeadAndTail
  <2>2. s \in Symbols
    BY <1>0, <2>1, ElementOfSeq DEF Numbers
  <2>3. /\ Numbers' = Numbers /\ log' = log /\ raw' = raw /\ queue' = queue
        /\ out \in [Symbols -> Seq(Numbers)] /\ skipped \subseteq Numbers
    BY <1>0, <1>2 DEF Numbers, IInv, TypeOK
  <2> HIDE DEF i, s
  <2>4. /\ Append(out[s], i) \in Seq(Numbers)
        /\ DOMAIN out[s] = 1..Len(out[s]) /\ Len(out[s]) \in Nat
        /\ DOMAIN Append(out[s], i) = 1..(Len(out[s]) + 1)
        /\ \A k \in 1..Len(out[s]) : Append(out[s], i)[k] = out[s][k]
        /\ Append(out[s], i)[Len(out[s]) + 1] = i
        /\ ToSet(Append(out[s], i)) = ToSet(out[s]) \cup {i}
    BY <2>1, <2>2, <2>3, Appended
  <2>5. \/ out' = [out EXCEPT ![s] = Append(out[s], i)]
           /\ Published' = Published \cup {i} /\ skipped' = skipped
        \/ out' = out /\ Published' = Published /\ skipped' = skipped \cup {i}
    <3>1. CASE out' = [out EXCEPT ![s] = Append(out[s], i)] /\ UNCHANGED skipped
      <4>1. \A t \in Symbols : ToSet(out'[t]) = ToSet(out[t]) \cup (IF t = s THEN {i} ELSE {})
        BY <2>3, <2>4, <3>1
      <4>2. Published' = Published \cup {i}
        BY <2>2, <4>1 DEF Published
      <4> QED
        BY <3>1, <4>2
    <3>2. CASE skipped' = skipped \cup {i} /\ UNCHANGED out
      BY <3>2 DEF Published
    <3> QED
      BY <1>2, <3>1, <3>2
  <2>6. Published' \cup skipped' \cup ToSet(todo') = Published \cup skipped \cup ToSet(todo)
        /\ Published \cup skipped \subseteq Published' \cup skipped'
    BY <1>2, <2>1, <2>5
  <2>7. Receiving'
    BY <1>2 DEF Receiving, Stopped
  <2>8. TypeOK'
    <3>1. out' \in [Symbols -> Seq(Numbers')]
      BY <2>3, <2>4, <2>5
    <3>2. skipped' \in SUBSET Numbers'
      BY <2>1, <2>3, <2>5
    <3>3. todo' \in Seq(Numbers') /\ (todo' # <<>> <=> writer' \in {"parse", "send"})
          /\ writer' \in {"recv", "send"}
      BY <1>2, <2>1, <2>3
    <3>4. sockets' \in SUBSET Symbols
      BY <1>2, <2>2 DEF IInv, TypeOK
    <3> QED
      BY <1>0, <2>3, <2>7, <3>1, <3>2, <3>3, <3>4 DEF IInv, TypeOK, mains
  <2>9. PICK b \in 0..Len(log) : \E a \in 0..b : InLineAt(a, b)
    BY <1>0 DEF IInv, InLine
  <2>10. PICK a \in 0..b : InLineAt(a, b)
    BY <2>9
  <2>11. /\ \A p \in Published : p < i
         /\ \A k \in DOMAIN todo' : i < todo'[k]
         /\ \A j, k \in DOMAIN todo' : j < k => todo'[j] < todo'[k]
         /\ \A p \in Published, k \in DOMAIN todo' : p < todo'[k]
    <3>1. \A k \in 1..(Len(todo) - 1) : todo'[k] = todo[k + 1] /\ k + 1 \in DOMAIN todo /\ 1 < k + 1
      BY <1>2, <2>1
    <3>2. DOMAIN todo' = 1..(Len(todo) - 1) /\ 1 \in DOMAIN todo
      BY <1>2, <2>1
    <3>3. \A j, k \in 1..(Len(todo) - 1) : j < k => j + 1 < k + 1
      OBVIOUS
    <3> QED
      BY <2>1, <2>10, <3>1, <3>2, <3>3 DEF InLineAt
  <2>12. InLine'
    <3>1. \A p \in Published', k \in DOMAIN todo' : p < todo'[k]
      BY <2>5, <2>11
    <3>2. InLineAt(a, b)'
      BY <2>3, <2>6, <2>10, <2>11, <3>1 DEF InLineAt
    <3> QED
      BY <2>3, <3>2 DEF InLine
  <2>13. PublishedInOrder'
    <3> SUFFICES ASSUME NEW t \in Symbols
                 PROVE  /\ \A k \in DOMAIN out'[t] : log[out'[t][k]] = t
                        /\ \A j, k \in DOMAIN out'[t] : j < k => out'[t][j] < out'[t][k]
      BY <2>3 DEF PublishedInOrder
    <3>1. /\ \A k \in DOMAIN out[t] : log[out[t][k]] = t
          /\ \A j, k \in DOMAIN out[t] : j < k => out[t][j] < out[t][k]
      BY DEF IInv, PublishedIsTheBeginning, PublishedInOrder
    <3>2. CASE out'[t] = out[t]
      BY <3>1, <3>2
    <3>3. CASE t = s /\ out'[t] = Append(out[s], i)
      <4>1. \A k \in 1..Len(out[s]) : out[s][k] \in Published
        BY <2>2, <2>4 DEF Published, ToSet
      <4>2. DOMAIN out'[t] = 1..Len(out[s]) \cup {Len(out[s]) + 1}
        BY <2>4, <3>3
      <4>3. log[i] = t
        BY <3>3 DEF s
      <4>4. \A k \in DOMAIN out'[t] : log[out'[t][k]] = t
        BY <2>4, <3>1, <3>3, <4>2, <4>3
      <4>5. \A j, k \in DOMAIN out'[t] : j < k => out'[t][j] < out'[t][k]
        <5> SUFFICES ASSUME NEW j \in DOMAIN out'[t], NEW k \in DOMAIN out'[t], j < k
                     PROVE  out'[t][j] < out'[t][k]
          OBVIOUS
        <5>1. j \in 1..Len(out[s]) /\ out'[t][j] = out[s][j]
          BY <2>4, <3>3, <4>2
        <5>2. CASE k = Len(out[s]) + 1
          BY <2>4, <2>11, <3>3, <4>1, <5>1, <5>2
        <5>3. CASE k \in 1..Len(out[s])
          BY <2>4, <3>1, <3>3, <5>1, <5>3
        <5> QED
          BY <4>2, <5>2, <5>3
      <4> QED
        BY <4>4, <4>5
    <3> QED
      BY <2>3, <2>5, <3>2, <3>3
  <2>14. NoGaps'
    <3> SUFFICES ASSUME NEW j \in Published', NEW k \in 1..j
                 PROVE  k \in Published' \cup skipped'
      BY DEF NoGaps
    <3>1. CASE j \in Published
      BY <2>6, <3>1 DEF IInv, PublishedIsTheBeginning, NoGaps
    <3>2. CASE j = i
      <4>1. i \in 1..a
        BY <2>1, <2>10 DEF InLineAt
      <4>2. k \in Published \cup skipped \cup ToSet(todo)
        BY <2>9, <2>10, <3>2, <4>1 DEF InLineAt
      <4>3. \A x \in ToSet(todo') : i < x
        BY <2>11 DEF ToSet
      <4>4. k \notin ToSet(todo')
        BY <1>0, <2>1, <3>2, <4>1, <4>3
      <4> QED
        BY <1>2, <2>1, <2>5, <2>6, <4>2, <4>4
    <3> QED
      BY <2>5, <3>1, <3>2
  <2>15. NothingIsLost'
    BY <1>0, <2>3, <2>6 DEF IInv, NothingIsLost
  <2>16. RawIsOther'
    BY <1>0 DEF IInv, RawIsOther
  <2> QED
    BY <2>8, <2>12, <2>13, <2>14, <2>15, <2>16 DEF IInv, PublishedIsTheBeginning
<1> QED
  BY <1>1, <1>2 DEF Publish

------------------------------------------------------------------------------
(* Theorems *)

(* IInv holds of every reachable state.                                    *)
THEOREM Inductive == Spec => []IInv
<1>1. IInv /\ [Next]_vars => IInv'
  BY StartKeeps, CrawlKeeps, CrawlerEndsKeeps, ConvertKeeps, WriterStartsKeeps, ReceiveKeeps,
     ParseKeeps, PublishKeeps, WriterEndsKeeps, DropWriterKeeps, GoneKeeps, StutterKeeps DEF Next
<1> QED
  BY Initial, <1>1, PTL DEF Spec

(* The types of the pipeline; the writer has records in hand exactly while it
   parses or publishes, and the channel of a stopped writer is empty.      *)
THEOREM TypeCorrect == Spec => []TypeOK
<1>1. IInv => TypeOK
  BY DEF IInv
<1> QED
  BY Inductive, <1>1, PTL

(* At any moment, a listener to all symbols has the beginning of what was
   crawled, but for the records that were passed over: on each symbol its own,
   each once and in order, and none missing before a later one.            *)
THEOREM ListenersHaveTheBeginning == Spec => []PublishedIsTheBeginning
<1>1. IInv => PublishedIsTheBeginning
  BY DEF IInv
<1> QED
  BY Inductive, <1>1, PTL

(* Until the writer stops every record is somewhere on its way, also when the
   crawler has ended and main() leaves.                                    *)
THEOREM OnTheWay == Spec => []NothingIsLost
<1>1. IInv => NothingIsLost
  BY DEF IInv
<1> QED
  BY Inductive, <1>1, PTL

==================================================================================
