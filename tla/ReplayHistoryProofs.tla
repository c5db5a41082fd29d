-------------------------- MODULE ReplayHistoryProofs --------------------------
(***************************************************************************)
(* Proofs about ReplayHistory: TypeOK, DaysAdjoin, EachArgumentEnds and     *)
(* RefusedGetsNothing, for every outbox, file set and number of tasks.     *)
(***************************************************************************)
EXTENDS ReplayHistory, SequenceTheorems, TLAPS

(* The sequence of messages after one more of them.                        *)
LEMMA Appended ==
  ASSUME NEW S, NEW s \in Seq(S), NEW e \in S
  PROVE  /\ Append(s, e) \in Seq(S)
         /\ Append(s, e) # <<>>
         /\ DOMAIN Append(s, e) = 1..(Len(s) + 1)
         /\ DOMAIN s = 1..Len(s)
         /\ Len(s) \in Nat
         /\ Last(Append(s, e)) = e
         /\ Append(s, e)[Len(s) + 1] = e
         /\ \A i \in 1..Len(s) : Append(s, e)[i] = s[i]
  BY DEF Last

(* What the answers of a task are.                                         *)
LEMMA AnswerTypes ==
  ASSUME NEW s \in Seq(Answers), NEW i \in DOMAIN s
  PROVE  /\ s[i].arg \in Nat /\ s[i].day \in Nat
         /\ s[i].kind \in {"file", "missing"}
         /\ s[i].kind = "file" => s[i].date \in Int
<1>1. s[i] \in Answers
  OBVIOUS
<1>2. CASE s[i] \in [kind : {"file"}, arg : Nat, day : Nat, date : Int]
  BY <1>2
<1>3. CASE s[i] \in [kind : {"missing"}, arg : Nat, day : Nat]
  BY <1>3
<1> QED
  BY <1>1, <1>2, <1>3 DEF Answers

(* A task that serves nothing keeps what is said of its answers.           *)
LEMMA ServesNothing ==
  ASSUME NEW t \in Tasks, DayByDay(t), NoneTwice(t), AllEnded(t),
         cmd[t]' = cmd[t], arg[t]' = arg[t], served[t]' = served[t]
  PROVE  DayByDay(t)' /\ NoneTwice(t)' /\ AllEnded(t)'
<1>1. DayByDay(t)'
  BY DEF DayByDay
<1>2. NoneTwice(t)'
  BY DEF NoneTwice, OpenedOn
<1>3. AllEnded(t)'
  BY DEF AllEnded, Ended, Refused
<1> QED
  BY <1>1, <1>2, <1>3

(* A task that stands still keeps its part of the invariant.               *)
LEMMA StandsStill ==
  ASSUME NEW t \in Tasks, Local(t),
         task[t]' = task[t], cmd[t]' = cmd[t], arg[t]' = arg[t],
         day[t]' = day[t], served[t]' = served[t]
  PROVE  Local(t)'
<1>1. Standing(t)'
  BY DEF Local, Standing, Refused
<1>2. Following(t)'
  BY DEF Local, Following, Refused
<1> QED
  BY <1>1, <1>2, ServesNothing DEF Local

(* The answer to the day a task is at follows those before it.             *)
LEMMA AnswerFollows ==
  ASSUME NEW t \in Tasks, TypeOK, Local(t), NEW m \in Answers,
         task[t] \in {"open", "missing"}, ~Refused(t),
         m \in {FileOf(t), MissingOf(t)},
         served[t]' = Append(served[t], m), cmd[t]' = cmd[t]
  PROVE  DayByDay(t)'
<1> DEFINE s == served[t]
<1>1. s \in Seq(Answers) /\ arg[t] \in Nat /\ day[t] \in Nat
  BY DEF TypeOK
<1>2. PICK q : q = Append(s, m)
  OBVIOUS
<1>3. /\ DOMAIN q = 1..(Len(s) + 1) /\ DOMAIN s = 1..Len(s) /\ Len(s) \in Nat
      /\ q[Len(s) + 1] = m
      /\ \A i \in 1..Len(s) : q[i] = s[i]
  BY <1>1, <1>2, Appended
<1>4. served[t]' = q /\ cmd'[t] = cmd[t]
  BY <1>2
<1>5. m.arg = arg[t] /\ m.day = day[t]
  BY DEF FileOf, MissingOf
<1>6. SUFFICES ASSUME NEW i \in 1..(Len(s) + 1)
               PROVE  IF i = 1 \/ q[i - 1].arg # q[i].arg
                      THEN q[i].day = cmd[t].start /\ (i > 1 => q[i].arg = q[i - 1].arg + 1)
                      ELSE /\ q[i - 1].kind = "file"
                           /\ q[i].day \in {q[i - 1].day - 1, q[i - 1].day + 1}
  <2>1. \A i \in DOMAIN q : IF i = 1 \/ q[i - 1].arg # q[i].arg
                      THEN q[i].day = cmd[t].start /\ (i > 1 => q[i].arg = q[i - 1].arg + 1)
                      ELSE /\ q[i - 1].kind = "file"
                           /\ q[i].day \in {q[i - 1].day - 1, q[i - 1].day + 1}
    BY <1>3
  <2> QED
    BY <2>1, <1>4 DEF DayByDay
<1>7. CASE i <= Len(s)
  <2>1. q[i] = s[i] /\ (i > 1 => q[i - 1] = s[i - 1]) /\ i \in DOMAIN s
    BY <1>3, <1>7
  <2> QED
    BY <2>1, <1>3 DEF Local, DayByDay
<1>8. CASE i = Len(s) + 1
  <2>1. q[i] = m
    BY <1>3, <1>8
  <2>2. CASE s = <<>>
    BY <2>1, <2>2, <1>5, <1>8 DEF Local, Following
  <2>3. CASE s # <<>>
    <3>1. i > 1 /\ q[i - 1] = Last(s) /\ Len(s) \in DOMAIN s /\ Last(s) = s[Len(s)]
      BY <1>1, <1>3, <1>8, <2>3 DEF Last
    <3>2. CASE Last(s).arg = arg[t]
      <4>1. Last(s).kind = "file" /\ day[t] = Last(s).day + 1
        BY <2>3, <3>1, <3>2 DEF Local, Following
      <4> QED
        BY <4>1, <3>1, <3>2, <2>1, <1>5
    <3>3. CASE Last(s).arg # arg[t]
      <4>1. arg[t] = Last(s).arg + 1 /\ day[t] = cmd[t].start
        BY <2>3, <3>3 DEF Local, Following
      <4> QED
        BY <4>1, <3>1, <3>3, <2>1, <1>5
    <3> QED
      BY <3>2, <3>3
  <2> QED
    BY <2>2, <2>3
<1> QED
  BY <1>7, <1>8, <1>3

(* It is for a day the argument has not had, and a file that it has had was
   opened before midnight.                                                 *)
LEMMA AnswerIsNew ==
  ASSUME NEW t \in Tasks, TypeOK, Local(t), NEW m \in Answers,
         task[t] \in {"open", "missing"},
         m \in {FileOf(t), MissingOf(t)},
         served[t]' = Append(served[t], m)
  PROVE  NoneTwice(t)'
<1> DEFINE s == served[t]
<1>1. s \in Seq(Answers) /\ arg[t] \in Nat /\ day[t] \in Nat
  BY DEF TypeOK
<1>2. PICK q : q = Append(s, m)
  OBVIOUS
<1>3. /\ DOMAIN q = 1..(Len(s) + 1) /\ DOMAIN s = 1..Len(s) /\ Len(s) \in Nat
      /\ q[Len(s) + 1] = m /\ q \in Seq(Answers)
      /\ \A i \in 1..Len(s) : q[i] = s[i]
  BY <1>1, <1>2, Appended
<1>4. served[t]' = q
  BY <1>2
<1>5. m.arg = arg[t] /\ m.day = day[t]
  BY DEF FileOf, MissingOf
<1>6. SUFFICES ASSUME NEW i \in DOMAIN q, NEW j \in DOMAIN q, i < j, q[i].arg = q[j].arg
               PROVE  /\ q[i].day # q[j].day
                      /\ q[i].kind = "file" /\ q[j].kind = "file" /\ q[i].date = q[j].date
                           => q[i].date + q[i].day < q[j].date + q[j].day
  <2>1. \A i, j \in DOMAIN q :
          i < j /\ q[i].arg = q[j].arg =>
            /\ q[i].day # q[j].day
            /\ q[i].kind = "file" /\ q[j].kind = "file" /\ q[i].date = q[j].date
                 => q[i].date + q[i].day < q[j].date + q[j].day
    BY <1>6
  <2> QED
    BY <2>1, <1>4 DEF NoneTwice, OpenedOn
<1>7. i \in DOMAIN s /\ q[i] = s[i]
  BY <1>3, <1>6
<1>8. CASE j <= Len(s)
  <2>1. j \in DOMAIN s /\ q[j] = s[j]
    BY <1>3, <1>8
  <2> QED
    BY <1>6, <1>7, <2>1 DEF Local, NoneTwice, OpenedOn
<1>9. CASE j = Len(s) + 1
  <2>1. q[j] = m
    BY <1>3, <1>9
  <2>2. q[i].day < q[j].day
    BY <1>5, <1>6, <1>7, <2>1 DEF Local, Following
  <2>3. q[i].day \in Nat /\ q[j].day \in Nat /\ (q[i].kind = "file" => q[i].date \in Int)
    BY <1>3, AnswerTypes
  <2> QED
    BY <2>2, <2>3
<1> QED
  BY <1>3, <1>8, <1>9

(* What a further answer leaves of the arguments a task is done with.      *)
LEMMA AnswerKeepsEnded ==
  ASSUME NEW t \in Tasks, TypeOK, NEW m \in Answers, NEW k \in Nat, Ended(t, k),
         served[t]' = Append(served[t], m), cmd[t]' = cmd[t]
  PROVE  Ended(t, k)'
<1> DEFINE s == served[t]
<1>1. s \in Seq(Answers)
  BY DEF TypeOK
<1>2. PICK q : q = Append(s, m)
  OBVIOUS
<1>3. /\ DOMAIN q = 1..(Len(s) + 1) /\ DOMAIN s = 1..Len(s) /\ Len(s) \in Nat
      /\ \A i \in 1..Len(s) : q[i] = s[i]
  BY <1>1, <1>2, Appended
<1>4. served[t]' = q /\ cmd'[t] = cmd[t]
  BY <1>2
<1>5. \A i \in DOMAIN s : i \in DOMAIN q /\ q[i] = s[i]
  BY <1>3
<1>6. \/ \E i \in DOMAIN q : q[i].arg = k /\ q[i].kind = "missing"
      \/ \A d \in cmd[t].end..cmd[t].start :
           \E i \in DOMAIN q : q[i].arg = k /\ q[i].kind = "file" /\ q[i].day = d
  <2>1. CASE \E i \in DOMAIN s : s[i].arg = k /\ s[i].kind = "missing"
    BY <2>1, <1>5
  <2>2. CASE \A d \in cmd[t].end..cmd[t].start :
               \E i \in DOMAIN s : s[i].arg = k /\ s[i].kind = "file" /\ s[i].day = d
    BY <2>2, <1>5
  <2> QED
    BY <2>1, <2>2 DEF Ended
<1> QED
  BY <1>4, <1>6 DEF Ended

(* A task that is on a day of a range it was not refused.                  *)
LEMMA OnADay ==
  ASSUME NEW t \in Tasks, TypeOK, Local(t), InRange(t)
  PROVE  ~Refused(t)
BY DEF TypeOK, Days, Local, Standing, Refused, InRange

(* A record: nothing the invariant speaks of changes.                      *)
LEMMA RecordKeepsLocal ==
  ASSUME NEW t \in Tasks, Local(t), SendRecord(t)
  PROVE  Local(t)'
BY StandsStill DEF SendRecord

(* The end of a file: the task stays at its argument, for the next day.    *)
LEMMA EndOfFileKeepsLocal ==
  ASSUME NEW t \in Tasks, TypeOK, Local(t), EndOfFile(t)
  PROVE  Local(t)'
<1>1. /\ task[t] = "read" /\ task[t]' = "open" /\ day[t]' = day[t] + 1
      /\ cmd' = cmd /\ arg' = arg /\ served' = served
  BY DEF EndOfFile, TypeOK
<1>2. /\ day[t] \in Nat /\ cmd[t].start \in Nat /\ served[t] \in Seq(Answers)
  BY DEF TypeOK, Days
<1>3. Standing(t)'
  BY <1>1, <1>2 DEF Local, Standing, Refused
<1>4. Following(t)'
  <2>1. \A i \in DOMAIN served[t] :
          served[t][i].arg = arg[t] => served[t][i].day <= day[t] + 1 /\ served[t][i].day < day[t] + 1
    BY <1>2, AnswerTypes DEF Local, Following
  <2>2. served[t] # <<>> /\ Last(served[t]).arg = arg[t] /\ day[t] = Last(served[t]).day
    BY <1>1 DEF Local, Following
  <2> QED
    BY <1>1, <2>1, <2>2 DEF Local, Following
<1> QED
  BY <1>1, <1>3, <1>4, ServesNothing DEF Local

(* A missing day: the task goes to its next argument.                      *)
LEMMA MissingKeepsLocal ==
  ASSUME NEW t \in Tasks, TypeOK, Local(t), SendMissing(t)
  PROVE  Local(t)'
<1> DEFINE s == served[t]
           m == MissingOf(t)
<1>1. /\ s \in Seq(Answers) /\ arg[t] \in Nat /\ day[t] \in Nat /\ cmd[t].start \in Nat
  BY DEF TypeOK, Days
<1>2. m \in Answers
  BY <1>1 DEF MissingOf, Answers
<1>3. /\ task[t] = "missing" /\ cmd' = cmd /\ served[t]' = Append(s, m)
      /\ task[t]' = "open" /\ arg[t]' = arg[t] + 1 /\ day[t]' = cmd[t].start
  BY DEF SendMissing, NextArg, TypeOK
<1>4. ~Refused(t)
  BY <1>3 DEF Local, Standing
<1>5. PICK q : q = Append(s, m)
  OBVIOUS
<1>6. /\ DOMAIN q = 1..(Len(s) + 1) /\ DOMAIN s = 1..Len(s) /\ Len(s) \in Nat
      /\ q[Len(s) + 1] = m /\ q # <<>> /\ Last(q) = m
      /\ \A i \in 1..Len(s) : q[i] = s[i]
  BY <1>1, <1>2, <1>5, Appended
<1>7. served[t]' = q /\ cmd'[t] = cmd[t]
  BY <1>3, <1>5
<1>8. m.arg = arg[t] /\ m.kind = "missing"
  BY DEF MissingOf
<1>9. Standing(t)'
  BY <1>1, <1>3, <1>4 DEF Standing, Refused
<1>10. Following(t)'
  <2>1. \A i \in DOMAIN s : s[i].arg <= arg[t] /\ s[i].arg \in Nat
    BY <1>1, AnswerTypes DEF Local, Following
  <2>2. \A i \in DOMAIN q : q[i].arg <= arg[t] + 1 /\ q[i].arg # arg[t] + 1
    <3>1. TAKE i \in DOMAIN q
    <3>2. CASE i = Len(s) + 1
      BY <3>2, <1>1, <1>6, <1>8
    <3>3. CASE i # Len(s) + 1
      <4>1. i \in DOMAIN s /\ q[i] = s[i]
        BY <3>3, <1>6
      <4> QED
        BY <4>1, <2>1, <1>1
    <3> QED
      BY <3>2, <3>3
  <2>3. Last(q).arg + 1 = arg[t]' /\ Last(q).arg # arg[t]'
    BY <1>1, <1>3, <1>6, <1>8
  <2> QED
    BY <2>2, <2>3, <1>3, <1>6, <1>7 DEF Following
<1>11. DayByDay(t)' /\ NoneTwice(t)'
  BY <1>2, <1>3, <1>4, AnswerFollows, AnswerIsNew
<1>12. ASSUME NEW k \in 1..arg[t] PROVE Ended(t, k)'
  <2>1. CASE k # arg[t]
    <3>1. k \in 1..(arg[t] - 1) /\ k \in Nat
      BY <2>1, <1>1
    <3>2. Ended(t, k)
      BY <3>1, <1>4 DEF Local, AllEnded
    <3> QED
      BY <3>1, <3>2, <1>2, <1>3, AnswerKeepsEnded
  <2>2. CASE k = arg[t]
    <3>1. Len(s) + 1 \in DOMAIN q /\ q[Len(s) + 1].arg = k /\ q[Len(s) + 1].kind = "missing"
      BY <2>2, <1>6, <1>8
    <3> QED
      BY <3>1, <1>7 DEF Ended
  <2> QED
    BY <2>1, <2>2
<1>13. AllEnded(t)'
  BY <1>1, <1>3, <1>12 DEF AllEnded
<1> QED
  BY <1>9, <1>10, <1>11, <1>13 DEF Local

(* Opening a file.                                                         *)
LEMMA FileKeepsLocal ==
  ASSUME NEW t \in Tasks, TypeOK, Local(t), task[t] = "open", InRange(t),
         task[t]' = "read", cmd' = cmd, arg' = arg, day' = day,
         served' = [served EXCEPT ![t] = Append(@, FileOf(t))]
  PROVE  Local(t)'
<1> DEFINE s == served[t]
           m == FileOf(t)
<1>1. /\ s \in Seq(Answers) /\ arg[t] \in Nat /\ day[t] \in Nat /\ cmd[t].start \in Nat
      /\ nights \in Nat
  BY DEF TypeOK, Days
<1>2. m \in Answers
  BY <1>1 DEF FileOf, Date, Answers
<1>3. served[t]' = Append(s, m)
  BY DEF TypeOK
<1>4. ~Refused(t)
  BY OnADay
<1>5. PICK q : q = Append(s, m)
  OBVIOUS
<1>6. /\ DOMAIN q = 1..(Len(s) + 1) /\ DOMAIN s = 1..Len(s) /\ Len(s) \in Nat
      /\ q[Len(s) + 1] = m /\ q # <<>> /\ Last(q) = m
      /\ \A i \in 1..Len(s) : q[i] = s[i]
  BY <1>1, <1>2, <1>5, Appended
<1>7. served[t]' = q /\ cmd'[t] = cmd[t]
  BY <1>3, <1>5
<1>8. m.arg = arg[t] /\ m.kind = "file" /\ m.day = day[t]
  BY DEF FileOf
<1>9. Standing(t)'
  BY <1>4 DEF Local, Standing, Refused
<1>10. Following(t)'
  <2>1. \A i \in DOMAIN q :
          /\ q[i].arg <= arg[t]
          /\ q[i].arg = arg[t] => q[i].kind = "file" /\ q[i].day <= day[t]
    <3>1. TAKE i \in DOMAIN q
    <3>2. CASE i = Len(s) + 1
      BY <3>2, <1>1, <1>6, <1>8
    <3>3. CASE i # Len(s) + 1
      <4>1. i \in DOMAIN s /\ q[i] = s[i]
        BY <3>3, <1>6
      <4> QED
        BY <4>1 DEF Local, Following
    <3> QED
      BY <3>2, <3>3
  <2>2. Last(q).arg = arg[t] /\ Last(q).day = day[t] /\ q # <<>>
    BY <1>6, <1>8
  <2> QED
    BY <2>1, <2>2, <1>7 DEF Following
<1>11. DayByDay(t)' /\ NoneTwice(t)'
  BY <1>2, <1>3, <1>4, AnswerFollows, AnswerIsNew
<1>12. AllEnded(t)'
  <2>1. ASSUME NEW k \in 1..(arg[t] - 1) PROVE Ended(t, k)'
    <3>1. Ended(t, k) /\ k \in Nat
      BY <1>1, <1>4 DEF Local, AllEnded
    <3> QED
      BY <3>1, <1>2, <1>3, AnswerKeepsEnded
  <2> QED
    BY <2>1 DEF AllEnded
<1> QED
  BY <1>9, <1>10, <1>11, <1>12 DEF Local

(* The head of the loops: a file is opened for a range that was not refused. *)
LEMMA OpenKeepsLocal ==
  ASSUME NEW t \in Tasks, TypeOK, Local(t), Open(t)
  PROVE  Local(t)'
<1>1. /\ arg[t] \in Nat /\ cmd[t].start \in Nat /\ cmd[t].end \in Nat /\ day[t] \in Nat
      /\ task \in [Tasks -> {"off", "asked", "open", "read", "missing", "done", "panicked"}]
      /\ arg \in [Tasks -> Nat] /\ day \in [Tasks -> Nat]
  <2>1. cmd[t].start \in Nat /\ cmd[t].end \in Nat
    BY DEF TypeOK, Days
  <2> QED
    BY <2>1 DEF TypeOK
<1>2. task[t] = "open" /\ cmd' = cmd
  BY DEF Open
<1>3. CASE arg' = arg /\ day' = day /\ served' = served
  <2>1. CASE task[t]' = "done"
    <3>1. Standing(t)' /\ Following(t)'
      BY <1>2, <1>3, <2>1 DEF Local, Standing, Following, Refused
    <3> QED
      BY <1>2, <1>3, <3>1, ServesNothing DEF Local
  <2>2. CASE task[t]' = "missing" /\ InRange(t)
    <3>1. ~Refused(t)
      BY <2>2, OnADay
    <3>2. Standing(t)' /\ Following(t)'
      BY <1>2, <1>3, <2>2, <3>1 DEF Local, Standing, Following, Refused
    <3> QED
      BY <1>2, <1>3, <3>2, ServesNothing DEF Local
  <2>3. CASE NextArg(t)
    <3>1. arg[t]' = arg[t] + 1
      BY <1>1, <2>3 DEF NextArg
    <3> QED
      BY <1>1, <1>3, <3>1
  <2>4. CASE task[t]' = "read" /\ served' = [served EXCEPT ![t] = Append(@, FileOf(t))]
    <3>1. served[t] \in Seq(Answers) /\ served'[t] = Append(served[t], FileOf(t))
      BY <2>4 DEF TypeOK
    <3>2. FileOf(t) \in Answers
      BY <1>1 DEF FileOf, Date, Answers, TypeOK
    <3>3. Len(Append(served[t], FileOf(t))) # Len(served[t])
      BY <3>1, <3>2
    <3> QED
      BY <1>3, <3>1, <3>3
  <2> QED
    BY <1>1, <2>1, <2>2, <2>3, <2>4 DEF Open
<1>4. CASE ~(arg' = arg /\ day' = day /\ served' = served)
  <2>1. CASE NextArg(t) /\ ~InRange(t) /\ served' = served
    <3>1. arg[t]' = arg[t] + 1 /\ day[t]' = cmd[t].start /\ task[t]' = "open"
      BY <1>1, <2>1 DEF NextArg
    <3>2. Refused(t) /\ served[t] = <<>>
      BY <1>1, <1>2, <2>1 DEF Local, Standing, Following, Refused, InRange
    <3> QED
      BY <1>1, <1>2, <2>1, <3>1, <3>2
      DEF Local, Standing, Following, DayByDay, NoneTwice, AllEnded, Refused
  <2>2. CASE /\ task[t]' = "read" /\ InRange(t) /\ arg' = arg /\ day' = day
             /\ served' = [served EXCEPT ![t] = Append(@, FileOf(t))]
    BY <1>2, <2>2, FileKeepsLocal
  <2> QED
    BY <1>1, <1>4, <2>1, <2>2 DEF Open
<1> QED
  BY <1>3, <1>4

(* A task whose turn it is not stands still.                               *)
LEMMA OthersKeepLocal ==
  ASSUME NEW t \in Tasks, NEW u \in Tasks, u # t, TypeOK, Local(u),
         Command(t) \/ Reply(t) \/ TaskStep(t)
  PROVE  Local(u)'
<1>1. served[u]' = served[u]
  BY DEF Command, Reply, TaskStep, Open, SendRecord, EndOfFile, SendMissing, Panic, TypeOK
<1>2. task[u]' = task[u] /\ arg[u]' = arg[u] /\ day[u]' = day[u]
  BY DEF Command, Reply, TaskStep, Open, SendRecord, EndOfFile, SendMissing, Panic, NextArg, TypeOK
<1>3. cmd[u]' = cmd[u]
  BY DEF Command, Reply, TaskStep, Open, SendRecord, EndOfFile, SendMissing, Panic, TypeOK
<1> QED
  BY <1>1, <1>2, <1>3, StandsStill

(* A command starts from a clean slate.                                    *)
LEMMA CommandKeepsLocal ==
  ASSUME NEW t \in Tasks, TypeOK, Local(t), Command(t)
  PROVE  Local(t)'
<1>1. served[t]' = <<>> /\ DOMAIN served[t]' = {} /\ arg[t]' = arg[t]
  BY DEF Command, Local, Standing
<1>2. PICK st \in Days, e \in Days, args \in BoundedSeq(Args, MaxArgs) :
        /\ cmd' = [cmd EXCEPT ![t] = [start |-> st, end |-> e, args |-> args]]
        /\ day' = [day EXCEPT ![t] = st]
  BY DEF Command
<1>3. cmd[t]'.start = st /\ day[t]' = st /\ st \in Nat
  BY <1>2 DEF TypeOK, Days
<1>4. task[t]' \in {"asked", "open"}
  BY DEF Command, TypeOK
<1>5. arg[t]' = 1
  BY <1>1 DEF Command, Local, Standing
<1>6. Standing(t)'
  BY <1>1, <1>3, <1>4, <1>5 DEF Standing, Refused
<1> QED
  BY <1>1, <1>3, <1>4, <1>5, <1>6 DEF Local, Following, DayByDay, NoneTwice, AllEnded

(* Initial states satisfy the invariant.                                   *)
LEMMA InvInit == Init => IInv
<1> SUFFICES ASSUME Init PROVE IInv
  OBVIOUS
<1> USE HistoryAssumption DEF HistoryAssumption
<1>1. TypeOK
  BY DEF Init, TypeOK, Days
<1>2. OneReply
  BY DEF Init, OneReply
<1>3. ASSUME NEW t \in Tasks PROVE Local(t)
  <2>1. served[t] = <<>> /\ DOMAIN served[t] = {}
    BY DEF Init
  <2>2. task[t] = "off" /\ arg[t] = 1 /\ day[t] = 0 /\ cmd[t].start = 0 /\ ~Refused(t)
    BY DEF Init, Refused
  <2>3. Standing(t) /\ Following(t)
    BY <2>1, <2>2 DEF Standing, Following
  <2>4. DayByDay(t) /\ NoneTwice(t) /\ AllEnded(t)
    BY <2>1, <2>2 DEF DayByDay, NoneTwice, AllEnded
  <2> QED
    BY <2>3, <2>4 DEF Local
<1> QED
  BY <1>1, <1>2, <1>3 DEF IInv

(* The session sends the error; then the task runs.                        *)
LEMMA ReplyKeepsLocal ==
  ASSUME NEW t \in Tasks, TypeOK, Local(t), Reply(t)
  PROVE  Local(t)'
<1>1. /\ task[t]' = "open" /\ task[t] = "asked"
      /\ cmd' = cmd /\ arg' = arg /\ day' = day /\ served' = served
  BY DEF Reply, TypeOK
<1>2. Standing(t)'
  BY <1>1 DEF Local, Standing, Refused
<1>3. Following(t)'
  BY <1>1 DEF Local, Standing, Following, Refused
<1> QED
  BY <1>1, <1>2, <1>3, ServesNothing DEF Local

(* The session is gone: the task is no more.                               *)
LEMMA PanicKeepsLocal ==
  ASSUME NEW t \in Tasks, TypeOK, Local(t), Panic(t)
  PROVE  Local(t)'
<1>1. /\ task[t]' = "panicked" /\ task[t] \in {"read", "missing"}
      /\ cmd' = cmd /\ arg' = arg /\ day' = day /\ served' = served
  BY DEF Panic, Sending, TypeOK
<1>2. Standing(t)'
  BY <1>1 DEF Local, Standing, Refused
<1>3. Following(t)'
  BY <1>1 DEF Local, Standing, Following, Refused
<1> QED
  BY <1>1, <1>2, <1>3, ServesNothing DEF Local

(* A command leaves the types alone, and the session replies to it only.   *)
LEMMA CommandTypes ==
  ASSUME TypeOK, OneReply, NEW t \in Tasks, Command(t)
  PROVE  TypeOK' /\ OneReply'
<1>1. PICK st \in Days, e \in Days, args \in BoundedSeq(Args, MaxArgs) :
        /\ cmd' = [cmd EXCEPT ![t] = [start |-> st, end |-> e, args |-> args]]
        /\ day' = [day EXCEPT ![t] = st]
        /\ IF st < e
           THEN session' = "replying" /\ task' = [task EXCEPT ![t] = "asked"]
           ELSE task' = [task EXCEPT ![t] = "open"] /\ UNCHANGED session
  BY DEF Command
<1>2. args \in Seq(Args)
  <2>1. PICK n \in 0..MaxArgs : args \in [1..n -> Args]
    BY DEF BoundedSeq, SeqOf
  <2>2. n \in Nat
    BY HistoryAssumption DEF HistoryAssumption
  <2> QED
    BY <2>1, <2>2, SeqDef
<1>3. cmd' \in [Tasks -> [start : Days, end : Days, args : Seq(Args)]]
  BY <1>1, <1>2 DEF TypeOK
<1>4. day' \in [Tasks -> Nat]
  BY <1>1 DEF TypeOK, Days
<1>5. session = "idle" /\ UNCHANGED <<outbox, nights, files, arg, left, served>>
  BY DEF Command
<1>6. \A u \in Tasks : task[u] # "asked"
  BY <1>5 DEF TypeOK
<1>7. CASE st < e
  <2>1. session' = "replying" /\ task' = [task EXCEPT ![t] = "asked"]
    BY <1>1, <1>7
  <2>2. task'[t] = "asked" /\ \A u \in Tasks : u # t => task'[u] = task[u]
    BY <2>1 DEF TypeOK
  <2>3. task' \in [Tasks -> {"off", "asked", "open", "read", "missing", "done", "panicked"}]
    BY <2>1 DEF TypeOK
  <2>4. OneReply'
    BY <2>2, <1>6 DEF OneReply
  <2> QED
    BY <2>1, <2>2, <2>3, <2>4, <1>3, <1>4, <1>5 DEF TypeOK
<1>8. CASE ~(st < e)
  <2>1. session' = session /\ task' = [task EXCEPT ![t] = "open"]
    BY <1>1, <1>8
  <2>2. \A u \in Tasks : task'[u] # "asked"
    BY <2>1, <1>6 DEF TypeOK
  <2>3. task' \in [Tasks -> {"off", "asked", "open", "read", "missing", "done", "panicked"}]
    BY <2>1 DEF TypeOK
  <2>4. OneReply'
    BY <2>2 DEF OneReply
  <2> QED
    BY <2>1, <2>2, <2>3, <2>4, <1>3, <1>4, <1>5 DEF TypeOK
<1> QED
  BY <1>7, <1>8

(* So does the reply.                                                      *)
LEMMA ReplyTypes ==
  ASSUME TypeOK, OneReply, NEW t \in Tasks, Reply(t)
  PROVE  TypeOK' /\ OneReply'
<1>1. task[t] = "asked" /\ \A u \in Tasks : u # t => task[u] # "asked"
  BY DEF Reply, OneReply
<1>2. \A u \in Tasks : task'[u] # "asked"
  BY <1>1 DEF Reply, TypeOK
<1>3. outbox' \in 0..JsonCap
  BY HistoryAssumption DEF Reply, TypeOK, HistoryAssumption
<1>4. task' \in [Tasks -> {"off", "asked", "open", "read", "missing", "done", "panicked"}]
  BY DEF Reply, TypeOK
<1>5. session' = "idle" /\ UNCHANGED <<nights, files, cmd, arg, day, left, served>>
  BY DEF Reply
<1> QED
  BY <1>2, <1>3, <1>4, <1>5 DEF TypeOK, OneReply

(* So does a step of a task.                                               *)
LEMMA TaskTypes ==
  ASSUME TypeOK, OneReply, NEW t \in Tasks, TaskStep(t)
  PROVE  TypeOK' /\ OneReply'
<1> USE HistoryAssumption DEF HistoryAssumption
<1>1. UNCHANGED <<session, files, cmd, nights>>
  BY DEF TaskStep, Open, SendRecord, EndOfFile, SendMissing, Panic
<1>2. task' \in [Tasks -> {"off", "asked", "open", "read", "missing", "done", "panicked"}]
  BY DEF TaskStep, Open, SendRecord, EndOfFile, SendMissing, Panic, NextArg, TypeOK
<1>3. \A u \in Tasks : task'[u] = "asked" <=> task[u] = "asked"
  BY DEF TaskStep, Open, SendRecord, EndOfFile, SendMissing, Panic, NextArg, TypeOK
<1>4. arg' \in [Tasks -> Nat] /\ day' \in [Tasks -> Nat]
  <2>1. CASE NextArg(t)
    <3>1. cmd[t].start \in Nat
      BY DEF TypeOK, Days
    <3>2. arg[t] + 1 \in Nat
      BY DEF TypeOK
    <3> QED
      BY <2>1, <3>1, <3>2 DEF NextArg, TypeOK
  <2>2. CASE EndOfFile(t)
    <3>1. UNCHANGED arg /\ day' = [day EXCEPT ![t] = @ + 1]
      BY <2>2 DEF EndOfFile
    <3>2. day[t] + 1 \in Nat
      BY DEF TypeOK
    <3> QED
      BY <3>1, <3>2 DEF TypeOK
  <2>3. CASE UNCHANGED <<arg, day>>
    BY <2>3 DEF TypeOK
  <2> QED
    BY <2>1, <2>2, <2>3 DEF TaskStep, Open, SendRecord, SendMissing, Panic
<1>5. left' \in [Tasks -> 0..MaxLen]
  <2>1. CASE Open(t)
    <3>1. left' = left \/ \E n \in 0..MaxLen : left' = [left EXCEPT ![t] = n]
      BY <2>1 DEF Open
    <3>2. left \in [Tasks -> 0..MaxLen]
      BY DEF TypeOK
    <3> QED
      BY <3>1, <3>2
  <2>2. CASE SendRecord(t)
    BY <2>2 DEF SendRecord, TypeOK
  <2> QED
    BY <2>1, <2>2 DEF TaskStep, EndOfFile, SendMissing, Panic, TypeOK
<1>6. outbox' \in 0..JsonCap
  BY DEF TaskStep, Open, SendRecord, EndOfFile, SendMissing, Panic, Put, TypeOK
<1>7. served' \in [Tasks -> Seq(Answers)]
  <2>1. arg[t] \in Nat /\ day[t] \in Nat /\ nights \in Nat /\ served[t] \in Seq(Answers)
    BY DEF TypeOK
  <2>2. FileOf(t) \in Answers /\ MissingOf(t) \in Answers
    BY <2>1 DEF FileOf, MissingOf, Date, Answers
  <2>3. \/ served' = served
        \/ served' = [served EXCEPT ![t] = Append(@, FileOf(t))]
        \/ served' = [served EXCEPT ![t] = Append(@, MissingOf(t))]
    BY DEF TaskStep, Open, SendRecord, EndOfFile, SendMissing, Panic
  <2>4. Append(served[t], FileOf(t)) \in Seq(Answers) /\ Append(served[t], MissingOf(t)) \in Seq(Answers)
    BY <2>1, <2>2
  <2> QED
    BY <2>3, <2>4 DEF TypeOK
<1> QED
  BY <1>1, <1>2, <1>3, <1>4, <1>5, <1>6, <1>7 DEF TypeOK, OneReply

(* And midnight.                                                           *)
LEMMA MidnightTypes ==
  ASSUME TypeOK, OneReply, Midnight
  PROVE  TypeOK' /\ OneReply'
<1>1. nights' \in 0..MaxNights
  BY HistoryAssumption DEF Midnight, TypeOK, HistoryAssumption
<1>2. files' \in SUBSET (Args \X Int)
  <2>1. PICK new \in SUBSET Args : files' = files \cup (new \X {nights + 1})
    BY DEF Midnight
  <2>2. nights + 1 \in Int
    BY DEF TypeOK
  <2> QED
    BY <2>1, <2>2 DEF TypeOK
<1> QED
  BY <1>1, <1>2 DEF Midnight, place, TypeOK, OneReply

(* Every step keeps the inductive invariant.                               *)
LEMMA InvStep == IInv /\ [Next]_vars => IInv'
<1> SUFFICES ASSUME IInv, [Next]_vars PROVE IInv'
  OBVIOUS
<1>1. CASE Next
  <2>1. TypeOK' /\ OneReply'
    <3>1. CASE Deliver
      <4>1. outbox' \in 0..JsonCap
        BY <3>1, HistoryAssumption DEF Deliver, IInv, TypeOK, HistoryAssumption
      <4> QED
        BY <3>1, <4>1 DEF Deliver, place, IInv, TypeOK, OneReply
    <3>2. CASE SessionEnd
      BY <3>2, HistoryAssumption
      DEF SessionEnd, place, IInv, TypeOK, OneReply, HistoryAssumption
    <3> QED
      BY <1>1, <3>1, <3>2, CommandTypes, ReplyTypes, TaskTypes, MidnightTypes
      DEF Next, TaskStep, IInv
  <2>2. ASSUME NEW u \in Tasks PROVE Local(u)'
    <3>1. ASSUME NEW t \in Tasks, Command(t) \/ Reply(t) \/ TaskStep(t) PROVE Local(u)'
      <4>1. CASE u = t
        BY <3>1, <4>1, CommandKeepsLocal, ReplyKeepsLocal, OpenKeepsLocal,
           RecordKeepsLocal, EndOfFileKeepsLocal, MissingKeepsLocal, PanicKeepsLocal DEF IInv, TaskStep
      <4>2. CASE u # t
        BY <3>1, <4>2, OthersKeepLocal DEF IInv
      <4> QED
        BY <4>1, <4>2
    <3>2. CASE Deliver \/ SessionEnd \/ Midnight
      <4>1. UNCHANGED <<place, cmd, served>>
        BY <3>2 DEF Deliver, SessionEnd, Midnight
      <4> QED
        BY <4>1, StandsStill DEF IInv, place
    <3> QED
      BY <1>1, <3>1, <3>2 DEF Next, TaskStep
  <2> QED
    BY <2>1, <2>2 DEF IInv
<1>2. CASE UNCHANGED vars
  <2>1. ASSUME NEW u \in Tasks PROVE Local(u)'
    BY <1>2, StandsStill DEF IInv, vars, place
  <2> QED
    BY <1>2, <2>1 DEF IInv, TypeOK, OneReply, vars, place
<1> QED
  BY <1>1, <1>2

(* The strengthening holds in every reachable state.                       *)
THEOREM Inductive == Spec => []IInv
BY InvInit, InvStep, PTL DEF Spec

(* Types, and the outbox never above its capacity.                         *)
THEOREM TypeCorrect == Spec => []TypeOK
<1>1. IInv => TypeOK
  BY DEF IInv
<1> QED
  BY <1>1, Inductive, PTL

(* Each argument is served day by day, none of them twice, and no file twice
   but across midnight.                                                    *)
THEOREM DaysAreAdjoining == Spec => []DaysAdjoin
<1>1. IInv => DaysAdjoin
  BY DEF IInv, Local, DaysAdjoin
<1> QED
  BY <1>1, Inductive, PTL

(* The loop of history_handle leaves an argument with a missing day told or
   the whole range served.                                                 *)
THEOREM ArgumentsEnd == Spec => []EachArgumentEnds
<1>1. IInv => EachArgumentEnds
  BY DEF IInv, Local, AllEnded, EachArgumentEnds
<1> QED
  BY <1>1, Inductive, PTL

(* The task spawned for a refused range sends nothing.                     *)
THEOREM RefusalIsFinal == Spec => []RefusedGetsNothing
<1>1. IInv => RefusedGetsNothing
  BY DEF IInv, Local, Standing, RefusedGetsNothing
<1> QED
  BY <1>1, Inductive, PTL

(* A served range is answered argument by argument, a refused one not at all. *)
THEOREM CommandsAnswered == Spec => []CommandsAreAnswered
<1>1. EachArgumentEnds /\ RefusedGetsNothing => CommandsAreAnswered
  BY DEF CommandsAreAnswered
<1> QED
  BY <1>1, ArgumentsEnd, RefusalIsFinal, PTL

==============================================================================
