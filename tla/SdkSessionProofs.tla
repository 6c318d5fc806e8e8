-------------------------- MODULE SdkSessionProofs --------------------------
(* Theorems about SdkSession for any switches and reports and all bounds.   *)
EXTENDS SdkSession, SequenceTheorems, TLAPS

-----------------------------------------------------------------------------
(* The inductive invariant *)

\* The commands that were asked for and not yet worked on, wherever they are.
Pending == toEngine \o queue

\* Of two commands the first one was asked for earlier, or only the second one
\* has come from a task.
Before(i, j) == Pending[i].id < Pending[j].id \/ (Pending[i].by = "app" /\ Pending[j].by = "task")

\* The next id is greater than all; a late command has no earlier ones ahead
\* of it but those that are late, too.
PendingIds ==
    /\ \A by \in Senders : handled[by] <= count.asked
    /\ \A i \in 1 .. Len(Pending) :
          /\ handled["task"] < Pending[i].id /\ Pending[i].id <= count.asked
          /\ Pending[i].by = "task" \/ handled["app"] < Pending[i].id
    /\ \A i, j \in 1 .. Len(Pending) : i < j => Before(i, j)

\* The tasks were asked for after the late commands.
TaskIds ==
    /\ \A k \in 1 .. Len(tasks) :
          /\ handled["task"] < tasks[k].id /\ tasks[k].id <= count.asked
          /\ \A i \in 1 .. Len(Pending) : Pending[i].by = "task" => Pending[i].id < tasks[k].id
    /\ \A k, l \in 1 .. Len(tasks) : k < l => tasks[k].id < tasks[l].id

IdInv == PendingIds /\ TaskIds

\* The commands that make or end the engine's account.
Decides(i) == Pending[i].command \in {"registration", "disconnect"}

\* What the last of them says is what the SDK believes.
LastDecides ==
    /\ (\A i \in 1 .. Len(Pending) : ~Decides(i)) => account = client
    /\ \A i \in 1 .. Len(Pending) :
          Decides(i) /\ (\A j \in 1 .. Len(Pending) : i < j => ~Decides(j)) =>
              client = IF Pending[i].command = "registration" THEN Pending[i].dict ELSE 0

\* When a registration has its turn, there is no account.
NoSecondAccount ==
    \A i \in 1 .. Len(Pending) : Pending[i].command = "registration" =>
        /\ (\A j \in 1 .. Len(Pending) : j < i => ~Decides(j)) => account = 0
        /\ \A j \in 1 .. Len(Pending) :
              j < i /\ Decides(j) /\ (\A l \in 1 .. Len(Pending) : j < l /\ l < i => ~Decides(l)) =>
                  Pending[j].command = "disconnect"

\* So it is while the engine runs, but for the mishaps.
Fine == running /\ mishaps \subseteq {"missed", "stray"}
AccountInv == Fine => LastDecides /\ NoSecondAccount

IInv == TypeOK /\ IdInv /\ AccountInv

-----------------------------------------------------------------------------
(* Data *)

USE DEF appVars, readVars, threadVars, saidVars, engineVars, Senders

\* What send_json builds is a command.
LEMMA MessageTypes ==
    ASSUME NEW id \in Nat, NEW c \in Commands, NEW d \in Dicts \cup {0}, NEW by \in Senders,
           d = 0 <=> c \in Clientless
    PROVE  /\ Message(id, c, d, by) \in Messages
           /\ Message(id, c, d, by).id = id /\ Message(id, c, d, by).command = c
           /\ Message(id, c, d, by).dict = d /\ Message(id, c, d, by).by = by
BY DEF Message, Messages

\* The fields of a command that waits.
LEMMA PendingTypes ==
    ASSUME TypeOK
    PROVE  /\ Pending \in Seq(Messages) /\ Len(Pending) \in Nat
           /\ \A i \in 1 .. Len(Pending) :
                 /\ Pending[i].id \in Nat /\ Pending[i].command \in Commands
                 /\ Pending[i].dict \in Dicts \cup {0} /\ Pending[i].by \in Senders
                 /\ Pending[i].dict = 0 <=> Pending[i].command \in Clientless
           /\ \A i \in 1 .. Len(Pending) :
                 Pending[i] = IF i <= Len(toEngine) THEN toEngine[i] ELSE queue[i - Len(toEngine)]
           /\ Len(Pending) = Len(toEngine) + Len(queue)
           /\ Len(toEngine) \in Nat /\ Len(queue) \in Nat
<1>1. toEngine \in Seq(Messages) /\ queue \in Seq(Messages)
  BY DEF TypeOK
<1>2. /\ Pending \in Seq(Messages) /\ Len(Pending) = Len(toEngine) + Len(queue)
      /\ \A i \in 1 .. Len(toEngine) + Len(queue) :
            Pending[i] = IF i <= Len(toEngine) THEN toEngine[i] ELSE queue[i - Len(toEngine)]
  BY <1>1, ConcatProperties DEF Pending
<1>3. \A i \in 1 .. Len(Pending) : Pending[i] \in Messages
  BY <1>2
<1>4. \A m \in Messages : /\ m.id \in Nat /\ m.command \in Commands
                          /\ m.dict \in Dicts \cup {0} /\ m.by \in Senders
                          /\ (m.dict = 0 <=> m.command \in Clientless)
  BY DEF Messages
<1>5. Len(toEngine) \in Nat /\ Len(queue) \in Nat /\ Len(Pending) \in Nat
  BY <1>1, <1>2
<1>6. QED BY <1>2, <1>3, <1>4, <1>5

\* Among the commands, only two are about the account.
LEMMA CommandTypes ==
    /\ Switches \subseteq Commands \ Clientless
    /\ {"registration", "disconnect", "call"} \subseteq Commands \ Clientless
    /\ Clientless \subseteq Commands /\ DeviceSwitches \subseteq Clientless
    /\ "destroy" \in Clientless
    /\ \A c \in Switches \cup Clientless \cup {"call"} : c \notin {"registration", "disconnect"}
    /\ \A c \in Switches \cup DeviceSwitches : c \notin {"call", "destroy"}
BY SwitchAssumption DEF Commands, Clientless

\* The counters and ids are numbers.
LEMMA CountTypes ==
    ASSUME TypeOK
    PROVE  /\ count.asked \in Nat /\ count.regs \in 0 .. MaxRegs
           /\ count.requests \in 0 .. MaxRequests /\ count.reports \in 0 .. MaxReports
           /\ count.breaks \in 0 .. MaxBreaks
           /\ {MaxRegs, MaxRequests, MaxReports, MaxBreaks} \subseteq Nat
           /\ handled["task"] \in Nat /\ handled["app"] \in Nat
BY BoundAssumption DEF TypeOK

\* The fields of a task.
LEMMA TaskTypes ==
    ASSUME TypeOK
    PROVE  /\ tasks \in Seq(Tasks) /\ Len(tasks) \in Nat
           /\ \A k \in 1 .. Len(tasks) :
                 tasks[k].id \in Nat /\ tasks[k].dict \in Dicts /\ tasks[k].command \in Switches
<1>1. tasks \in Seq(Tasks)
  BY DEF TypeOK
<1>2. \A t \in Tasks : t.id \in Nat /\ t.dict \in Dicts /\ t.command \in Switches
  BY DEF Tasks
<1>3. Len(tasks) \in Nat /\ \A k \in 1 .. Len(tasks) : tasks[k] \in Tasks
  BY <1>1
<1>4. QED BY <1>1, <1>2, <1>3

-----------------------------------------------------------------------------
(* Putting commands into the queue *)

\* Of the commands, n more wait.
Grows(n) ==
    /\ Len(Pending') = Len(Pending) + n
    /\ \A i \in 1 .. Len(Pending) : Pending'[i] = Pending[i]

\* They have the next ids.
Puts(n) ==
    /\ Grows(n)
    /\ \A i \in 1 .. n : /\ Pending'[Len(Pending) + i].id = count.asked + i
                         /\ Pending'[Len(Pending) + i].by = "app"
    /\ count'.asked = count.asked + n

\* What is put into the queue waits behind the others.
LEMMA QueueGrows ==
    ASSUME TypeOK, NEW new \in Seq(Messages), queue' = queue \o new, toEngine' = toEngine
    PROVE  /\ queue' \in Seq(Messages) /\ Grows(Len(new))
           /\ \A i \in 1 .. Len(new) : Pending'[Len(Pending) + i] = new[i]
<1>1. queue \in Seq(Messages) /\ toEngine \in Seq(Messages) /\ Pending \in Seq(Messages)
  BY PendingTypes DEF TypeOK
<1>2. queue' \in Seq(Messages) /\ Pending' = Pending \o new
  <2>1. queue \o new \in Seq(Messages)
    BY <1>1, ConcatProperties
  <2>2. (toEngine \o queue) \o new = toEngine \o (queue \o new)
    BY <1>1, ConcatAssociative
  <2>3. Pending' = toEngine \o queue'
    BY DEF Pending
  <2>4. QED BY <2>1, <2>2, <2>3 DEF Pending
<1>3. /\ Len(Pending') = Len(Pending) + Len(new)
      /\ \A i \in 1 .. Len(Pending) + Len(new) :
            Pending'[i] = IF i <= Len(Pending) THEN Pending[i] ELSE new[i - Len(Pending)]
  BY <1>1, <1>2, ConcatProperties
<1>4. Len(Pending) \in Nat /\ Len(new) \in Nat
  BY PendingTypes
<1>5. \A i \in 1 .. Len(Pending) : Pending'[i] = Pending[i]
  BY <1>3, <1>4
<1>6. ASSUME NEW i \in 1 .. Len(new) PROVE Pending'[Len(Pending) + i] = new[i]
  <2>1. /\ Len(Pending) + i \in 1 .. Len(Pending) + Len(new) /\ ~(Len(Pending) + i <= Len(Pending))
        /\ (Len(Pending) + i) - Len(Pending) = i
    BY <1>4
  <2>2. QED BY <1>3, <2>1
<1>7. QED BY <1>2, <1>3, <1>5, <1>6 DEF Grows

\* send_json of one command.
LEMMA PutOne ==
    ASSUME TypeOK, NEW c \in Commands, NEW d \in Dicts \cup {0}, d = 0 <=> c \in Clientless,
           Put(<< <<c, d>> >>), toEngine' = toEngine, count'.asked = count.asked + 1
    PROVE  /\ queue' \in Seq(Messages) /\ Puts(1)
           /\ Pending'[Len(Pending) + 1].command = c /\ Pending'[Len(Pending) + 1].dict = d
<1> DEFINE new == [i \in DOMAIN << <<c, d>> >> |->
                     Message(count.asked + i, << <<c, d>> >>[i][1], << <<c, d>> >>[i][2], "app")]
<1>1. count.asked \in Nat
  BY CountTypes
<1>2. Message(count.asked + 1, c, d, "app") \in Messages
  BY <1>1, MessageTypes
<1>3. new = [i \in 1 .. 1 |-> Message(count.asked + 1, c, d, "app")]
  OBVIOUS
<1>4. new \in Seq(Messages) /\ Len(new) = 1 /\ new[1] = Message(count.asked + 1, c, d, "app")
  BY <1>2, <1>3
<1>5. queue' = queue \o new
  BY DEF Put
<1> HIDE DEF new
<1>6. /\ queue' \in Seq(Messages) /\ Grows(1)
      /\ \A i \in 1 .. 1 : Pending'[Len(Pending) + i] = new[i]
  BY <1>4, <1>5, QueueGrows
<1>7. Pending'[Len(Pending) + 1] = Message(count.asked + 1, c, d, "app")
  BY <1>4, <1>6
<1>8. LET m == Message(count.asked + 1, c, d, "app")
      IN  m.id = count.asked + 1 /\ m.command = c /\ m.dict = d /\ m.by = "app"
  BY <1>1, MessageTypes
<1>9. \A i \in 1 .. 1 : /\ Pending'[Len(Pending) + i].id = count.asked + i
                        /\ Pending'[Len(Pending) + i].by = "app"
  BY <1>1, <1>7, <1>8
<1>10. QED BY <1>1, <1>6, <1>7, <1>8, <1>9 DEF Puts

\* Two lists of one, put together.
LEMMA TwoInARow ==
    ASSUME NEW a, NEW b
    PROVE  <<a>> \o <<b>> = <<a, b>>
<1> DEFINE S == {a, b}
<1>1. <<a>> \in Seq(S) /\ <<b>> \in Seq(S) /\ <<a, b>> \in Seq(S)
  OBVIOUS
<1>2. Len(<<a>>) = 1 /\ <<a>>[1] = a /\ <<b>>[1] = b /\ Len(<<b>>) = 1
      /\ Len(<<a, b>>) = 2 /\ <<a, b>>[1] = a /\ <<a, b>>[2] = b
  OBVIOUS
<1> HIDE DEF S
<1>3. /\ <<a>> \o <<b>> \in Seq(S)
      /\ Len(<<a>> \o <<b>>) = Len(<<a>>) + Len(<<b>>)
      /\ \A i \in 1 .. Len(<<a>>) + Len(<<b>>) : (<<a>> \o <<b>>)[i] =
            IF i <= Len(<<a>>) THEN <<a>>[i] ELSE <<b>>[i - Len(<<a>>)]
  BY <1>1, ConcatProperties
<1>4. Len(<<a>> \o <<b>>) = 2 /\ (<<a>> \o <<b>>)[1] = a /\ (<<a>> \o <<b>>)[2] = b
  BY <1>2, <1>3
<1>5. \A i \in 1 .. 2 : (<<a>> \o <<b>>)[i] = <<a, b>>[i]
  <2>1. \A i \in 1 .. 2 : i = 1 \/ i = 2
    OBVIOUS
  <2>2. QED BY <1>2, <1>4, <2>1
<1>6. QED BY <1>1, <1>2, <1>3, <1>4, <1>5, SeqEqual

\* And of two commands.
LEMMA PutTwo ==
    ASSUME TypeOK, NEW c \in Commands \ Clientless, NEW d \in Dicts,
           NEW e \in Commands \ Clientless, NEW f \in Dicts,
           Put(<< <<c, d>>, <<e, f>> >>), toEngine' = toEngine, count'.asked = count.asked + 2
    PROVE  /\ queue' \in Seq(Messages) /\ Puts(2)
           /\ Pending'[Len(Pending) + 1].command = c /\ Pending'[Len(Pending) + 1].dict = d
           /\ Pending'[Len(Pending) + 2].command = e /\ Pending'[Len(Pending) + 2].dict = f
<1> DEFINE new == [i \in DOMAIN << <<c, d>>, <<e, f>> >> |->
                     Message(count.asked + i, << <<c, d>>, <<e, f>> >>[i][1],
                                              << <<c, d>>, <<e, f>> >>[i][2], "app")]
<1>1. count.asked \in Nat /\ 0 \notin Dicts
  BY CountTypes DEF Dicts
<1>2. /\ Message(count.asked + 1, c, d, "app") \in Messages
      /\ Message(count.asked + 2, e, f, "app") \in Messages
  BY <1>1, MessageTypes
<1>3. new = [i \in 1 .. 2 |-> IF i = 1 THEN Message(count.asked + 1, c, d, "app")
                              ELSE Message(count.asked + 2, e, f, "app")]
  OBVIOUS
<1>4. /\ new \in Seq(Messages) /\ Len(new) = 2
      /\ new[1] = Message(count.asked + 1, c, d, "app")
      /\ new[2] = Message(count.asked + 2, e, f, "app")
  BY <1>2, <1>3
<1>5. queue' = queue \o new
  BY DEF Put
<1> HIDE DEF new
<1>6. /\ queue' \in Seq(Messages) /\ Grows(2)
      /\ \A i \in 1 .. 2 : Pending'[Len(Pending) + i] = new[i]
  BY <1>4, <1>5, QueueGrows
<1>7. /\ Pending'[Len(Pending) + 1] = Message(count.asked + 1, c, d, "app")
      /\ Pending'[Len(Pending) + 2] = Message(count.asked + 2, e, f, "app")
  BY <1>4, <1>6
<1>8. /\ LET m == Message(count.asked + 1, c, d, "app")
         IN  m.id = count.asked + 1 /\ m.command = c /\ m.dict = d /\ m.by = "app"
      /\ LET m == Message(count.asked + 2, e, f, "app")
         IN  m.id = count.asked + 2 /\ m.command = e /\ m.dict = f /\ m.by = "app"
  BY <1>1, MessageTypes
<1>9. \A i \in 1 .. 2 : /\ Pending'[Len(Pending) + i].id = count.asked + i
                        /\ Pending'[Len(Pending) + i].by = "app"
  <2>1. \A i \in 1 .. 2 : i = 1 \/ i = 2
    OBVIOUS
  <2>2. QED BY <1>7, <1>8, <2>1
<1>10. QED BY <1>1, <1>6, <1>7, <1>8, <1>9 DEF Puts

-----------------------------------------------------------------------------
(* Taking commands out *)

\* Of the commands, the n after the first k are gone.
Removes(k, n) ==
    /\ Len(Pending') = Len(Pending) - n
    /\ k \in 0 .. Len(Pending')
    /\ \A i \in 1 .. Len(Pending') : Pending'[i] = Pending[IF i <= k THEN i ELSE i + n]
    /\ count'.asked = count.asked

-----------------------------------------------------------------------------
(* Ids *)

\* More commands leave the ids in order.
LEMMA IdsOfPuts ==
    ASSUME TypeOK, IdInv, NEW n \in 1 .. 2, Puts(n), handled' = handled, tasks' = tasks
    PROVE  IdInv'
<1>1. /\ Len(Pending) \in Nat /\ count.asked \in Nat
      /\ handled["task"] \in Nat /\ handled["app"] \in Nat
      /\ \A i \in 1 .. Len(Pending) : Pending[i].id \in Nat /\ Pending[i].by \in Senders
  BY PendingTypes, CountTypes
<1>2. /\ count'.asked = count.asked + n /\ Len(Pending') = Len(Pending) + n
      /\ \A i \in 1 .. Len(Pending) : Pending'[i] = Pending[i]
      /\ \A i \in 1 .. n : /\ Pending'[Len(Pending) + i].id = count.asked + i
                           /\ Pending'[Len(Pending) + i].by = "app"
  BY DEF Puts, Grows
<1>3. ASSUME NEW i \in 1 .. Len(Pending')
      PROVE  \/ i \in 1 .. Len(Pending) /\ Pending'[i] = Pending[i]
             \/ i > Len(Pending) /\ Pending'[i].id = count.asked + (i - Len(Pending))
                /\ i - Len(Pending) \in 1 .. n /\ Pending'[i].by = "app"
  <2>1. CASE i <= Len(Pending)
    BY <1>1, <1>2, <2>1
  <2>2. CASE ~(i <= Len(Pending))
    <3>1. i - Len(Pending) \in 1 .. n /\ Len(Pending) + (i - Len(Pending)) = i
      BY <1>1, <1>2, <2>2
    <3>2. QED BY <1>1, <1>2, <2>2, <3>1
  <2>3. QED BY <2>1, <2>2
<1>4. \A by \in Senders : handled[by] \in Nat /\ handled[by] <= count.asked
  BY <1>1 DEF IdInv, PendingIds
<1>5. \A by \in Senders : handled'[by] <= count'.asked
  BY <1>1, <1>2, <1>4
<1>6. ASSUME NEW i \in 1 .. Len(Pending')
      PROVE  /\ handled["task"] < Pending'[i].id /\ Pending'[i].id <= count.asked + n
             /\ Pending'[i].by = "task" \/ handled["app"] < Pending'[i].id
  <2>1. CASE i \in 1 .. Len(Pending) /\ Pending'[i] = Pending[i]
    BY <1>1, <2>1 DEF IdInv, PendingIds
  <2>2. CASE i - Len(Pending) \in 1 .. n /\ Pending'[i].id = count.asked + (i - Len(Pending))
    <3>1. handled["task"] <= count.asked /\ handled["app"] <= count.asked
      BY <1>4
    <3>2. QED BY <1>1, <2>2, <3>1
  <2>3. QED BY <1>3, <2>1, <2>2
<1>7. ASSUME NEW i \in 1 .. Len(Pending'), NEW j \in 1 .. Len(Pending'), i < j
      PROVE  Before(i, j)'
  <2>1. Len(Pending') \in Nat
    BY <1>1, <1>2
  <2>2. CASE j \in 1 .. Len(Pending) /\ Pending'[j] = Pending[j]
    <3>1. i \in 1 .. Len(Pending) /\ Pending'[i] = Pending[i]
      BY <1>1, <1>2, <1>7, <2>1, <2>2
    <3>2. Before(i, j)
      BY <1>7, <2>2, <3>1 DEF IdInv, PendingIds
    <3>3. QED BY <2>2, <3>1, <3>2 DEF Before
  <2>3. CASE j > Len(Pending) /\ Pending'[j].id = count.asked + (j - Len(Pending))
             /\ j - Len(Pending) \in 1 .. n
    <3>1. CASE i \in 1 .. Len(Pending) /\ Pending'[i] = Pending[i]
      <4>1. Pending[i].id <= count.asked /\ Pending[i].id \in Nat
        BY <1>1, <3>1 DEF IdInv, PendingIds
      <4>2. count.asked < count.asked + (j - Len(Pending))
        BY <1>1, <2>1, <2>3
      <4>3. Pending'[i].id < Pending'[j].id
        BY <1>1, <2>1, <2>3, <3>1, <4>1, <4>2
      <4>4. QED BY <4>3 DEF Before
    <3>2. CASE Pending'[i].id = count.asked + (i - Len(Pending))
      <4>1. Pending'[i].id < Pending'[j].id
        BY <1>1, <1>7, <2>1, <2>3, <3>2
      <4>2. QED BY <4>1 DEF Before
    <3>3. QED BY <1>3, <3>1, <3>2
  <2>4. QED BY <1>3, <2>2, <2>3
<1>8. PendingIds'
  BY <1>2, <1>5, <1>6, <1>7 DEF PendingIds
<1>9. TaskIds'
  <2>1. \A k \in 1 .. Len(tasks) : tasks[k].id \in Nat
    BY TaskTypes
  <2>2. \A k \in 1 .. Len(tasks) : tasks[k].id <= count.asked + n
    BY <1>1, <2>1 DEF IdInv, TaskIds
  <2>3. ASSUME NEW k \in 1 .. Len(tasks), NEW i \in 1 .. Len(Pending'), Pending'[i].by = "task"
        PROVE  Pending'[i].id < tasks[k].id
    <3>1. i \in 1 .. Len(Pending) /\ Pending'[i] = Pending[i]
      BY <1>3, <2>3
    <3>2. QED BY <2>3, <3>1 DEF IdInv, TaskIds
  <2>4. QED BY <1>2, <2>2, <2>3 DEF IdInv, TaskIds
<1>10. QED BY <1>8, <1>9 DEF IdInv

\* So do fewer, whether they are lost or the first one is worked on.
LEMMA IdsOfRemoves ==
    ASSUME TypeOK, IdInv, NEW k \in Nat, NEW n \in Nat, Removes(k, n), tasks' = tasks,
           \/ handled' = handled
           \/ k = 0 /\ n = 1 /\ handled' = [handled EXCEPT ![Pending[1].by] = Pending[1].id]
    PROVE  IdInv'
<1>1. /\ Len(Pending) \in Nat /\ count.asked \in Nat
      /\ handled["task"] \in Nat /\ handled["app"] \in Nat /\ handled \in [Senders -> Nat]
      /\ \A i \in 1 .. Len(Pending) : Pending[i].id \in Nat /\ Pending[i].by \in Senders
  BY PendingTypes, CountTypes DEF TypeOK
<1>2. /\ Len(Pending') \in Nat /\ Len(Pending') = Len(Pending) - n
      /\ count'.asked = count.asked
  BY <1>1 DEF Removes
<1> DEFINE from(i) == IF i <= k THEN i ELSE i + n
<1>3. \A i \in 1 .. Len(Pending') : from(i) \in 1 .. Len(Pending) /\ Pending'[i] = Pending[from(i)]
  <2>1. \A i \in 1 .. Len(Pending') : from(i) \in 1 .. Len(Pending)
    BY <1>1, <1>2
  <2>2. \A i \in 1 .. Len(Pending') : Pending'[i] = Pending[from(i)]
    BY DEF Removes
  <2>3. QED BY <2>1, <2>2
<1>4. \A i, j \in 1 .. Len(Pending') : i < j => from(i) < from(j)
  BY <1>2
<1>5. n = 1 /\ k = 0 => \A i \in 1 .. Len(Pending') : 1 < from(i)
  BY <1>2
<1> HIDE DEF from
<1>6. ASSUME NEW i \in 1 .. Len(Pending'), NEW j \in 1 .. Len(Pending'), i < j
      PROVE  Before(i, j)'
  <2>1. Before(from(i), from(j))
    BY <1>3, <1>4, <1>6 DEF IdInv, PendingIds
  <2>2. QED BY <1>3, <2>1 DEF Before
<1>7. \A i \in 1 .. Len(Pending') : Pending'[i].id <= count'.asked
  BY <1>2, <1>3 DEF IdInv, PendingIds
<1>8. ASSUME NEW l \in 1 .. Len(tasks)
      PROVE  /\ tasks[l].id <= count.asked
             /\ \A i \in 1 .. Len(Pending) : Pending[i].by = "task" => Pending[i].id < tasks[l].id
             /\ handled["task"] < tasks[l].id
  BY DEF IdInv, TaskIds
<1>9. /\ \A by \in Senders : handled'[by] <= count.asked
      /\ \A i \in 1 .. Len(Pending') :
            /\ handled'["task"] < Pending'[i].id
            /\ handled'["app"] < Pending'[i].id \/ Pending'[i].by = "task"
      /\ \A l \in 1 .. Len(tasks) : handled'["task"] < tasks[l].id
  <2>1. CASE handled' = handled
    BY <1>3, <1>8, <2>1 DEF IdInv, PendingIds
  <2>2. CASE k = 0 /\ n = 1 /\ handled' = [handled EXCEPT ![Pending[1].by] = Pending[1].id]
    <3>1. 1 \in 1 .. Len(Pending)
      BY <1>1, <1>2, <2>2
    <3>2. /\ Pending[1].id \in Nat /\ Pending[1].id <= count.asked
          /\ \A by \in Senders : handled[by] <= count.asked
      BY <1>1, <3>1 DEF IdInv, PendingIds
    <3>3. ASSUME NEW i \in 1 .. Len(Pending')
          PROVE  /\ from(i) \in 1 .. Len(Pending) /\ Pending'[i] = Pending[from(i)]
                 /\ Before(1, from(i)) /\ handled["task"] < Pending[from(i)].id
                 /\ Pending[from(i)].by = "task" \/ handled["app"] < Pending[from(i)].id
      BY <1>3, <1>5, <2>2, <3>1 DEF IdInv, PendingIds
    <3>4. CASE Pending[1].by = "task"
      <4>1. handled'["task"] = Pending[1].id /\ handled'["app"] = handled["app"]
        BY <1>1, <2>2, <3>4
      <4>2. \A by \in Senders : handled'[by] <= count.asked
        BY <3>2, <4>1
      <4>3. \A i \in 1 .. Len(Pending') : handled'["task"] < Pending'[i].id
        BY <3>3, <3>4, <4>1 DEF Before
      <4>4. \A i \in 1 .. Len(Pending') :
               handled'["app"] < Pending'[i].id \/ Pending'[i].by = "task"
        BY <3>3, <4>1
      <4>5. \A l \in 1 .. Len(tasks) : handled'["task"] < tasks[l].id
        BY <1>8, <3>1, <3>4, <4>1
      <4>6. QED BY <4>2, <4>3, <4>4, <4>5
    <3>5. CASE Pending[1].by = "app"
      <4>1. handled'["app"] = Pending[1].id /\ handled'["task"] = handled["task"]
        BY <1>1, <2>2, <3>5
      <4>2. \A by \in Senders : handled'[by] <= count.asked
        BY <3>2, <4>1
      <4>3. \A i \in 1 .. Len(Pending') : handled'["task"] < Pending'[i].id
        BY <3>3, <4>1
      <4>4. \A i \in 1 .. Len(Pending') :
               handled'["app"] < Pending'[i].id \/ Pending'[i].by = "task"
        BY <3>3, <4>1 DEF Before
      <4>5. \A l \in 1 .. Len(tasks) : handled'["task"] < tasks[l].id
        BY <1>8, <4>1
      <4>6. QED BY <4>2, <4>3, <4>4, <4>5
    <3>6. QED BY <1>1, <3>1, <3>4, <3>5
  <2>3. QED BY <2>1, <2>2
<1>10. PendingIds'
  BY <1>2, <1>6, <1>7, <1>9 DEF PendingIds
<1>11. TaskIds'
  <2>1. ASSUME NEW l \in 1 .. Len(tasks), NEW i \in 1 .. Len(Pending'), Pending'[i].by = "task"
        PROVE  Pending'[i].id < tasks[l].id
    BY <1>3, <1>8, <2>1
  <2>2. QED BY <1>2, <1>8, <1>9, <2>1 DEF IdInv, TaskIds
<1>12. QED BY <1>10, <1>11 DEF IdInv

\* A task gets the next id, too.
LEMMA IdsOfSwitch ==
    ASSUME TypeOK, IdInv, NEW t \in Tasks, t.id = count.asked + 1, tasks' = Append(tasks, t),
           Pending' = Pending, handled' = handled, count'.asked = count.asked + 1
    PROVE  IdInv'
<1>1. /\ Len(Pending) \in Nat /\ count.asked \in Nat
      /\ handled["task"] \in Nat /\ handled["app"] \in Nat
      /\ \A i \in 1 .. Len(Pending) : Pending[i].id \in Nat
  BY PendingTypes, CountTypes
<1>2. /\ tasks \in Seq(Tasks) /\ Len(tasks) \in Nat
      /\ \A k \in 1 .. Len(tasks) : tasks[k].id \in Nat
  BY TaskTypes
<1>3. /\ Len(tasks') = Len(tasks) + 1
      /\ \A k \in 1 .. Len(tasks) : tasks'[k] = tasks[k]
      /\ tasks'[Len(tasks) + 1] = t
  BY <1>2, AppendProperties
<1>4. \A k \in 1 .. Len(tasks') : k \in 1 .. Len(tasks) \/ k = Len(tasks) + 1
  BY <1>2, <1>3
<1>5. \A by \in Senders : handled[by] \in Nat /\ handled[by] <= count.asked
  BY <1>1 DEF IdInv, PendingIds
<1>6. PendingIds'
  <2>1. \A i, j : Before(i, j)' <=> Before(i, j)
    BY DEF Before
  <2>2. \A by \in Senders : handled'[by] <= count'.asked
    BY <1>1, <1>5
  <2>3. \A i \in 1 .. Len(Pending) : Pending[i].id <= count'.asked
    BY <1>1 DEF IdInv, PendingIds
  <2>4. QED BY <2>1, <2>2, <2>3 DEF IdInv, PendingIds
<1>7. ASSUME NEW k \in 1 .. Len(tasks')
      PROVE  /\ handled["task"] < tasks'[k].id /\ tasks'[k].id <= count.asked + 1
             /\ \A i \in 1 .. Len(Pending) : Pending[i].by = "task" => Pending[i].id < tasks'[k].id
  <2>1. CASE k \in 1 .. Len(tasks)
    BY <1>1, <1>2, <1>3, <2>1 DEF IdInv, TaskIds
  <2>2. CASE k = Len(tasks) + 1
    <3>1. \A i \in 1 .. Len(Pending) : Pending[i].id <= count.asked
      BY DEF IdInv, PendingIds
    <3>2. QED BY <1>1, <1>3, <1>5, <2>2, <3>1
  <2>3. QED BY <1>4, <2>1, <2>2
<1>8. ASSUME NEW k \in 1 .. Len(tasks'), NEW l \in 1 .. Len(tasks'), k < l
      PROVE  tasks'[k].id < tasks'[l].id
  <2>1. k \in 1 .. Len(tasks)
    BY <1>2, <1>3, <1>8
  <2>2. CASE l \in 1 .. Len(tasks)
    BY <1>3, <1>8, <2>1, <2>2 DEF IdInv, TaskIds
  <2>3. CASE l = Len(tasks) + 1
    <3>1. tasks[k].id <= count.asked /\ tasks[k].id \in Nat
      BY <1>2, <2>1 DEF IdInv, TaskIds
    <3>2. QED BY <1>1, <1>3, <2>1, <2>3, <3>1
  <2>4. QED BY <1>4, <2>2, <2>3
<1>9. TaskIds'
  BY <1>7, <1>8 DEF TaskIds
<1>10. QED BY <1>6, <1>9 DEF IdInv

\* What the oldest task puts into the queue comes late.
LEMMA IdsOfTask ==
    ASSUME TypeOK, IdInv, tasks # << >>, tasks' = Tail(tasks), Grows(1),
           Pending'[Len(Pending) + 1].id = tasks[1].id,
           Pending'[Len(Pending) + 1].by = "task",
           handled' = handled, count'.asked = count.asked
    PROVE  IdInv'
<1>1. /\ Len(Pending) \in Nat /\ count.asked \in Nat
      /\ handled["task"] \in Nat /\ handled["app"] \in Nat
      /\ \A i \in 1 .. Len(Pending) : Pending[i].id \in Nat /\ Pending[i].by \in Senders
  BY PendingTypes, CountTypes
<1>2. /\ tasks \in Seq(Tasks) /\ Len(tasks) \in Nat /\ Len(tasks) # 0
      /\ \A k \in 1 .. Len(tasks) : tasks[k].id \in Nat
  BY TaskTypes
<1>3. /\ Len(tasks') = Len(tasks) - 1
      /\ \A k \in 1 .. Len(tasks') : tasks'[k] = tasks[k + 1]
  BY <1>2, HeadTailProperties
<1>4. \A k \in 1 .. Len(tasks') : k + 1 \in 1 .. Len(tasks) /\ 1 < k + 1
  BY <1>2, <1>3
<1>5. 1 \in 1 .. Len(tasks)
  BY <1>2
<1>6. /\ Len(Pending') = Len(Pending) + 1
      /\ \A i \in 1 .. Len(Pending) : Pending'[i] = Pending[i]
      /\ \A i \in 1 .. Len(Pending') : i \in 1 .. Len(Pending) \/ i = Len(Pending) + 1
  BY <1>1 DEF Grows
<1>7. /\ handled["task"] < tasks[1].id /\ tasks[1].id <= count.asked
      /\ \A i \in 1 .. Len(Pending) : Pending[i].by = "task" => Pending[i].id < tasks[1].id
      /\ \A k \in 1 .. Len(tasks') : tasks[1].id < tasks'[k].id
  BY <1>3, <1>4, <1>5 DEF IdInv, TaskIds
<1>8. ASSUME NEW i \in 1 .. Len(Pending'), NEW j \in 1 .. Len(Pending'), i < j
      PROVE  Before(i, j)'
  <2>1. i \in 1 .. Len(Pending)
    BY <1>1, <1>6, <1>8
  <2>2. CASE j \in 1 .. Len(Pending)
    <3>1. Before(i, j)
      BY <1>8, <2>1, <2>2 DEF IdInv, PendingIds
    <3>2. QED BY <1>6, <2>1, <2>2, <3>1 DEF Before
  <2>3. CASE j = Len(Pending) + 1
    BY <1>1, <1>6, <1>7, <2>1, <2>3 DEF Before
  <2>4. QED BY <1>6, <2>2, <2>3
<1>9. PendingIds'
  <2>1. ASSUME NEW i \in 1 .. Len(Pending')
        PROVE  /\ handled["task"] < Pending'[i].id /\ Pending'[i].id <= count.asked
               /\ Pending'[i].by = "task" \/ handled["app"] < Pending'[i].id
    <3>1. CASE i \in 1 .. Len(Pending)
      BY <1>6, <3>1 DEF IdInv, PendingIds
    <3>2. CASE i = Len(Pending) + 1
      BY <1>7, <3>2
    <3>3. QED BY <1>6, <3>1, <3>2
  <2>2. QED BY <1>8, <2>1 DEF IdInv, PendingIds
<1>10. TaskIds'
  <2>1. ASSUME NEW k \in 1 .. Len(tasks')
        PROVE  /\ handled["task"] < tasks'[k].id /\ tasks'[k].id <= count.asked
               /\ \A i \in 1 .. Len(Pending') :
                     Pending'[i].by = "task" => Pending'[i].id < tasks'[k].id
    <3>1. /\ handled["task"] < tasks'[k].id /\ tasks'[k].id <= count.asked
          /\ \A i \in 1 .. Len(Pending) : Pending[i].by = "task" => Pending[i].id < tasks'[k].id
      BY <1>3, <1>4 DEF IdInv, TaskIds
    <3>2. QED BY <1>6, <1>7, <3>1
  <2>2. \A k, l \in 1 .. Len(tasks') : k < l => tasks'[k].id < tasks'[l].id
    <3>1. \A k, l \in 1 .. Len(tasks') : k < l => k + 1 < l + 1
      BY <1>2, <1>3
    <3>2. QED BY <1>3, <1>4, <3>1 DEF IdInv, TaskIds
  <2>3. QED BY <2>1, <2>2 DEF TaskIds
<1>11. QED BY <1>9, <1>10 DEF IdInv

-----------------------------------------------------------------------------
(* The account *)

\* What Grows(1) says of the commands that were there, and the new one.
LEMMA OneMore ==
    ASSUME TypeOK, Grows(1)
    PROVE  /\ Len(Pending) \in Nat /\ Len(Pending') = Len(Pending) + 1
           /\ \A i \in 1 .. Len(Pending') : i \in 1 .. Len(Pending) \/ i = Len(Pending) + 1
           /\ \A i \in 1 .. Len(Pending) : i \in 1 .. Len(Pending') /\ i < Len(Pending) + 1
           /\ Len(Pending) + 1 \in 1 .. Len(Pending')
           /\ \A i \in 1 .. Len(Pending) : Decides(i)' <=> Decides(i)
           /\ \A i \in 1 .. Len(Pending) : Pending'[i] = Pending[i]
<1>1. Len(Pending) \in Nat /\ Len(Pending') = Len(Pending) + 1
  BY PendingTypes DEF Grows
<1>2. \A i \in 1 .. Len(Pending) : Pending'[i] = Pending[i]
  BY DEF Grows
<1>3. \A i \in 1 .. Len(Pending) : Decides(i)' <=> Decides(i)
  BY <1>2 DEF Decides
<1>4. QED BY <1>1, <1>2, <1>3

\* A command that neither makes nor ends an account.
LEMMA OtherPut ==
    ASSUME TypeOK, LastDecides, NoSecondAccount, Grows(1), UNCHANGED <<account, client>>,
           Pending'[Len(Pending) + 1].command \notin {"registration", "disconnect"}
    PROVE  LastDecides' /\ NoSecondAccount'
<1>1. \A i \in 1 .. Len(Pending') : i = Len(Pending) + 1 =>
         ~Decides(i)' /\ Pending'[i].command # "registration"
  BY DEF Decides
<1>2. LastDecides'
  <2>1. (\A i \in 1 .. Len(Pending') : ~Decides(i)') => account' = client'
    BY OneMore DEF LastDecides
  <2>2. ASSUME NEW i \in 1 .. Len(Pending'), Decides(i)',
               \A j \in 1 .. Len(Pending') : i < j => ~Decides(j)'
        PROVE  client' = IF Pending'[i].command = "registration" THEN Pending'[i].dict ELSE 0
    <3>1. i \in 1 .. Len(Pending) /\ Pending'[i] = Pending[i] /\ Decides(i)
      BY <1>1, <2>2, OneMore
    <3>2. \A j \in 1 .. Len(Pending) : i < j => ~Decides(j)
      BY <2>2, OneMore
    <3>3. QED BY <3>1, <3>2 DEF LastDecides
  <2>3. QED BY <2>1, <2>2 DEF LastDecides
<1>3. NoSecondAccount'
  <2>1. SUFFICES ASSUME NEW i \in 1 .. Len(Pending'), Pending'[i].command = "registration"
                 PROVE  /\ (\A j \in 1 .. Len(Pending') : j < i => ~Decides(j)') => account' = 0
                        /\ \A j \in 1 .. Len(Pending') :
                              j < i /\ Decides(j)'
                              /\ (\A l \in 1 .. Len(Pending') : j < l /\ l < i => ~Decides(l)') =>
                                  Pending'[j].command = "disconnect"
    BY DEF NoSecondAccount
  <2>2. i \in 1 .. Len(Pending) /\ Pending'[i] = Pending[i]
    BY <1>1, <2>1, OneMore
  <2>3. (\A j \in 1 .. Len(Pending') : j < i => ~Decides(j)') => account' = 0
    BY <2>1, <2>2, OneMore DEF NoSecondAccount
  <2>4. ASSUME NEW j \in 1 .. Len(Pending'), j < i, Decides(j)',
               \A l \in 1 .. Len(Pending') : j < l /\ l < i => ~Decides(l)'
        PROVE  Pending'[j].command = "disconnect"
    <3>1. j \in 1 .. Len(Pending) /\ Pending'[j] = Pending[j] /\ Decides(j)
      BY <2>2, <2>4, OneMore
    <3>2. \A l \in 1 .. Len(Pending) : j < l /\ l < i => ~Decides(l)
      BY <2>4, OneMore
    <3>3. QED BY <2>1, <2>2, <2>4, <3>1, <3>2 DEF NoSecondAccount
  <2>5. QED BY <2>3, <2>4
<1>4. QED BY <1>2, <1>3

\* A "disconnect", or a "registration" of a client that was none.
LEMMA DecidingPut ==
    ASSUME TypeOK, LastDecides, NoSecondAccount, Grows(1), account' = account,
           \/ Pending'[Len(Pending) + 1].command = "disconnect" /\ client' = 0
           \/ /\ Pending'[Len(Pending) + 1].command = "registration"
              /\ client' = Pending'[Len(Pending) + 1].dict /\ client = 0
    PROVE  LastDecides' /\ NoSecondAccount'
<1>1. \A i \in 1 .. Len(Pending') : i = Len(Pending) + 1 =>
         /\ Decides(i)'
         /\ client' = IF Pending'[i].command = "registration" THEN Pending'[i].dict ELSE 0
  BY DEF Decides
<1>2. LastDecides'
  <2>1. ~\A i \in 1 .. Len(Pending') : ~Decides(i)'
    BY <1>1, OneMore
  <2>2. ASSUME NEW i \in 1 .. Len(Pending'), Decides(i)',
               \A j \in 1 .. Len(Pending') : i < j => ~Decides(j)'
        PROVE  client' = IF Pending'[i].command = "registration" THEN Pending'[i].dict ELSE 0
    BY <1>1, <2>2, OneMore
  <2>3. QED BY <2>1, <2>2 DEF LastDecides
<1>3. ASSUME NEW i \in 1 .. Len(Pending'), Pending'[i].command = "registration"
      PROVE  /\ (\A j \in 1 .. Len(Pending') : j < i => ~Decides(j)') => account' = 0
             /\ \A j \in 1 .. Len(Pending') :
                   j < i /\ Decides(j)'
                   /\ (\A l \in 1 .. Len(Pending') : j < l /\ l < i => ~Decides(l)') =>
                       Pending'[j].command = "disconnect"
  <2>1. CASE i \in 1 .. Len(Pending)
    <3>1. Pending'[i] = Pending[i] /\ Pending[i].command = "registration"
      BY <1>3, <2>1, OneMore
    <3>2. (\A j \in 1 .. Len(Pending') : j < i => ~Decides(j)') => account' = 0
      BY <2>1, <3>1, OneMore DEF NoSecondAccount
    <3>3. ASSUME NEW j \in 1 .. Len(Pending'), j < i, Decides(j)',
                 \A l \in 1 .. Len(Pending') : j < l /\ l < i => ~Decides(l)'
          PROVE  Pending'[j].command = "disconnect"
      <4>1. j \in 1 .. Len(Pending) /\ Pending'[j] = Pending[j] /\ Decides(j)
        BY <2>1, <3>3, OneMore
      <4>2. \A l \in 1 .. Len(Pending) : j < l /\ l < i => ~Decides(l)
        BY <3>3, OneMore
      <4>3. QED BY <2>1, <3>1, <3>3, <4>1, <4>2 DEF NoSecondAccount
    <3>4. QED BY <3>2, <3>3
  <2>2. CASE i = Len(Pending) + 1
    <3>1. client = 0
      BY <1>3, <2>2
    <3>2. (\A j \in 1 .. Len(Pending') : j < i => ~Decides(j)') => account' = 0
      BY <2>2, <3>1, OneMore DEF LastDecides
    <3>3. ASSUME NEW j \in 1 .. Len(Pending'), j < i, Decides(j)',
                 \A l \in 1 .. Len(Pending') : j < l /\ l < i => ~Decides(l)'
          PROVE  Pending'[j].command = "disconnect"
      <4>1. j \in 1 .. Len(Pending) /\ Pending'[j] = Pending[j] /\ Decides(j)
        BY <2>2, <3>3, OneMore
      <4>2. \A l \in 1 .. Len(Pending) : j < l => ~Decides(l)
        BY <2>2, <3>3, OneMore
      <4>3. client = IF Pending[j].command = "registration" THEN Pending[j].dict ELSE 0
        BY <4>1, <4>2 DEF LastDecides
      <4>4. Pending[j].command = "registration" => Pending[j].dict # 0
        BY <4>1, PendingTypes, CommandTypes
      <4>5. QED BY <3>1, <4>1, <4>3, <4>4 DEF Decides
    <3>4. QED BY <3>2, <3>3
  <2>3. QED BY <2>1, <2>2, OneMore
<1>4. QED BY <1>2, <1>3 DEF NoSecondAccount

\* A "disconnect" with a "registration" behind it.
LEMMA FarewellPut ==
    ASSUME TypeOK, LastDecides, NoSecondAccount, Grows(2), account' = account,
           Pending'[Len(Pending) + 1].command = "disconnect",
           Pending'[Len(Pending) + 2].command = "registration",
           client' = Pending'[Len(Pending) + 2].dict
    PROVE  LastDecides' /\ NoSecondAccount'
<1>1. Len(Pending) \in Nat /\ Len(Pending') = Len(Pending) + 2
  BY PendingTypes DEF Grows
<1>2. \A i \in 1 .. Len(Pending) : Pending'[i] = Pending[i] /\ (Decides(i)' <=> Decides(i))
  BY DEF Grows, Decides
<1>3. /\ \A i \in 1 .. Len(Pending') :
            i \in 1 .. Len(Pending) \/ i = Len(Pending) + 1 \/ i = Len(Pending) + 2
      /\ \A i \in 1 .. Len(Pending) : i \in 1 .. Len(Pending') /\ i < Len(Pending) + 1
      /\ Len(Pending) + 1 \in 1 .. Len(Pending') /\ Len(Pending) + 2 \in 1 .. Len(Pending')
      /\ Len(Pending) + 1 < Len(Pending) + 2
  BY <1>1
<1>4. \A i \in 1 .. Len(Pending') : i = Len(Pending) + 1 \/ i = Len(Pending) + 2 => Decides(i)'
  BY DEF Decides
<1>5. LastDecides'
  <2>1. ~\A i \in 1 .. Len(Pending') : ~Decides(i)'
    BY <1>3, <1>4
  <2>2. ASSUME NEW i \in 1 .. Len(Pending'), Decides(i)',
               \A j \in 1 .. Len(Pending') : i < j => ~Decides(j)'
        PROVE  client' = IF Pending'[i].command = "registration" THEN Pending'[i].dict ELSE 0
    <3>1. i = Len(Pending) + 2
      <4>1. i \in 1 .. Len(Pending) => i < Len(Pending) + 2
        BY <1>1
      <4>2. QED BY <1>3, <1>4, <2>2, <4>1
    <3>2. QED BY <3>1
  <2>3. QED BY <2>1, <2>2 DEF LastDecides
<1>6. ASSUME NEW i \in 1 .. Len(Pending'), Pending'[i].command = "registration"
      PROVE  /\ (\A j \in 1 .. Len(Pending') : j < i => ~Decides(j)') => account' = 0
             /\ \A j \in 1 .. Len(Pending') :
                   j < i /\ Decides(j)'
                   /\ (\A l \in 1 .. Len(Pending') : j < l /\ l < i => ~Decides(l)') =>
                       Pending'[j].command = "disconnect"
  <2>1. CASE i \in 1 .. Len(Pending)
    <3>1. Pending'[i] = Pending[i] /\ Pending[i].command = "registration"
      BY <1>2, <1>6, <2>1
    <3>2. (\A j \in 1 .. Len(Pending') : j < i => ~Decides(j)') => account' = 0
      BY <1>2, <1>3, <2>1, <3>1 DEF NoSecondAccount
    <3>3. ASSUME NEW j \in 1 .. Len(Pending'), j < i, Decides(j)',
                 \A l \in 1 .. Len(Pending') : j < l /\ l < i => ~Decides(l)'
          PROVE  Pending'[j].command = "disconnect"
      <4>1. j \in 1 .. Len(Pending)
        BY <1>1, <2>1, <3>3
      <4>2. Pending'[j] = Pending[j] /\ Decides(j)
        BY <1>2, <3>3, <4>1
      <4>3. \A l \in 1 .. Len(Pending) : j < l /\ l < i => ~Decides(l)
        BY <1>2, <1>3, <3>3
      <4>4. QED BY <2>1, <3>1, <3>3, <4>1, <4>2, <4>3 DEF NoSecondAccount
    <3>4. QED BY <3>2, <3>3
  <2>2. CASE i = Len(Pending) + 1
    BY <1>6, <2>2
  <2>3. CASE i = Len(Pending) + 2
    <3>1. ~\A j \in 1 .. Len(Pending') : j < i => ~Decides(j)'
      BY <1>3, <1>4, <2>3
    <3>2. ASSUME NEW j \in 1 .. Len(Pending'), j < i, Decides(j)',
                 \A l \in 1 .. Len(Pending') : j < l /\ l < i => ~Decides(l)'
          PROVE  Pending'[j].command = "disconnect"
      <4>1. j = Len(Pending) + 1
        BY <1>3, <1>4, <2>3, <3>2
      <4>2. QED BY <4>1
    <3>3. QED BY <3>1, <3>2
  <2>4. QED BY <1>3, <2>1, <2>2, <2>3
<1>7. QED BY <1>5, <1>6 DEF NoSecondAccount

\* The engine works on the first command.
LEMMA FrontDone ==
    ASSUME TypeOK, LastDecides, NoSecondAccount, Removes(0, 1), client' = client,
           account' = IF Pending[1].command = "registration" THEN Pending[1].dict
                      ELSE IF Pending[1].command = "disconnect" THEN 0 ELSE account
    PROVE  LastDecides' /\ NoSecondAccount'
<1>1. Len(Pending) \in Nat /\ Len(Pending') \in Nat /\ Len(Pending') = Len(Pending) - 1
  BY PendingTypes DEF Removes
<1>2. /\ \A i \in 1 .. Len(Pending') : i + 1 \in 1 .. Len(Pending) /\ 1 < i + 1
      /\ \A i \in 1 .. Len(Pending) : i = 1 \/ (i - 1 \in 1 .. Len(Pending') /\ (i - 1) + 1 = i)
      /\ 1 \in 1 .. Len(Pending)
  BY <1>1
<1>3. \A i \in 1 .. Len(Pending') : Pending'[i] = Pending[i + 1]
  BY <1>1 DEF Removes
<1>4. \A i \in 1 .. Len(Pending') : Decides(i)' <=> Decides(i + 1)
  BY <1>3 DEF Decides
<1>5. \A i \in 1 .. Len(Pending) : i # 1 => (Decides(i) <=> Decides(i - 1)')
  BY <1>2, <1>4
<1>6. LastDecides'
  <2>1. ASSUME \A i \in 1 .. Len(Pending') : ~Decides(i)' PROVE account' = client'
    <3>1. \A i \in 1 .. Len(Pending) : 1 < i => ~Decides(i)
      <4>1. SUFFICES ASSUME NEW i \in 1 .. Len(Pending), 1 < i, Decides(i) PROVE FALSE
        OBVIOUS
      <4>2. i - 1 \in 1 .. Len(Pending') /\ (i - 1) + 1 = i
        BY <1>1, <4>1
      <4>3. Decides(i - 1)'
        BY <1>4, <4>1, <4>2
      <4>4. QED BY <2>1, <4>2, <4>3
    <3>2. CASE Decides(1)
      <4>1. client = IF Pending[1].command = "registration" THEN Pending[1].dict ELSE 0
        BY <1>2, <3>1, <3>2 DEF LastDecides
      <4>2. QED BY <3>2, <4>1 DEF Decides
    <3>3. CASE ~Decides(1)
      <4>1. \A i \in 1 .. Len(Pending) : ~Decides(i)
        BY <1>2, <3>1, <3>3
      <4>2. account = client
        BY <4>1 DEF LastDecides
      <4>3. QED BY <3>3, <4>2 DEF Decides
    <3>4. QED BY <3>2, <3>3
  <2>2. ASSUME NEW i \in 1 .. Len(Pending'), Decides(i)',
               \A j \in 1 .. Len(Pending') : i < j => ~Decides(j)'
        PROVE  client' = IF Pending'[i].command = "registration" THEN Pending'[i].dict ELSE 0
    <3>1. i + 1 \in 1 .. Len(Pending) /\ Pending'[i] = Pending[i + 1] /\ Decides(i + 1)
      BY <1>2, <1>3, <1>4, <2>2
    <3>2. ASSUME NEW j \in 1 .. Len(Pending), i + 1 < j PROVE ~Decides(j)
      <4>1. j - 1 \in 1 .. Len(Pending') /\ (j - 1) + 1 = j /\ i < j - 1
        BY <1>1, <3>2
      <4>2. ~Decides(j - 1)'
        BY <2>2, <4>1
      <4>3. QED BY <1>4, <4>1, <4>2
    <3>3. QED BY <3>1, <3>2 DEF LastDecides
  <2>3. QED BY <2>1, <2>2 DEF LastDecides
<1>7. ASSUME NEW i \in 1 .. Len(Pending'), Pending'[i].command = "registration"
      PROVE  /\ (\A j \in 1 .. Len(Pending') : j < i => ~Decides(j)') => account' = 0
             /\ \A j \in 1 .. Len(Pending') :
                   j < i /\ Decides(j)'
                   /\ (\A l \in 1 .. Len(Pending') : j < l /\ l < i => ~Decides(l)') =>
                       Pending'[j].command = "disconnect"
  <2>1. i + 1 \in 1 .. Len(Pending) /\ Pending[i + 1].command = "registration"
    BY <1>2, <1>3, <1>7
  <2>2. ASSUME \A j \in 1 .. Len(Pending') : j < i => ~Decides(j)' PROVE account' = 0
    <3>1. ASSUME NEW j \in 1 .. Len(Pending), 1 < j, j < i + 1 PROVE ~Decides(j)
      <4>1. j - 1 \in 1 .. Len(Pending') /\ (j - 1) + 1 = j /\ j - 1 < i
        BY <1>1, <3>1
      <4>2. ~Decides(j - 1)'
        BY <2>2, <4>1
      <4>3. QED BY <1>4, <4>1, <4>2
    <3>2. 1 < i + 1 /\ \A j \in 1 .. Len(Pending) : j = 1 \/ 1 < j
      BY <1>1
    <3>3. CASE Decides(1)
      <4>1. Pending[1].command = "disconnect"
        BY <1>2, <2>1, <3>1, <3>2, <3>3 DEF NoSecondAccount
      <4>2. QED BY <4>1
    <3>4. CASE ~Decides(1)
      <4>1. \A j \in 1 .. Len(Pending) : j < i + 1 => ~Decides(j)
        BY <3>1, <3>2, <3>4
      <4>2. account = 0
        BY <2>1, <4>1 DEF NoSecondAccount
      <4>3. QED BY <3>4, <4>2 DEF Decides
    <3>5. QED BY <3>3, <3>4
  <2>3. ASSUME NEW j \in 1 .. Len(Pending'), j < i, Decides(j)',
               \A l \in 1 .. Len(Pending') : j < l /\ l < i => ~Decides(l)'
        PROVE  Pending'[j].command = "disconnect"
    <3>1. /\ j + 1 \in 1 .. Len(Pending) /\ j + 1 < i + 1
          /\ Pending'[j] = Pending[j + 1] /\ Decides(j + 1)
      BY <1>1, <1>2, <1>3, <1>4, <2>3
    <3>2. ASSUME NEW l \in 1 .. Len(Pending), j + 1 < l, l < i + 1 PROVE ~Decides(l)
      <4>1. l - 1 \in 1 .. Len(Pending') /\ (l - 1) + 1 = l /\ j < l - 1 /\ l - 1 < i
        BY <1>1, <3>2
      <4>2. ~Decides(l - 1)'
        BY <2>3, <4>1
      <4>3. QED BY <1>4, <4>1, <4>2
    <3>3. QED BY <2>1, <3>1, <3>2 DEF NoSecondAccount
  <2>4. QED BY <2>2, <2>3
<1>8. QED BY <1>6, <1>7 DEF NoSecondAccount

(* Types, action by action *)

Counters == [asked : Nat, regs : 0 .. MaxRegs, requests : 0 .. MaxRequests,
             reports : 0 .. MaxReports, breaks : 0 .. MaxBreaks]

\* TypeOK, one variable at a time.
LEMMA TypesApart ==
    TypeOK <=>
        /\ client \in Dicts \cup {0} /\ regEvent \in Dicts \cup {0} /\ account \in Dicts \cup {0}
        /\ waiting \subseteq Dicts /\ eventSet \subseteq Dicts
        /\ dictCommand \in [Dicts -> Commands \ Clientless]
        /\ view \in Words \cup {"registering"}
        /\ closing \in BOOLEAN /\ startManager \in BOOLEAN /\ halfLine \in BOOLEAN
        /\ reading \in BOOLEAN /\ running \in BOOLEAN /\ answered \in BOOLEAN
        /\ refreshed \in BOOLEAN
        /\ tasks \in Seq(Tasks)
        /\ queue \in Seq(Messages) /\ toEngine \in Seq(Messages)
        /\ sock \in {"none", "open", "dead"}
        /\ toSdk \in Seq(Words \cup {"half"}) /\ kept \in 0 .. Len(toSdk)
        /\ call \in {"none", "up", "over"}
        /\ handled \in [Senders -> Nat]
        /\ word \in (Words \ {"registered"}) \cup {"nothing"}
        /\ mishaps \subseteq Mishaps
        /\ count \in Counters
BY DEF TypeOK, Counters

\* The bounds' counters.
LEMMA CountedTypes ==
    ASSUME TypeOK, NEW n \in Nat
    PROVE  /\ count.regs < MaxRegs /\ Counted("regs", n) =>
                 count' \in Counters /\ count'.asked = count.asked + n
           /\ count.requests < MaxRequests /\ Counted("requests", n) =>
                 count' \in Counters /\ count'.asked = count.asked + n
           /\ count' = [count EXCEPT !.asked = @ + 1] =>
                 count' \in Counters /\ count'.asked = count.asked + 1
           /\ count.reports < MaxReports /\ count' = [count EXCEPT !.reports = @ + 1] =>
                 count' \in Counters /\ count'.asked = count.asked
           /\ count.breaks < MaxBreaks /\ count' = [count EXCEPT !.breaks = @ + 1] =>
                 count' \in Counters /\ count'.asked = count.asked
<1>1. count \in Counters
  BY TypesApart
<1>2. /\ count.asked \in Nat /\ count.asked + n \in Nat /\ count.asked + 1 \in Nat
      /\ count.regs < MaxRegs => count.regs + 1 \in 0 .. MaxRegs
      /\ count.requests < MaxRequests => count.requests + 1 \in 0 .. MaxRequests
      /\ count.reports < MaxReports => count.reports + 1 \in 0 .. MaxReports
      /\ count.breaks < MaxBreaks => count.breaks + 1 \in 0 .. MaxBreaks
  BY CountTypes
<1>3. count.regs < MaxRegs /\ Counted("regs", n) =>
         count' \in Counters /\ count'.asked = count.asked + n
  <2>1. SUFFICES ASSUME count.regs < MaxRegs, Counted("regs", n)
                 PROVE  count' \in Counters /\ count'.asked = count.asked + n
    OBVIOUS
  <2>2. count' = [count EXCEPT !["regs"] = count.regs + 1, !.asked = count.asked + n]
    BY <1>1, <2>1 DEF Counted, Counters
  <2>3. QED BY <1>1, <1>2, <2>1, <2>2 DEF Counters
<1>4. count.requests < MaxRequests /\ Counted("requests", n) =>
         count' \in Counters /\ count'.asked = count.asked + n
  <2>1. SUFFICES ASSUME count.requests < MaxRequests, Counted("requests", n)
                 PROVE  count' \in Counters /\ count'.asked = count.asked + n
    OBVIOUS
  <2>2. count' = [count EXCEPT !["requests"] = count.requests + 1, !.asked = count.asked + n]
    BY <1>1, <2>1 DEF Counted, Counters
  <2>3. QED BY <1>1, <1>2, <2>1, <2>2 DEF Counters
<1>5. count' = [count EXCEPT !.asked = @ + 1] =>
         count' \in Counters /\ count'.asked = count.asked + 1
  BY <1>1, <1>2 DEF Counters
<1>6. count.reports < MaxReports /\ count' = [count EXCEPT !.reports = @ + 1] =>
         count' \in Counters /\ count'.asked = count.asked
  BY <1>1, <1>2 DEF Counters
<1>7. count.breaks < MaxBreaks /\ count' = [count EXCEPT !.breaks = @ + 1] =>
         count' \in Counters /\ count'.asked = count.asked
  BY <1>1, <1>2 DEF Counters
<1>8. QED BY <1>3, <1>4, <1>5, <1>6, <1>7

\* A state that is missed is the only mishap of a loss of states.
LEMMA MissedTypes == \A n : Missed(n) \subseteq {"missed"}
BY DEF Missed

\* What is left of the states that were on their way, whole or with half of
\* one behind them.
LEMMA CutTypes ==
    ASSUME TypeOK, NEW a \in 1 .. 2, NEW i \in 0 .. Len(toSdk)
    PROVE  LET cut == SubSeq(toSdk, a, i)
           IN  /\ cut \in Seq(Words \cup {"half"})
               /\ Append(cut, "half") \in Seq(Words \cup {"half"})
               /\ Len(cut) = (IF a <= i THEN (i - a) + 1 ELSE 0)
               /\ Len(Append(cut, "half")) = Len(cut) + 1
               /\ \A k \in 1 .. Len(cut) : cut[k] = toSdk[(a + k) - 1]
<1> DEFINE cut == SubSeq(toSdk, a, i)
<1>1. toSdk \in Seq(Words \cup {"half"}) /\ Len(toSdk) \in Nat
  BY TypesApart
<1>2. \A l \in a .. i : toSdk[l] \in Words \cup {"half"}
  BY <1>1
<1>3. /\ cut \in Seq(Words \cup {"half"})
      /\ Len(cut) = (IF a <= i THEN (i - a) + 1 ELSE 0)
      /\ \A k \in 1 .. Len(cut) : cut[k] = toSdk[(a + k) - 1]
  BY <1>1, <1>2
<1> HIDE DEF cut
<1>4. Append(cut, "half") \in Seq(Words \cup {"half"}) /\ Len(Append(cut, "half")) = Len(cut) + 1
  BY <1>3, AppendProperties
<1>5. QED BY <1>3, <1>4 DEF cut

\* A step that has nothing to do with commands and accounts.
LEMMA NothingMoved ==
    ASSUME IdInv, AccountInv, Pending' = Pending, UNCHANGED <<handled, account, client, tasks>>,
           count'.asked = count.asked, running' => running,
           mishaps \ {"missed", "stray"} \subseteq mishaps'
    PROVE  IdInv' /\ AccountInv'
<1>1. IdInv'
  <2>1. \A i, j : Before(i, j)' <=> Before(i, j)
    BY DEF Before
  <2>2. QED BY <2>1 DEF IdInv, PendingIds, TaskIds
<1>2. \A i : Decides(i)' <=> Decides(i)
  BY DEF Decides
<1>3. LastDecides /\ NoSecondAccount => LastDecides' /\ NoSecondAccount'
  BY <1>2 DEF LastDecides, NoSecondAccount
<1>4. Fine' => Fine
  BY DEF Fine
<1>5. QED BY <1>1, <1>3, <1>4 DEF AccountInv

-----------------------------------------------------------------------------
(* The application *)

\* A registration, with the farewell to the client before it.
LEMMA RegisterKeeps ==
    ASSUME IInv, NEW wait \in BOOLEAN, Register(wait)
    PROVE  IInv'
<1> USE DEF IInv
<1> DEFINE new == count.regs + 1
<1>1. /\ ~closing /\ count.regs < MaxRegs
      /\ client' = new /\ view' = "registering"
      /\ dictCommand' = IF client = 0 THEN dictCommand
                        ELSE [dictCommand EXCEPT ![client] = "disconnect"]
      /\ regEvent' \in {new, 0} /\ waiting' \subseteq waiting \cup {new}
      /\ UNCHANGED <<eventSet, tasks, closing, threadVars, engineVars, mishaps>>
  BY DEF Register
<1>2. /\ Put(Farewell \o <<<<"registration", new>>>>)
      /\ Counted("regs", Len(Farewell \o <<<<"registration", new>>>>))
  BY DEF Register
<1>3. new \in Dicts /\ 0 \notin Dicts
  BY <1>1, CountTypes DEF Dicts
<1> HIDE DEF new
<1>4. {"registration", "disconnect"} \subseteq Commands \ Clientless
  BY CommandTypes
<1>5. /\ queue' \in Seq(Messages) /\ count' \in Counters
      /\ \E n \in 1 .. 2 : Puts(n)
      /\ Fine' => LastDecides' /\ NoSecondAccount'
  <2>1. CASE client = 0
    <3>1. Farewell \o <<<<"registration", new>>>> = <<<<"registration", new>>>>
      BY <2>1 DEF Farewell
    <3>2. Put(<<<<"registration", new>>>>) /\ Counted("regs", 1)
      BY <1>2, <3>1
    <3>3. count' \in Counters /\ count'.asked = count.asked + 1
      BY <1>1, <3>2, CountedTypes
    <3>4. /\ queue' \in Seq(Messages) /\ Puts(1)
          /\ Pending'[Len(Pending) + 1].command = "registration"
          /\ Pending'[Len(Pending) + 1].dict = new
      BY <1>1, <1>3, <1>4, <3>2, <3>3, PutOne
    <3>5. Fine' => LastDecides' /\ NoSecondAccount'
      BY <1>1, <2>1, <3>4, DecidingPut DEF AccountInv, Fine, Puts
    <3>6. QED BY <3>3, <3>4, <3>5
  <2>2. CASE client # 0
    <3>1. Farewell \o <<<<"registration", new>>>>
             = <<<<"disconnect", client>>, <<"registration", new>>>>
      BY <2>2, TwoInARow DEF Farewell
    <3>2. /\ Put(<<<<"disconnect", client>>, <<"registration", new>>>>)
          /\ Counted("regs", 2)
      BY <1>2, <3>1
    <3>3. count' \in Counters /\ count'.asked = count.asked + 2
      BY <1>1, <3>2, CountedTypes
    <3>4. client \in Dicts
      BY <2>2, TypesApart
    <3>5. /\ queue' \in Seq(Messages) /\ Puts(2)
          /\ Pending'[Len(Pending) + 1].command = "disconnect"
          /\ Pending'[Len(Pending) + 2].command = "registration"
          /\ Pending'[Len(Pending) + 2].dict = new
      BY <1>1, <1>3, <1>4, <3>2, <3>3, <3>4, PutTwo
    <3>6. Fine' => LastDecides' /\ NoSecondAccount'
      BY <1>1, <3>5, FarewellPut DEF AccountInv, Fine, Puts
    <3>7. QED BY <3>3, <3>5, <3>6
  <2>3. QED BY <2>1, <2>2
<1>6. dictCommand' \in [Dicts -> Commands \ Clientless]
  BY <1>1, <1>4, TypesApart
<1>7. TypeOK'
  <2>1. /\ client' \in Dicts \cup {0} /\ regEvent' \in Dicts \cup {0} /\ waiting' \subseteq Dicts
        /\ view' \in Words \cup {"registering"}
    BY <1>1, <1>3, TypesApart
  <2>2. QED BY <1>1, <1>5, <1>6, <2>1, TypesApart DEF TypeOK, Counters
<1>8. IdInv'
  BY <1>1, <1>5, IdsOfPuts
<1>9. QED BY <1>5, <1>7, <1>8 DEF AccountInv

\* The end of a wait: if the client is given up, the engine is not told.
LEMMA WaitKeeps ==
    ASSUME IInv, NEW d \in Dicts, RegistrationReturns(d) \/ RegistrationTimesOut(d)
    PROVE  IInv'
<1> USE DEF IInv
<1>1. /\ regEvent' = 0 /\ waiting' \subseteq waiting /\ client' \in {client, 0}
      /\ eventSet' \subseteq eventSet /\ view' \in {view, "registering"}
      /\ client' = client \/ "forgotten" \in mishaps'
      /\ mishaps' \in {mishaps, mishaps \cup {"forgotten"}}
      /\ UNCHANGED <<dictCommand, tasks, closing, queue, threadVars, engineVars, count>>
  BY TypesApart DEF RegistrationReturns, RegistrationTimesOut
<1>2. TypeOK'
  <2>1. mishaps' \subseteq Mishaps
    BY <1>1, TypesApart DEF Mishaps
  <2>2. /\ client' \in Dicts \cup {0} /\ regEvent' \in Dicts \cup {0}
        /\ waiting' \subseteq Dicts /\ eventSet' \subseteq Dicts
        /\ view' \in Words \cup {"registering"}
    BY <1>1, TypesApart
  <2>3. QED BY <1>1, <2>1, <2>2, TypesApart DEF TypeOK, Counters
<1>3. Pending' = Pending
  BY <1>1 DEF Pending
<1>4. mishaps \subseteq mishaps'
  BY <1>1
<1>5. CASE client' = client
  <2>1. IdInv' /\ AccountInv'
    BY <1>1, <1>3, <1>4, <1>5, NothingMoved
  <2>2. QED BY <1>2, <2>1
<1>6. CASE "forgotten" \in mishaps'
  <2>1. ~Fine'
    BY <1>6 DEF Fine
  <2>2. IdInv'
    <3>1. \A i, j : Before(i, j)' <=> Before(i, j)
      BY <1>3 DEF Before
    <3>2. QED BY <1>1, <1>3, <3>1 DEF IdInv, PendingIds, TaskIds
  <2>3. QED BY <1>2, <2>1, <2>2 DEF AccountInv
<1>7. QED BY <1>1, <1>5, <1>6

\* A disconnect: then there is no client.
LEMMA DisconnectKeeps ==
    ASSUME IInv, Disconnect
    PROVE  IInv'
<1> USE DEF IInv
<1>1. /\ client # 0 /\ count.requests < MaxRequests
      /\ dictCommand' = [dictCommand EXCEPT ![client] = "disconnect"]
      /\ Put(<<<<"disconnect", client>>>>) /\ Counted("requests", 1)
      /\ client' = 0 /\ view' = "registering"
      /\ UNCHANGED <<regEvent, waiting, tasks, closing, eventSet, threadVars, engineVars, mishaps>>
  BY DEF Disconnect, Request
<1>2. client \in Dicts \cup {0} /\ "disconnect" \in Commands \ Clientless
  BY CommandTypes, TypesApart
<1>3. count' \in Counters /\ count'.asked = count.asked + 1
  BY <1>1, CountedTypes
<1>4. /\ queue' \in Seq(Messages) /\ Puts(1)
      /\ Pending'[Len(Pending) + 1].command = "disconnect"
  BY <1>1, <1>2, <1>3, PutOne
<1>5. dictCommand' \in [Dicts -> Commands \ Clientless]
  BY <1>1, <1>2, TypesApart
<1>6. TypeOK'
  BY <1>1, <1>3, <1>4, <1>5, TypesApart DEF TypeOK, Counters
<1>7. IdInv'
  BY <1>1, <1>4, IdsOfPuts
<1>8. AccountInv'
  BY <1>1, <1>4, DecidingPut DEF AccountInv, Fine, Puts
<1>9. QED BY <1>6, <1>7, <1>8

\* A command about a call.
LEMMA CallKeeps ==
    ASSUME IInv, Call
    PROVE  IInv'
<1> USE DEF IInv
<1>1. /\ client # 0 /\ count.requests < MaxRequests
      /\ dictCommand' = [dictCommand EXCEPT ![client] = "call"]
      /\ Put(<<<<"call", client>>>>) /\ Counted("requests", 1)
      /\ UNCHANGED <<client, regEvent, waiting, tasks, closing, view, eventSet, threadVars,
                     engineVars, mishaps>>
  BY DEF Call, Request
<1>2. client \in Dicts \cup {0} /\ "call" \in Commands \ Clientless
  BY CommandTypes, TypesApart
<1>3. count' \in Counters /\ count'.asked = count.asked + 1
  BY <1>1, CountedTypes
<1>4. /\ queue' \in Seq(Messages) /\ Puts(1)
      /\ Pending'[Len(Pending) + 1].command = "call"
  BY <1>1, <1>2, <1>3, PutOne
<1>5. dictCommand' \in [Dicts -> Commands \ Clientless]
  BY <1>1, <1>2, TypesApart
<1>6. TypeOK'
  BY <1>1, <1>3, <1>4, <1>5, TypesApart DEF TypeOK, Counters
<1>7. IdInv'
  BY <1>1, <1>4, IdsOfPuts
<1>8. AccountInv'
  BY <1>1, <1>4, OtherPut DEF AccountInv, Fine, Puts
<1>9. QED BY <1>6, <1>7, <1>8

\* A command about no client.
LEMMA DeviceSwitchKeeps ==
    ASSUME IInv, NEW c \in DeviceSwitches, DeviceSwitch(c)
    PROVE  IInv'
<1> USE DEF IInv
<1>1. /\ count.requests < MaxRequests /\ Put(<<<<c, 0>>>>) /\ Counted("requests", 1)
      /\ UNCHANGED <<appVars, view, eventSet, threadVars, engineVars, mishaps>>
  BY DEF DeviceSwitch
<1>2. 0 \in Dicts \cup {0} /\ c \in Commands /\ c \in Clientless
  BY CommandTypes
<1>3. count' \in Counters /\ count'.asked = count.asked + 1
  BY <1>1, CountedTypes
<1>4. /\ queue' \in Seq(Messages) /\ Puts(1)
      /\ Pending'[Len(Pending) + 1].command = c
  BY <1>1, <1>2, <1>3, PutOne
<1>5. TypeOK'
  BY <1>1, <1>3, <1>4, TypesApart DEF TypeOK, Counters
<1>6. IdInv'
  BY <1>1, <1>4, IdsOfPuts
<1>7. c \notin {"registration", "disconnect"}
  BY <1>2, CommandTypes
<1>8. AccountInv'
  BY <1>1, <1>4, <1>7, OtherPut DEF AccountInv, Fine, Puts
<1>9. QED BY <1>5, <1>6, <1>8

\* A mute or its like changes the dict; the task sends what is there later.
LEMMA SwitchKeeps ==
    ASSUME IInv, NEW c \in Switches, Switch(c)
    PROVE  IInv'
<1> USE DEF IInv
<1> DEFINE t == [id |-> count.asked + 1, dict |-> client, command |-> c]
<1>1. /\ client # 0 /\ count.requests < MaxRequests
      /\ dictCommand' = [dictCommand EXCEPT ![client] = c]
      /\ tasks' = Append(tasks, t)
      /\ Counted("requests", 1)
      /\ UNCHANGED <<client, regEvent, waiting, closing, view, eventSet, queue, threadVars,
                     engineVars, mishaps>>
  BY DEF Switch, Request
<1>2. client \in Dicts /\ c \in Commands \ Clientless
  BY <1>1, CommandTypes, TypesApart
<1>3. count' \in Counters /\ count'.asked = count.asked + 1
  BY <1>1, CountedTypes
<1>4. dictCommand' \in [Dicts -> Commands \ Clientless]
  BY <1>1, <1>2, TypesApart
<1>5. t \in Tasks /\ t.id = count.asked + 1
  BY <1>2, CountTypes DEF Tasks
<1> HIDE DEF t
<1>6. tasks' \in Seq(Tasks)
  <2>1. tasks \in Seq(Tasks)
    BY TypesApart
  <2>2. QED BY <1>1, <1>5, <2>1, AppendProperties
<1>7. TypeOK'
  BY <1>1, <1>3, <1>4, <1>6, TypesApart DEF TypeOK, Counters
<1>8. Pending' = Pending
  BY <1>1 DEF Pending
<1>9. IdInv'
  BY <1>1, <1>3, <1>5, <1>8, IdsOfSwitch
<1>10. AccountInv'
  <2>1. \A i : Decides(i)' <=> Decides(i)
    BY <1>8 DEF Decides
  <2>2. QED BY <1>1, <1>8, <2>1 DEF AccountInv, Fine, LastDecides, NoSecondAccount
<1>11. QED BY <1>7, <1>9, <1>10

\* A task sends what the dict says now: another command is a mishap.
LEMMA TaskKeeps ==
    ASSUME IInv, RunTask
    PROVE  IInv'
<1> USE DEF IInv
<1> DEFINE task == Head(tasks)
           now == dictCommand[task.dict]
           new == Message(task.id, now, task.dict, "task")
<1>1. /\ tasks # << >> /\ tasks' = Tail(tasks) /\ queue' = Append(queue, new)
      /\ mishaps' = mishaps \cup IF now = task.command THEN {} ELSE {"overwritten"}
      /\ UNCHANGED <<client, dictCommand, regEvent, waiting, closing, view, eventSet, threadVars,
                     engineVars, count>>
  BY DEF RunTask
<1>2. task \in Tasks /\ tasks' \in Seq(Tasks) /\ task = tasks[1]
  BY <1>1, TypesApart, HeadTailProperties
<1>3. task.id \in Nat /\ task.dict \in Dicts /\ task.command \in Switches
  BY <1>2 DEF Tasks
<1>4. now \in Commands \ Clientless /\ 0 \notin Dicts
  BY <1>3, TypesApart DEF Dicts
<1> HIDE DEF task, now
<1>5. /\ new \in Messages /\ new.id = task.id /\ new.command = now /\ new.by = "task"
  BY <1>3, <1>4, MessageTypes
<1> HIDE DEF new
<1>6. /\ queue' \in Seq(Messages) /\ Grows(1)
      /\ Pending'[Len(Pending) + 1] = new
  <2>1. queue \in Seq(Messages)
    BY TypesApart
  <2> DEFINE one == <<new>>
  <2>2. queue' = queue \o one /\ one \in Seq(Messages)
    BY <1>1, <1>5, <2>1, AppendIsConcat
  <2>3. Len(one) = 1 /\ one[1] = new /\ toEngine' = toEngine
    BY <1>1
  <2> HIDE DEF one
  <2>4. /\ queue' \in Seq(Messages) /\ Grows(1)
        /\ \A i \in 1 .. 1 : Pending'[Len(Pending) + i] = one[i]
    BY <2>2, <2>3, QueueGrows
  <2>5. QED BY <2>3, <2>4
<1>7. mishaps' \subseteq Mishaps
  BY <1>1, TypesApart DEF Mishaps
<1>8. TypeOK'
  BY <1>1, <1>2, <1>6, <1>7, TypesApart DEF TypeOK, Counters
<1>9. IdInv'
  BY <1>1, <1>2, <1>5, <1>6, IdsOfTask
<1>10. AccountInv'
  <2>1. CASE now = task.command
    <3>1. now \notin {"registration", "disconnect"}
      BY <1>3, <2>1, CommandTypes
    <3>2. QED BY <1>1, <1>5, <1>6, <2>1, <3>1, OtherPut DEF AccountInv, Fine
  <2>2. CASE now # task.command
    BY <1>1, <2>2 DEF AccountInv, Fine
  <2>3. QED BY <2>1, <2>2
<1>11. QED BY <1>8, <1>9, <1>10

\* The last command of all.
LEMMA CloseKeeps ==
    ASSUME IInv, Close
    PROVE  IInv'
<1> USE DEF IInv
<1>1. /\ closing' = TRUE /\ Put(<<<<"destroy", 0>>>>) /\ startManager' = startManager
      /\ count' = [count EXCEPT !.asked = @ + 1]
      /\ UNCHANGED <<client, dictCommand, regEvent, waiting, tasks, view, eventSet, sock, readVars,
                     toEngine, toSdk, engineVars, mishaps>>
  BY DEF Close, StaysUntilSent
<1>2. "destroy" \in Commands /\ "destroy" \in Clientless /\ 0 \in Dicts \cup {0}
  BY CommandTypes
<1>3. count' \in Counters /\ count'.asked = count.asked + 1
  BY <1>1, CountedTypes
<1>4. /\ queue' \in Seq(Messages) /\ Puts(1)
      /\ Pending'[Len(Pending) + 1].command = "destroy"
  BY <1>1, <1>2, <1>3, PutOne
<1>5. TypeOK'
  BY <1>1, <1>3, <1>4, TypesApart DEF TypeOK, Counters
<1>6. IdInv'
  BY <1>1, <1>4, IdsOfPuts
<1>7. AccountInv'
  BY <1>1, <1>4, OtherPut DEF AccountInv, Fine, Puts
<1>8. QED BY <1>5, <1>6, <1>7

-----------------------------------------------------------------------------
(* tcp_thread and the connection *)

\* A new connection.
LEMMA ConnectKeeps ==
    ASSUME IInv, Connect
    PROVE  IInv'
<1> USE DEF IInv
<1>1. /\ sock' = "open"
      /\ UNCHANGED <<appVars, view, eventSet, queue, startManager, readVars, toEngine, toSdk,
                     engineVars, mishaps, count>>
  BY DEF Connect
<1>2. TypeOK'
  BY <1>1, TypesApart DEF TypeOK, Counters
<1>3. IdInv' /\ AccountInv'
  BY <1>1, NothingMoved DEF Pending
<1>4. QED BY <1>2, <1>3

\* Nothing of what is read changes what the SDK has asked for.
LEMMA ReceiveKeeps ==
    ASSUME IInv, Receive
    PROVE  IInv'
<1> USE DEF IInv
<1> DEFINE state == Head(toSdk)
           last  == IF reading THEN kept ELSE kept + 1
<1>1. /\ last \in 1 .. Len(toSdk)
      /\ UNCHANGED <<appVars, queue, startManager, toEngine, engineVars, count>>
  BY DEF Receive
<1>2. toSdk \in Seq(Words \cup {"half"}) /\ Len(toSdk) \in Nat /\ toSdk # << >>
  BY <1>1, TypesApart
<1>3. /\ state \in Words \cup {"half"} /\ Tail(toSdk) \in Seq(Words \cup {"half"})
      /\ Len(Tail(toSdk)) = Len(toSdk) - 1
  BY <1>2, HeadTailProperties
<1> HIDE DEF state, last
<1>4. CASE halfLine /\ state # "half"
  <2>1. PICK i \in last .. Len(toSdk) :
           \/ toSdk' = SubSeq(toSdk, 2, i) /\ kept' = i - 1
           \/ /\ i < Len(toSdk) /\ kept' = i
              /\ toSdk' = Append(SubSeq(toSdk, 2, i), "half")
    BY <1>4 DEF Receive, state, last
  <2>2. /\ halfLine' = FALSE /\ reading' = FALSE /\ sock' = "none"
        /\ mishaps' = mishaps \cup {"missed"} /\ UNCHANGED <<view, eventSet>>
    BY <1>4 DEF Receive, state, last
  <2>3. i \in 0 .. Len(toSdk) /\ i \in 1 .. Len(toSdk) /\ 2 \in 1 .. 2
    BY <1>1, <1>2
  <2> DEFINE cut == SubSeq(toSdk, 2, i)
  <2>4. /\ cut \in Seq(Words \cup {"half"})
        /\ Append(cut, "half") \in Seq(Words \cup {"half"})
        /\ Len(cut) = i - 1 /\ Len(Append(cut, "half")) = i
    <3>1. /\ cut \in Seq(Words \cup {"half"})
          /\ Append(cut, "half") \in Seq(Words \cup {"half"})
          /\ Len(cut) = (IF 2 <= i THEN (i - 2) + 1 ELSE 0)
          /\ Len(Append(cut, "half")) = Len(cut) + 1
      BY <2>3, CutTypes
    <3> HIDE DEF cut
    <3>2. QED BY <2>3, <3>1
  <2>5. toSdk' \in Seq(Words \cup {"half"}) /\ kept' \in 0 .. Len(toSdk')
    <3>1. \/ toSdk' = cut /\ kept' = i - 1
          \/ toSdk' = Append(cut, "half") /\ kept' = i
      BY <2>1
    <3> HIDE DEF cut
    <3>2. QED BY <2>3, <2>4, <3>1
  <2>6. mishaps' \subseteq Mishaps /\ mishaps \subseteq mishaps'
    BY <2>2, TypesApart DEF Mishaps
  <2>7. TypeOK'
    BY <1>1, <2>2, <2>5, <2>6, TypesApart DEF TypeOK, Counters
  <2>8. IdInv' /\ AccountInv'
    BY <1>1, <2>6, NothingMoved DEF Pending
  <2>9. QED BY <2>7, <2>8
<1>5. CASE ~(halfLine /\ state # "half")
  <2>1. /\ toSdk' = Tail(toSdk) /\ kept' = last - 1
        /\ halfLine' = (state = "half") /\ reading' = (last > 1)
        /\ Show(state) /\ UNCHANGED <<sock, mishaps>>
    BY <1>5 DEF Receive, state, last
  <2>2. view' \in Words \cup {"registering"} /\ eventSet' \subseteq Dicts
    BY <1>3, <2>1, TypesApart DEF Show
  <2>3. kept' \in 0 .. Len(toSdk') /\ toSdk' \in Seq(Words \cup {"half"})
    BY <1>1, <1>2, <1>3, <2>1
  <2>4. halfLine' \in BOOLEAN /\ reading' \in BOOLEAN
    BY <2>1
  <2>5. TypeOK'
    BY <1>1, <2>1, <2>2, <2>3, <2>4, TypesApart DEF TypeOK, Counters
  <2>6. IdInv' /\ AccountInv'
    BY <1>1, <2>1, NothingMoved DEF Pending
  <2>7. QED BY <2>5, <2>6
<1>6. QED BY <1>4, <1>5

\* Only what recv_buffer keeps is left of the states.
LEMMA HangupTypes ==
    ASSUME TypeOK, Hangup, kept' = kept
    PROVE  sock' = "none" /\ toSdk' \in Seq(Words \cup {"half"}) /\ kept' \in 0 .. Len(toSdk')
<1>1. kept \in 0 .. Len(toSdk) /\ 1 \in 1 .. 2
  BY TypesApart
<1>2. sock' = "none" /\ toSdk' = SubSeq(toSdk, 1, kept)
  BY DEF Hangup
<1>3. /\ toSdk' \in Seq(Words \cup {"half"})
      /\ Len(toSdk') = (IF 1 <= kept THEN (kept - 1) + 1 ELSE 0)
  BY <1>1, <1>2, CutTypes
<1>4. QED BY <1>1, <1>2, <1>3

\* The end of a connection, noticed while reading.
LEMMA ReceiveFailsKeeps ==
    ASSUME IInv, ReceiveFails
    PROVE  IInv'
<1> USE DEF IInv
<1>1. /\ Hangup /\ mishaps' = mishaps \cup Missed(kept)
      /\ UNCHANGED <<appVars, view, eventSet, queue, startManager, readVars, toEngine, engineVars,
                     count>>
  BY DEF ReceiveFails
<1>2. mishaps' \subseteq Mishaps /\ mishaps \subseteq mishaps'
  BY <1>1, MissedTypes, TypesApart DEF Mishaps
<1>3. sock' = "none" /\ toSdk' \in Seq(Words \cup {"half"}) /\ kept' \in 0 .. Len(toSdk')
  BY <1>1, HangupTypes
<1>4. TypeOK'
  BY <1>1, <1>2, <1>3, TypesApart DEF TypeOK, Counters
<1>5. IdInv' /\ AccountInv'
  BY <1>1, <1>2, NothingMoved DEF Pending
<1>6. QED BY <1>4, <1>5

\* A command that is sent goes on waiting, at the engine.
LEMMA SendKeeps ==
    ASSUME IInv, SendOne
    PROVE  IInv'
<1> USE DEF IInv
<1>1. /\ queue # << >> /\ queue' = Tail(queue) /\ toEngine' = Append(toEngine, Head(queue))
      /\ startManager' \in BOOLEAN
      /\ UNCHANGED <<appVars, view, eventSet, sock, readVars, toSdk, engineVars, mishaps, count>>
  BY DEF SendOne
<1>2. queue \in Seq(Messages) /\ toEngine \in Seq(Messages)
  BY TypesApart
<1>3. /\ Head(queue) \in Messages /\ Tail(queue) \in Seq(Messages)
      /\ queue = <<Head(queue)>> \o Tail(queue)
  <2>1. /\ Head(queue) \in Messages /\ Tail(queue) \in Seq(Messages)
        /\ Len(Tail(queue)) = Len(queue) - 1
        /\ \A i \in 1 .. Len(Tail(queue)) : Tail(queue)[i] = queue[i + 1]
    BY <1>1, <1>2, HeadTailProperties
  <2>2. <<Head(queue)>> \in Seq(Messages)
    BY <2>1
  <2>3. Len(<<Head(queue)>>) = 1 /\ <<Head(queue)>>[1] = queue[1]
    BY <1>1, <1>2
  <2>4. /\ <<Head(queue)>> \o Tail(queue) \in Seq(Messages)
        /\ Len(<<Head(queue)>> \o Tail(queue)) = Len(<<Head(queue)>>) + Len(Tail(queue))
        /\ \A i \in 1 .. Len(<<Head(queue)>>) + Len(Tail(queue)) :
              (<<Head(queue)>> \o Tail(queue))[i] =
                 IF i <= Len(<<Head(queue)>>) THEN <<Head(queue)>>[i]
                 ELSE Tail(queue)[i - Len(<<Head(queue)>>)]
    BY <2>1, <2>2, ConcatProperties
  <2>5. Len(queue) \in Nat /\ Len(queue) # 0
    BY <1>1, <1>2
  <2>6. Len(<<Head(queue)>> \o Tail(queue)) = Len(queue)
    BY <2>1, <2>3, <2>4, <2>5
  <2>7. ASSUME NEW i \in 1 .. Len(queue) PROVE queue[i] = (<<Head(queue)>> \o Tail(queue))[i]
    <3>1. CASE i = 1
      BY <2>1, <2>3, <2>4, <2>5, <3>1
    <3>2. CASE i # 1
      <4>1. i - 1 \in 1 .. Len(Tail(queue)) /\ (i - 1) + 1 = i
        BY <2>1, <2>5, <3>2
      <4>2. QED BY <2>1, <2>3, <2>4, <2>5, <3>2, <4>1
    <3>3. QED BY <3>1, <3>2
  <2>8. QED BY <1>2, <2>1, <2>4, <2>6, <2>7, SeqEqual
<1>4. toEngine' \in Seq(Messages) /\ toEngine' = toEngine \o <<Head(queue)>>
  BY <1>1, <1>2, <1>3, AppendProperties, AppendIsConcat
<1>5. Pending' = Pending
  <2>1. <<Head(queue)>> \in Seq(Messages)
    BY <1>3
  <2>2. (toEngine \o <<Head(queue)>>) \o Tail(queue) = toEngine \o (<<Head(queue)>> \o Tail(queue))
    BY <1>2, <1>3, <2>1, ConcatAssociative
  <2>3. Pending' = (toEngine \o <<Head(queue)>>) \o Tail(queue)
    BY <1>1, <1>4 DEF Pending
  <2>4. QED BY <1>3, <2>2, <2>3 DEF Pending
<1>6. TypeOK'
  BY <1>1, <1>3, <1>4, TypesApart DEF TypeOK, Counters
<1>7. IdInv' /\ AccountInv'
  BY <1>1, <1>5, NothingMoved
<1>8. QED BY <1>6, <1>7

\* A command that goes to a broken connection is lost.
LEMMA SendFailsKeeps ==
    ASSUME IInv, SendFails
    PROVE  IInv'
<1> USE DEF IInv
<1>1. /\ queue # << >> /\ queue' = Tail(queue) /\ startManager' \in BOOLEAN
      /\ Hangup \/ UNCHANGED <<sock, toSdk>>
      /\ "lost" \in mishaps' /\ mishaps' \subseteq mishaps \cup {"lost", "missed"}
      /\ UNCHANGED <<appVars, view, eventSet, readVars, toEngine, engineVars, count>>
  BY MissedTypes, TypesApart DEF SendFails, Taken
<1>2. mishaps' \subseteq Mishaps
  BY <1>1, TypesApart DEF Mishaps
<1>3. /\ sock' \in {"none", "open", "dead"}
      /\ toSdk' \in Seq(Words \cup {"half"}) /\ kept' \in 0 .. Len(toSdk')
  <2>1. CASE Hangup
    BY <1>1, <2>1, HangupTypes
  <2>2. CASE UNCHANGED <<sock, toSdk>>
    BY <1>1, <2>2, TypesApart
  <2>3. QED BY <1>1, <2>1, <2>2
<1>4. /\ queue' \in Seq(Messages) /\ Len(queue') = Len(queue) - 1
      /\ \A i \in 1 .. Len(queue') : queue'[i] = queue[i + 1]
  BY <1>1, TypesApart, HeadTailProperties
<1>5. TypeOK'
  BY <1>1, <1>2, <1>3, <1>4, TypesApart DEF TypeOK, Counters
<1>6. Removes(Len(toEngine), 1)
  <2>1. Len(toEngine) \in Nat /\ Len(queue) \in Nat /\ Len(queue) # 0
    BY <1>1, TypesApart
  <2>2. /\ Len(Pending') = Len(toEngine) + Len(queue')
        /\ \A i \in 1 .. Len(Pending') :
              Pending'[i] = IF i <= Len(toEngine) THEN toEngine[i] ELSE queue'[i - Len(toEngine)]
    <3>1. /\ Len(toEngine \o queue') = Len(toEngine) + Len(queue')
          /\ \A i \in 1 .. Len(toEngine) + Len(queue') : (toEngine \o queue')[i] =
                IF i <= Len(toEngine) THEN toEngine[i] ELSE queue'[i - Len(toEngine)]
      <4>1. toEngine \in Seq(Messages) /\ queue' \in Seq(Messages)
        BY <1>4, TypesApart
      <4>2. QED BY <4>1, ConcatProperties
    <3>2. Pending' = toEngine \o queue'
      BY <1>1 DEF Pending
    <3>3. QED BY <1>4, <2>1, <3>1, <3>2
  <2>3. Len(Pending') = Len(Pending) - 1 /\ Len(toEngine) \in 0 .. Len(Pending')
    BY <1>4, <2>1, <2>2, PendingTypes
  <2>4. ASSUME NEW i \in 1 .. Len(Pending')
        PROVE  Pending'[i] = Pending[IF i <= Len(toEngine) THEN i ELSE i + 1]
    <3>1. CASE i <= Len(toEngine)
      <4>1. i \in 1 .. Len(Pending) /\ Pending'[i] = toEngine[i]
        BY <2>1, <2>2, <2>3, <3>1, PendingTypes
      <4>2. QED BY <3>1, <4>1, PendingTypes
    <3>2. CASE ~(i <= Len(toEngine))
      <4>1. /\ i + 1 \in 1 .. Len(Pending) /\ ~(i + 1 <= Len(toEngine))
            /\ i - Len(toEngine) \in 1 .. Len(queue')
            /\ (i + 1) - Len(toEngine) = (i - Len(toEngine)) + 1
        BY <2>1, <2>2, <2>3, <3>2, PendingTypes
      <4>2. Pending'[i] = queue[(i - Len(toEngine)) + 1]
        BY <1>4, <2>2, <3>2, <4>1
      <4>3. Pending[i + 1] = queue[(i + 1) - Len(toEngine)]
        BY <4>1, PendingTypes
      <4>4. QED BY <3>2, <4>1, <4>2, <4>3
    <3>3. QED BY <3>1, <3>2
  <2>5. QED BY <1>1, <2>3, <2>4 DEF Removes
<1>7. IdInv'
  BY <1>1, <1>6, IdsOfRemoves, PendingTypes
<1>8. AccountInv'
  BY <1>1 DEF AccountInv, Fine
<1>9. QED BY <1>5, <1>7, <1>8

\* Of the commands on their way only the first i still arrive.
LEMMA BreakKeeps ==
    ASSUME IInv, Break
    PROVE  IInv'
<1> USE DEF IInv
<1>1. /\ sock' = "dead" /\ count.breaks < MaxBreaks /\ count' = [count EXCEPT !.breaks = @ + 1]
      /\ UNCHANGED <<appVars, view, eventSet, queue, startManager, readVars, engineVars>>
  BY DEF Break
<1>2. PICK i \in 0 .. Len(toEngine), j \in kept .. Len(toSdk) :
         /\ toEngine' = SubSeq(toEngine, 1, i)
         /\ \/ toSdk' = SubSeq(toSdk, 1, j)
            \/ j < Len(toSdk) /\ toSdk' = Append(SubSeq(toSdk, 1, j), "half")
         /\ mishaps' = mishaps \cup (IF i < Len(toEngine) THEN {"lost"} ELSE {}) \cup Missed(j)
  BY DEF Break
<1>3. /\ toEngine \in Seq(Messages) /\ queue \in Seq(Messages)
      /\ toSdk \in Seq(Words \cup {"half"})
      /\ Len(toEngine) \in Nat /\ Len(queue) \in Nat /\ Len(toSdk) \in Nat
      /\ kept \in 0 .. Len(toSdk)
  BY TypesApart
<1>4. /\ toEngine' \in Seq(Messages) /\ Len(toEngine') = i
      /\ \A l \in 1 .. i : toEngine'[l] = toEngine[l]
  <2>1. toEngine' = SubSeq(toEngine, 1, i) /\ i \in 0 .. Len(toEngine)
    BY <1>2
  <2>2. \A l \in 1 .. i : toEngine[l] \in Messages
    BY <1>3, <2>1
  <2>3. QED BY <1>3, <2>1, <2>2
<1>5. toSdk' \in Seq(Words \cup {"half"}) /\ kept' \in 0 .. Len(toSdk')
  <2> DEFINE cut == SubSeq(toSdk, 1, j)
  <2>1. j \in 0 .. Len(toSdk) /\ kept <= j /\ 1 \in 1 .. 2
    BY <1>2, <1>3
  <2>2. /\ cut \in Seq(Words \cup {"half"})
        /\ Append(cut, "half") \in Seq(Words \cup {"half"})
        /\ Len(cut) = (IF 1 <= j THEN (j - 1) + 1 ELSE 0)
        /\ Len(Append(cut, "half")) = Len(cut) + 1
    BY <2>1, CutTypes
  <2>3. (toSdk' = cut \/ toSdk' = Append(cut, "half")) /\ kept' = kept
    BY <1>1, <1>2
  <2> HIDE DEF cut
  <2>4. Len(cut) = j
    BY <2>1, <2>2
  <2>5. toSdk' \in Seq(Words \cup {"half"}) /\ (Len(toSdk') = j \/ Len(toSdk') = j + 1)
    BY <2>2, <2>3, <2>4
  <2>6. QED BY <1>3, <2>1, <2>3, <2>5
<1>6. mishaps' \subseteq Mishaps /\ mishaps \subseteq mishaps'
  BY <1>2, MissedTypes, TypesApart DEF Mishaps
<1>7. count' \in Counters /\ count'.asked = count.asked
  BY <1>1, CountedTypes
<1>8. TypeOK'
  BY <1>1, <1>4, <1>5, <1>6, <1>7, TypesApart DEF TypeOK, Counters
<1>9. CASE i < Len(toEngine)
  <2>1. ~Fine'
    BY <1>2, <1>9 DEF Fine
  <2>2. Removes(i, Len(toEngine) - i)
    <3>1. Pending' = toEngine' \o queue /\ Len(toEngine') = i
      BY <1>1, <1>4 DEF Pending
    <3>2. toEngine' \in Seq(Messages) /\ queue \in Seq(Messages)
      BY <1>3, <1>4
    <3>3. Len(Pending') = i + Len(queue)
      BY <3>1, <3>2, ConcatProperties
    <3>4. ASSUME NEW l \in 1 .. i + Len(queue)
          PROVE  Pending'[l] = IF l <= i THEN toEngine'[l] ELSE queue[l - i]
      BY <3>1, <3>2, ConcatProperties
    <3>5. Len(Pending') = Len(Pending) - (Len(toEngine) - i) /\ i \in 0 .. Len(Pending')
      <4>1. Len(Pending) = Len(toEngine) + Len(queue)
        BY PendingTypes
      <4>2. QED BY <1>2, <1>3, <3>3, <4>1
    <3>6. ASSUME NEW l \in 1 .. Len(Pending')
          PROVE  Pending'[l] = Pending[IF l <= i THEN l ELSE l + (Len(toEngine) - i)]
      <4>1. CASE l <= i
        <5>1. /\ l \in 1 .. i /\ l \in 1 .. Len(Pending)
              /\ l <= Len(toEngine) /\ l \in 1 .. i + Len(queue)
          BY <1>2, <1>3, <3>3, <4>1, PendingTypes
        <5>2. Pending[l] = toEngine[l]
          BY <5>1, PendingTypes
        <5>3. QED BY <1>4, <3>4, <4>1, <5>1, <5>2
      <4>2. CASE ~(l <= i)
        <5>1. /\ l \in 1 .. i + Len(queue)
              /\ l + (Len(toEngine) - i) \in 1 .. Len(Pending)
              /\ ~(l + (Len(toEngine) - i) <= Len(toEngine))
              /\ (l + (Len(toEngine) - i)) - Len(toEngine) = l - i
          BY <1>2, <1>3, <3>3, <4>2, PendingTypes
        <5>2. Pending[l + (Len(toEngine) - i)] = queue[(l + (Len(toEngine) - i)) - Len(toEngine)]
          BY <5>1, PendingTypes
        <5>3. QED BY <3>4, <4>2, <5>1, <5>2
      <4>3. QED BY <4>1, <4>2
    <3>7. QED BY <1>7, <3>5, <3>6 DEF Removes
  <2>3. i \in Nat /\ Len(toEngine) - i \in Nat
    BY <1>2, <1>3
  <2>4. IdInv'
    BY <1>1, <2>2, <2>3, IdsOfRemoves
  <2>5. QED BY <1>8, <2>1, <2>4 DEF AccountInv
<1>10. CASE i = Len(toEngine)
  <2>1. toEngine' = toEngine
    BY <1>3, <1>4, <1>10, SeqEqual
  <2>2. Pending' = Pending
    BY <1>1, <2>1 DEF Pending
  <2>3. IdInv' /\ AccountInv'
    BY <1>1, <1>6, <1>7, <2>2, NothingMoved
  <2>4. QED BY <1>8, <2>3
<1>11. QED BY <1>2, <1>3, <1>9, <1>10

-----------------------------------------------------------------------------
(* The engine *)

\* What a command that is worked on leaves.
LEMMA HandleTypes ==
    ASSUME TypeOK, IdInv, NEW c, Handle(c)
    PROVE  /\ toEngine' \in Seq(Messages) /\ handled' \in [Senders -> Nat]
           /\ Removes(0, 1) /\ IdInv'
           /\ Pending[1].command = c /\ 1 \in 1 .. Len(Pending)
           /\ Head(toEngine) = Pending[1] /\ Pending[1].dict \in Dicts \cup {0}
<1>1. /\ toEngine # << >> /\ Head(toEngine).command = c
      /\ toEngine' = Tail(toEngine)
      /\ handled' = [handled EXCEPT ![Head(toEngine).by] = Head(toEngine).id]
      /\ queue' = queue /\ count' = count /\ tasks' = tasks
  BY DEF Handle
<1>2. /\ toEngine \in Seq(Messages) /\ queue \in Seq(Messages)
      /\ Len(toEngine) \in Nat /\ Len(queue) \in Nat /\ Len(toEngine) # 0
  BY <1>1, TypesApart
<1>3. /\ toEngine' \in Seq(Messages) /\ Len(toEngine') = Len(toEngine) - 1
      /\ \A i \in 1 .. Len(toEngine') : toEngine'[i] = toEngine[i + 1]
  BY <1>1, <1>2, HeadTailProperties
<1>4. Head(toEngine) = toEngine[1]
  BY <1>1, <1>2
<1>5. 1 \in 1 .. Len(Pending) /\ Pending[1] = toEngine[1]
  BY <1>2, PendingTypes
<1>6. /\ Len(Pending') = Len(toEngine') + Len(queue)
      /\ \A i \in 1 .. Len(toEngine') + Len(queue) :
            Pending'[i] = IF i <= Len(toEngine') THEN toEngine'[i] ELSE queue[i - Len(toEngine')]
  <2>1. Pending' = toEngine' \o queue
    BY <1>1 DEF Pending
  <2>2. QED BY <1>2, <1>3, <2>1, ConcatProperties
<1>7. Len(Pending') = Len(Pending) - 1 /\ 0 \in 0 .. Len(Pending')
  BY <1>2, <1>3, <1>6, PendingTypes
<1>8. ASSUME NEW i \in 1 .. Len(Pending') PROVE Pending'[i] = Pending[IF i <= 0 THEN i ELSE i + 1]
  <2>1. i + 1 \in 1 .. Len(Pending) /\ ~(i <= 0) /\ i \in 1 .. Len(toEngine') + Len(queue)
    BY <1>2, <1>3, <1>6, <1>7, PendingTypes
  <2>2. CASE i <= Len(toEngine')
    <3>1. i \in 1 .. Len(toEngine') /\ i + 1 <= Len(toEngine)
      BY <1>2, <1>3, <2>2
    <3>2. Pending[i + 1] = toEngine[i + 1]
      BY <2>1, <3>1, PendingTypes
    <3>3. QED BY <1>3, <1>6, <2>1, <2>2, <3>1, <3>2
  <2>3. CASE ~(i <= Len(toEngine'))
    <3>1. ~(i + 1 <= Len(toEngine)) /\ (i + 1) - Len(toEngine) = i - Len(toEngine')
      BY <1>2, <1>3, <2>3
    <3>2. Pending[i + 1] = queue[(i + 1) - Len(toEngine)]
      BY <2>1, <3>1, PendingTypes
    <3>3. QED BY <1>6, <2>1, <2>3, <3>1, <3>2
  <2>4. QED BY <2>2, <2>3
<1>9. Removes(0, 1)
  BY <1>1, <1>7, <1>8 DEF Removes
<1>10. IdInv'
  BY <1>1, <1>4, <1>5, <1>9, IdsOfRemoves
<1>11. handled' \in [Senders -> Nat]
  <2>1. Pending[1].id \in Nat /\ Pending[1].by \in Senders /\ handled \in [Senders -> Nat]
    BY <1>5, PendingTypes, TypesApart
  <2>2. QED BY <1>1, <1>4, <1>5, <2>1
<1>12. QED BY <1>1, <1>3, <1>4, <1>5, <1>9, <1>10, <1>11, PendingTypes

\* A state that is said.
LEMMA SayTypes ==
    ASSUME TypeOK, NEW state \in Words, Say(state)
    PROVE  /\ word' \in (Words \ {"registered"}) \cup {"nothing"} /\ refreshed' \in BOOLEAN
           /\ toSdk' \in Seq(Words \cup {"half"})
           /\ \A n \in 0 .. Len(toSdk) : n \in 0 .. Len(toSdk')
           /\ mishaps' \subseteq Mishaps /\ mishaps \ {"missed", "stray"} \subseteq mishaps'
<1>1. word' \in (Words \ {"registered"}) \cup {"nothing"} /\ refreshed' \in BOOLEAN
  BY TypesApart DEF Say
<1>2. Stray(state) \subseteq {"stray"} /\ MadeGood(state) \subseteq {"missed", "stray"}
  BY DEF Stray, MadeGood
<1>3. toSdk \in Seq(Words \cup {"half"}) /\ Len(toSdk) \in Nat /\ mishaps \subseteq Mishaps
  BY TypesApart
<1>4. CASE sock = "open"
  <2>1. /\ toSdk' = Append(toSdk, state)
        /\ mishaps' = (mishaps \ MadeGood(state)) \cup Stray(state)
    BY <1>4 DEF Say
  <2>2. toSdk' \in Seq(Words \cup {"half"}) /\ Len(toSdk') = Len(toSdk) + 1
    BY <1>3, <2>1, AppendProperties
  <2>3. \A n \in 0 .. Len(toSdk) : n \in 0 .. Len(toSdk')
    BY <1>3, <2>2
  <2>4. mishaps' \subseteq Mishaps /\ mishaps \ {"missed", "stray"} \subseteq mishaps'
    BY <1>2, <1>3, <2>1 DEF Mishaps
  <2>5. QED BY <1>1, <2>2, <2>3, <2>4
<1>5. CASE sock # "open"
  <2>1. toSdk' = toSdk /\ mishaps' = mishaps \cup {"missed"} \cup Stray(state)
    BY <1>5 DEF Say
  <2>2. mishaps' \subseteq Mishaps /\ mishaps \subseteq mishaps'
    BY <1>2, <1>3, <2>1 DEF Mishaps
  <2>3. QED BY <1>1, <1>3, <2>1, <2>2
<1>6. QED BY <1>4, <1>5

\* What the engine may say with a command leaves the types as they are.
LEMMA SaidTypes ==
    ASSUME TypeOK, NEW state \in Words, Say(state) \/ UNCHANGED saidVars
    PROVE  /\ word' \in (Words \ {"registered"}) \cup {"nothing"} /\ refreshed' \in BOOLEAN
           /\ toSdk' \in Seq(Words \cup {"half"}) /\ kept \in 0 .. Len(toSdk')
           /\ mishaps' \subseteq Mishaps /\ mishaps \ {"missed", "stray"} \subseteq mishaps'
<1>1. CASE Say(state)
  BY <1>1, SayTypes, TypesApart
<1>2. CASE UNCHANGED saidVars
  BY <1>2, TypesApart
<1>3. QED BY <1>1, <1>2

\* There is no account yet, unless a mishap has happened.
LEMMA RegistrationKeeps ==
    ASSUME IInv, HandleRegistration
    PROVE  IInv'
<1> USE DEF IInv
<1>1. /\ Handle("registration") /\ UNCHANGED <<running, answered, call, word, refreshed, toSdk>>
      /\ UNCHANGED <<appVars, view, eventSet, queue, startManager, sock, readVars, count>>
      /\ \/ account = 0 /\ account' = Head(toEngine).dict /\ mishaps' = mishaps
         \/ account = 0 /\ mishaps' = mishaps \cup {"refused"} /\ UNCHANGED account
         \/ account # 0 /\ UNCHANGED <<account, mishaps>>
  BY DEF HandleRegistration, Handle, AccountIsNew
<1>2. /\ toEngine' \in Seq(Messages) /\ handled' \in [Senders -> Nat] /\ Removes(0, 1) /\ IdInv'
      /\ Pending[1].command = "registration" /\ 1 \in 1 .. Len(Pending)
      /\ Head(toEngine) = Pending[1] /\ Pending[1].dict \in Dicts \cup {0}
  BY <1>1, HandleTypes
<1>3. account' \in Dicts \cup {0} /\ mishaps' \subseteq Mishaps
  BY <1>1, <1>2, TypesApart DEF Mishaps
<1>4. TypeOK'
  BY <1>1, <1>2, <1>3, TypesApart DEF TypeOK, Counters
<1>5. ASSUME Fine' PROVE LastDecides' /\ NoSecondAccount'
  <2>1. mishaps' = mishaps
    BY <1>1, <1>5 DEF Fine
  <2>2. LastDecides /\ NoSecondAccount
    BY <1>1, <1>5, <2>1 DEF AccountInv, Fine
  <2>3. \A j \in 1 .. Len(Pending) : ~(j < 1)
    BY PendingTypes
  <2>4. account = 0
    BY <1>2, <2>2, <2>3 DEF NoSecondAccount
  <2>5. account' = Pending[1].dict
    BY <1>1, <1>2, <1>5, <2>4 DEF Fine
  <2>6. QED BY <1>1, <1>2, <2>2, <2>5, FrontDone
<1>6. QED BY <1>2, <1>4, <1>5 DEF AccountInv

\* After a disconnect there is none.
LEMMA HandleDisconnectKeeps ==
    ASSUME IInv, HandleDisconnect
    PROVE  IInv'
<1> USE DEF IInv
<1>1. /\ Handle("disconnect") /\ account' = 0 /\ answered' = FALSE /\ UNCHANGED <<running, call>>
      /\ UNCHANGED <<appVars, view, eventSet, queue, startManager, sock, readVars, count>>
      /\ Say("disconnected") \/ UNCHANGED saidVars
  BY DEF HandleDisconnect, Handle
<1>2. /\ toEngine' \in Seq(Messages) /\ handled' \in [Senders -> Nat] /\ Removes(0, 1) /\ IdInv'
      /\ Pending[1].command = "disconnect"
  BY <1>1, HandleTypes
<1>3. /\ word' \in (Words \ {"registered"}) \cup {"nothing"} /\ refreshed' \in BOOLEAN
      /\ toSdk' \in Seq(Words \cup {"half"}) /\ kept \in 0 .. Len(toSdk')
      /\ mishaps' \subseteq Mishaps /\ mishaps \ {"missed", "stray"} \subseteq mishaps'
  BY <1>1, SaidTypes DEF Words, CallStates
<1>4. TypeOK'
  BY <1>1, <1>2, <1>3, TypesApart DEF TypeOK, Counters
<1>5. Fine' => LastDecides' /\ NoSecondAccount'
  BY <1>1, <1>2, <1>3, FrontDone DEF AccountInv, Fine
<1>6. QED BY <1>2, <1>4, <1>5 DEF AccountInv

\* The engine ends.
LEMMA DestroyKeeps ==
    ASSUME IInv, HandleDestroy
    PROVE  IInv'
<1> USE DEF IInv
<1>1. /\ Handle("destroy") /\ running' = FALSE /\ account' = 0
      /\ UNCHANGED <<answered, call, saidVars>>
      /\ UNCHANGED <<appVars, view, eventSet, queue, startManager, sock, readVars, count>>
  BY DEF HandleDestroy, Handle
<1>2. toEngine' \in Seq(Messages) /\ handled' \in [Senders -> Nat] /\ IdInv'
  BY <1>1, HandleTypes
<1>3. TypeOK'
  BY <1>1, <1>2, TypesApart DEF TypeOK, Counters
<1>4. QED BY <1>1, <1>2, <1>3 DEF AccountInv, Fine

\* A call that is answered at once, or not.
LEMMA HandleCallKeeps ==
    ASSUME IInv, HandleCall
    PROVE  IInv'
<1> USE DEF IInv
<1>1. /\ Handle("call") /\ UNCHANGED <<running, account, answered, call>>
      /\ UNCHANGED <<appVars, view, eventSet, queue, startManager, sock, readVars, count>>
      /\ Say("disconnected") \/ UNCHANGED saidVars
  BY DEF HandleCall, Handle
<1>2. /\ toEngine' \in Seq(Messages) /\ handled' \in [Senders -> Nat] /\ Removes(0, 1) /\ IdInv'
      /\ Pending[1].command = "call"
  BY <1>1, HandleTypes
<1>3. /\ word' \in (Words \ {"registered"}) \cup {"nothing"} /\ refreshed' \in BOOLEAN
      /\ toSdk' \in Seq(Words \cup {"half"}) /\ kept \in 0 .. Len(toSdk')
      /\ mishaps' \subseteq Mishaps /\ mishaps \ {"missed", "stray"} \subseteq mishaps'
  BY <1>1, SaidTypes DEF Words, CallStates
<1>4. TypeOK'
  BY <1>1, <1>2, <1>3, TypesApart DEF TypeOK, Counters
<1>5. Fine' => LastDecides' /\ NoSecondAccount'
  BY <1>1, <1>2, <1>3, FrontDone DEF AccountInv, Fine
<1>6. QED BY <1>2, <1>4, <1>5 DEF AccountInv

\* A command that is not about the account.
LEMMA OtherKeeps ==
    ASSUME IInv, HandleOther
    PROVE  IInv'
<1> USE DEF IInv
<1>1. PICK c \in Switches \cup DeviceSwitches : Handle(c)
  BY DEF HandleOther
<1>2. /\ UNCHANGED <<running, account, answered, call, saidVars>>
      /\ UNCHANGED <<appVars, view, eventSet, queue, startManager, sock, readVars, count>>
  BY <1>1 DEF HandleOther, Handle
<1>3. /\ toEngine' \in Seq(Messages) /\ handled' \in [Senders -> Nat] /\ Removes(0, 1) /\ IdInv'
      /\ Pending[1].command = c
  BY <1>1, HandleTypes
<1>4. TypeOK'
  BY <1>2, <1>3, TypesApart DEF TypeOK, Counters
<1>5. c # "registration" /\ c # "disconnect"
  BY CommandTypes
<1>6. Fine' => LastDecides' /\ NoSecondAccount'
  BY <1>2, <1>3, <1>5, FrontDone DEF AccountInv, Fine
<1>7. QED BY <1>3, <1>4, <1>6 DEF AccountInv

\* A state reported without a command.
LEMMA ReportKeeps ==
    ASSUME IInv, NEW state \in Reports, Report(state)
    PROVE  IInv'
<1> USE DEF IInv
<1>1. /\ count.reports < MaxReports /\ Say(state)
      /\ answered' \in {answered, TRUE} /\ call' \in {call, "up", "over"}
      /\ count' = [count EXCEPT !.reports = @ + 1]
      /\ UNCHANGED <<appVars, view, eventSet, queue, startManager, sock, readVars, toEngine,
                     running, account, handled>>
  BY DEF Report, ReportAccount, ReportCall, ReportFileEnd
<1>2. /\ word' \in (Words \ {"registered"}) \cup {"nothing"} /\ refreshed' \in BOOLEAN
      /\ toSdk' \in Seq(Words \cup {"half"}) /\ kept \in 0 .. Len(toSdk')
      /\ mishaps' \subseteq Mishaps /\ mishaps \ {"missed", "stray"} \subseteq mishaps'
  BY <1>1, SaidTypes, ReportAssumption
<1>3. count' \in Counters /\ count'.asked = count.asked
  BY <1>1, CountedTypes
<1>4. answered' \in BOOLEAN /\ call' \in {"none", "up", "over"}
  BY <1>1, TypesApart
<1>5. TypeOK'
  BY <1>1, <1>2, <1>3, <1>4, TypesApart DEF TypeOK, Counters
<1>6. IdInv' /\ AccountInv'
  BY <1>1, <1>2, <1>3, NothingMoved DEF Pending
<1>7. QED BY <1>5, <1>6

-----------------------------------------------------------------------------
(* The theorems *)

\* At the start nothing waits and there is neither client nor account.
LEMMA InitHolds == Init => IInv
<1>1. SUFFICES ASSUME Init PROVE IInv
  OBVIOUS
<1>2. TypeOK
  <2>1. /\ 0 \in 0 .. MaxRegs /\ 0 \in 0 .. MaxRequests
        /\ 0 \in 0 .. MaxReports /\ 0 \in 0 .. MaxBreaks
    BY BoundAssumption
  <2>2. count \in Counters
    BY <1>1, <2>1 DEF Init, Counters
  <2>3. dictCommand \in [Dicts -> Commands \ Clientless]
    BY <1>1, CommandTypes DEF Init
  <2>4. handled \in [Senders -> Nat]
    BY <1>1 DEF Init
  <2>5. /\ tasks \in Seq(Tasks)
        /\ queue \in Seq(Messages) /\ toEngine \in Seq(Messages)
        /\ toSdk \in Seq(Words \cup {"half"}) /\ kept \in 0 .. Len(toSdk)
    BY <1>1 DEF Init
  <2>6. QED BY <1>1, <2>2, <2>3, <2>4, <2>5, TypesApart DEF Init
<1>3. Pending = << >> /\ Len(Pending) = 0 /\ Len(tasks) = 0
  BY <1>1 DEF Init, Pending
<1>4. (\A i \in 1 .. Len(Pending) : FALSE) /\ (\A k \in 1 .. Len(tasks) : FALSE)
  BY <1>3
<1>5. IdInv
  <2>1. \A by \in Senders : handled[by] <= count.asked
    BY <1>1 DEF Init
  <2>2. QED BY <1>4, <2>1 DEF IdInv, PendingIds, TaskIds
<1>6. LastDecides /\ NoSecondAccount
  BY <1>1, <1>4 DEF Init, LastDecides, NoSecondAccount
<1>7. QED BY <1>2, <1>5, <1>6 DEF IInv, AccountInv

\* Every step keeps the invariant.
LEMMA NextKeeps ==
    ASSUME IInv, [Next]_vars
    PROVE  IInv'
<1>1. CASE App
  BY <1>1, RegisterKeeps, WaitKeeps, DisconnectKeeps, CallKeeps, DeviceSwitchKeeps, SwitchKeeps,
     TaskKeeps, CloseKeeps DEF App
<1>2. CASE TcpThread
  BY <1>2, ConnectKeeps, ReceiveKeeps, ReceiveFailsKeeps, SendKeeps, SendFailsKeeps DEF TcpThread
<1>3. CASE Break
  BY <1>3, BreakKeeps
<1>4. CASE Engine
  BY <1>4, RegistrationKeeps, HandleDisconnectKeeps, DestroyKeeps, HandleCallKeeps, OtherKeeps,
     ReportKeeps DEF Engine
<1>5. CASE UNCHANGED vars
  <2>1. UNCHANGED <<appVars, view, eventSet, queue, threadVars, engineVars, mishaps, count>>
    BY <1>5 DEF vars
  <2>2. TypeOK'
    BY <2>1, TypesApart DEF IInv, TypeOK, Counters
  <2>3. IdInv' /\ AccountInv'
    BY <2>1, NothingMoved DEF IInv, Pending
  <2>4. QED BY <2>2, <2>3 DEF IInv
<1>6. QED BY <1>1, <1>2, <1>3, <1>4, <1>5 DEF Next

\* The invariant holds in every state the SDK and the engine can reach.
THEOREM Invariance == Spec => []IInv
BY InitHolds, NextKeeps, PTL DEF Spec

\* The variables keep their types.
THEOREM TypeCorrect == Spec => []TypeOK
<1>1. IInv => TypeOK
  BY DEF IInv
<1>2. QED BY <1>1, Invariance, PTL

\* Through failed sends and new connections the engine works on the commands
\* in the order in which the application called for them, and on none twice,
\* however often the application calls; only a mute, unmute, micoff or micon
\* may be overtaken by what was asked for after it, since its task puts it into
\* the queue later, and its command may be another one by then (MuteIsSent).
THEOREM CommandsComeInOrder == Spec => []CommandsOnceInOrder
<1>1. IInv => CommandsOnceInOrder
  <2>1. SUFFICES ASSUME IInv PROVE CommandsOnceInOrder
    OBVIOUS
  <2>2. /\ Pending \in Seq(Messages) /\ DOMAIN Pending = 1 .. Len(Pending)
        /\ Pending = toEngine \o queue
    BY <2>1, PendingTypes DEF IInv, Pending
  <2>3. /\ \A i \in DOMAIN Pending :
              /\ handled["task"] < Pending[i].id
              /\ handled["app"] < Pending[i].id \/ Pending[i].by = "task"
        /\ \A i, j \in DOMAIN Pending :
              i < j => \/ Pending[i].id < Pending[j].id
                       \/ Pending[i].by = "app" /\ Pending[j].by = "task"
    BY <2>1, <2>2 DEF IInv, IdInv, PendingIds, Before
  <2>4. QED BY <2>2, <2>3 DEF CommandsOnceInOrder
<1>2. QED BY <1>1, Invariance, PTL

\* When everything has arrived, the engine's account is the one that the last
\* subscriber_registration asked for, and there is none after a disconnect,
\* while the engine runs and no command was lost, overwritten or refused and
\* no registration given up.
THEOREM AccountsAgree == Spec => []AccountsMatch
<1>1. IInv => AccountsMatch
  <2>1. SUFFICES ASSUME IInv, Quiet, Fine PROVE account = client
    BY DEF AccountsMatch, Fine
  <2>2. toEngine = << >> /\ queue = << >>
    BY <2>1 DEF Quiet
  <2>3. \A i \in 1 .. Len(Pending) : FALSE
    BY <2>1, <2>2, PendingTypes DEF IInv
  <2>4. LastDecides
    BY <2>1 DEF IInv, AccountInv
  <2>5. QED BY <2>3, <2>4 DEF LastDecides
<1>2. QED BY <1>1, Invariance, PTL

=============================================================================
