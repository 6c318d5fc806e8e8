---------------------------- MODULE SdkViewProofs ----------------------------
(* Theorems about SdkSession for any switches and reports and all bounds:    *)
(* what the application sees of its client, and how the session ends.        *)
EXTENDS SdkSessionProofs

USE DEF appVars, readVars, threadVars, saidVars, engineVars, Senders

-----------------------------------------------------------------------------
(* What a client will show *)

\* A state that a client takes over whatever it shows.
Strong(states, i) == states[i] \notin {"registered", "half"}

\* After position k a "registered" is on its way.
Refreshed(states, k) == \E j \in 1 .. Len(states) : k < j /\ states[j] = "registered"

\* What becomes of a client that shows v, of the states after k none strong.
After(v, states, k) == IF v \notin InCall /\ Refreshed(states, k) THEN "registered" ELSE v

\* A client that shows v shows w when the states have been read.
Leads(v, states, w) ==
    /\ (\A i \in 1 .. Len(states) : ~Strong(states, i)) => w = After(v, states, 0)
    /\ \A i \in 1 .. Len(states) :
          Strong(states, i) /\ (\A j \in 1 .. Len(states) : i < j => ~Strong(states, j)) =>
              w = After(states[i], states, i)

\* The engine says s where it has said u; a client that shows v reads s.
Said(u, s) == IF s = "registered" /\ u \in InCall THEN u ELSE s
Read(v, s) == IF s = "half" \/ Masked(s, v) THEN v ELSE s

States == Words \cup {"half"}

\* "registered" is the only one that an account in a call does not show.
LEMMA WordsApart ==
    /\ "half" \notin Words /\ "registered" \in Words /\ "disconnected" \in Words
    /\ "registered" \notin InCall /\ "disconnected" \notin InCall
    /\ "registering" \notin InCall /\ "half" \notin InCall /\ "nothing" \notin InCall
BY DEF Words, CallStates, InCall

\* A state that is said is the one that will be shown.
LEMMA SayLeads ==
    ASSUME NEW T \in Seq(States), NEW v, NEW u, NEW s \in Words, Leads(v, T, u)
    PROVE  Leads(v, Append(T, s), Said(u, s))
<1> DEFINE A == Append(T, s)
<1>1. /\ A \in Seq(States) /\ Len(A) = Len(T) + 1 /\ A[Len(T) + 1] = s /\ Len(T) \in Nat
      /\ \A i \in 1 .. Len(T) : A[i] = T[i]
  BY AppendProperties DEF States
<1> HIDE DEF A
<1>2. /\ \A i \in 1 .. Len(T) : i \in 1 .. Len(A) /\ i < Len(T) + 1
      /\ \A i \in 1 .. Len(A) : i \in 1 .. Len(T) \/ i = Len(T) + 1
      /\ Len(T) + 1 \in 1 .. Len(A)
  BY <1>1
<1>3. \A i \in 1 .. Len(T) : Strong(A, i) <=> Strong(T, i)
  BY <1>1 DEF Strong
<1>4. s # "half" /\ "registered" \notin InCall
  BY WordsApart
<1>5. CASE s = "registered"
  <2>1. ~Strong(A, Len(T) + 1)
    BY <1>1, <1>5 DEF Strong
  <2>2. \A k \in 0 .. Len(T) : Refreshed(A, k)
    BY <1>1, <1>2, <1>5 DEF Refreshed
  <2>3. Said(u, s) = IF u \in InCall THEN u ELSE "registered"
    BY <1>5 DEF Said
  <2>4. ASSUME \A i \in 1 .. Len(A) : ~Strong(A, i) PROVE Said(u, s) = After(v, A, 0)
    <3>1. u = After(v, T, 0)
      BY <1>2, <1>3, <2>4 DEF Leads
    <3>2. After(v, A, 0) = IF v \notin InCall THEN "registered" ELSE v
      BY <1>1, <2>2 DEF After
    <3>3. QED BY <1>4, <2>3, <3>1, <3>2 DEF After
  <2>5. ASSUME NEW i \in 1 .. Len(A), Strong(A, i),
               \A j \in 1 .. Len(A) : i < j => ~Strong(A, j)
        PROVE  Said(u, s) = After(A[i], A, i)
    <3>1. i \in 1 .. Len(T) /\ A[i] = T[i] /\ Strong(T, i)
      BY <1>1, <1>2, <1>3, <2>1, <2>5
    <3>2. u = After(T[i], T, i)
      BY <1>2, <1>3, <2>5, <3>1 DEF Leads
    <3>3. After(A[i], A, i) = IF T[i] \notin InCall THEN "registered" ELSE T[i]
      BY <1>1, <2>2, <3>1 DEF After
    <3>4. QED BY <1>4, <2>3, <3>2, <3>3 DEF After
  <2>6. QED BY <2>4, <2>5 DEF Leads, A
<1>6. CASE s # "registered"
  <2>1. Strong(A, Len(T) + 1) /\ Said(u, s) = s
    BY <1>1, <1>4, <1>6 DEF Strong, Said
  <2>2. ~Refreshed(A, Len(T) + 1)
    BY <1>1 DEF Refreshed
  <2>3. ASSUME NEW i \in 1 .. Len(A), \A j \in 1 .. Len(A) : i < j => ~Strong(A, j)
        PROVE  i = Len(T) + 1
    BY <1>2, <2>1, <2>3
  <2>4. s = After(A[Len(T) + 1], A, Len(T) + 1)
    BY <1>1, <2>2 DEF After
  <2>5. QED BY <1>2, <2>1, <2>3, <2>4 DEF Leads, A
<1>7. QED BY <1>5, <1>6

\* A strong one is, whatever was said before and has been lost.
LEMMA StrongLeads ==
    ASSUME NEW T \in Seq(States), NEW v, NEW s \in Words \ {"registered"}
    PROVE  Leads(v, Append(T, s), s)
<1> DEFINE A == Append(T, s)
<1>1. A \in Seq(States) /\ Len(A) = Len(T) + 1 /\ A[Len(T) + 1] = s /\ Len(T) \in Nat
  BY AppendProperties DEF States
<1> HIDE DEF A
<1>2. /\ \A i \in 1 .. Len(A) : i < Len(T) + 1 \/ i = Len(T) + 1
      /\ Len(T) + 1 \in 1 .. Len(A)
  BY <1>1
<1>3. Strong(A, Len(T) + 1)
  BY <1>1, WordsApart DEF Strong
<1>4. s = After(A[Len(T) + 1], A, Len(T) + 1)
  BY <1>1 DEF After, Refreshed
<1>5. ASSUME NEW i \in 1 .. Len(A), \A j \in 1 .. Len(A) : i < j => ~Strong(A, j)
      PROVE  i = Len(T) + 1
  BY <1>2, <1>3, <1>5
<1>6. QED BY <1>2, <1>3, <1>4, <1>5 DEF Leads, A

\* The positions of the states behind the first one.
LEMMA TailStates ==
    ASSUME NEW T \in Seq(States), T # << >>
    PROVE  /\ Tail(T) \in Seq(States) /\ Head(T) = T[1] /\ Head(T) \in States
           /\ Len(T) \in Nat \ {0} /\ Len(Tail(T)) = Len(T) - 1
           /\ \A i \in 1 .. Len(Tail(T)) : i + 1 \in 1 .. Len(T) /\ Tail(T)[i] = T[i + 1]
           /\ \A i \in 1 .. Len(T) :
                 1 < i => i - 1 \in 1 .. Len(Tail(T)) /\ T[i] = Tail(T)[i - 1]
           /\ \A i \in 1 .. Len(Tail(T)) : Strong(Tail(T), i) <=> Strong(T, i + 1)
           /\ \A k \in Nat : Refreshed(Tail(T), k) <=> Refreshed(T, k + 1)
<1>1. /\ Tail(T) \in Seq(States) /\ Head(T) = T[1] /\ Head(T) \in States
      /\ Len(T) \in Nat \ {0} /\ Len(Tail(T)) = Len(T) - 1
      /\ \A i \in 1 .. Len(Tail(T)) : Tail(T)[i] = T[i + 1]
  BY HeadTailProperties DEF States
<1>2. /\ \A i \in 1 .. Len(Tail(T)) : i + 1 \in 1 .. Len(T)
      /\ \A i \in 1 .. Len(T) : 1 < i => i - 1 \in 1 .. Len(Tail(T)) /\ (i - 1) + 1 = i
  BY <1>1
<1>3. \A i \in 1 .. Len(T) : 1 < i => T[i] = Tail(T)[i - 1]
  BY <1>1, <1>2
<1>4. ASSUME NEW k \in Nat PROVE Refreshed(Tail(T), k) <=> Refreshed(T, k + 1)
  <2>1. ASSUME NEW j \in 1 .. Len(Tail(T)), k < j, Tail(T)[j] = "registered"
        PROVE  Refreshed(T, k + 1)
    <3>1. j + 1 \in 1 .. Len(T) /\ k + 1 < j + 1 /\ T[j + 1] = "registered"
      BY <1>1, <1>2, <2>1
    <3>2. QED BY <3>1 DEF Refreshed
  <2>2. ASSUME NEW j \in 1 .. Len(T), k + 1 < j, T[j] = "registered"
        PROVE  Refreshed(Tail(T), k)
    <3>1. 1 < j /\ k < j - 1
      BY <2>2
    <3>2. QED BY <1>2, <1>3, <2>2, <3>1 DEF Refreshed
  <2>3. QED BY <2>1, <2>2 DEF Refreshed
<1>5. QED BY <1>1, <1>2, <1>3, <1>4 DEF Strong

\* The first state is read: what will be shown remains.
LEMMA ReadLeads ==
    ASSUME NEW T \in Seq(States), T # << >>, NEW v, NEW w, Leads(v, T, w)
    PROVE  Leads(Read(v, Head(T)), Tail(T), w)
<1> DEFINE A == Tail(T)
<1>1. /\ A \in Seq(States) /\ Head(T) = T[1] /\ Len(T) \in Nat \ {0} /\ Len(A) = Len(T) - 1
      /\ \A i \in 1 .. Len(A) : i + 1 \in 1 .. Len(T) /\ A[i] = T[i + 1]
      /\ \A i \in 1 .. Len(T) : 1 < i => i - 1 \in 1 .. Len(A) /\ T[i] = A[i - 1]
      /\ \A i \in 1 .. Len(A) : Strong(A, i) <=> Strong(T, i + 1)
      /\ \A k \in Nat : Refreshed(A, k) <=> Refreshed(T, k + 1)
  BY TailStates
<1> HIDE DEF A
<1>2. ASSUME \A i \in 1 .. Len(A) : ~Strong(A, i)
      PROVE  w = After(Read(v, Head(T)), A, 0)
  <2>1. \A j \in 1 .. Len(T) : 1 < j => ~Strong(T, j)
    <3>1. SUFFICES ASSUME NEW j \in 1 .. Len(T), 1 < j PROVE ~Strong(T, j)
      OBVIOUS
    <3>2. j - 1 \in 1 .. Len(A) /\ (j - 1) + 1 = j
      BY <1>1, <3>1
    <3>3. QED BY <1>1, <1>2, <3>2
  <2>2. 1 \in 1 .. Len(T) /\ \A j \in 1 .. Len(T) : j = 1 \/ 1 < j
    <3> DEFINE n == Len(T)
    <3>1. n \in Nat \ {0}
      BY <1>1
    <3> HIDE DEF n
    <3>2. 1 \in 1 .. n /\ \A j \in 1 .. n : j = 1 \/ 1 < j
      BY ONLY <3>1
    <3>3. QED BY <3>2 DEF n
  <2>3. Refreshed(A, 0) <=> Refreshed(T, 1)
    BY <1>1
  <2>4. CASE Strong(T, 1)
    <3>1. w = After(T[1], T, 1)
      BY <2>1, <2>2, <2>4 DEF Leads
    <3>2. Read(v, T[1]) = T[1]
      BY <2>4 DEF Strong, Read, Masked
    <3>3. QED BY <1>1, <2>3, <3>1, <3>2 DEF After
  <2>5. CASE ~Strong(T, 1)
    <3>1. w = After(v, T, 0)
      BY <2>1, <2>2, <2>5 DEF Leads
    <3>2. Refreshed(T, 0) <=> T[1] = "registered" \/ Refreshed(T, 1)
      <4>1. \A j \in 1 .. Len(T) : 0 < j
        OBVIOUS
      <4>2. QED BY <2>2, <4>1 DEF Refreshed
    <3>3. CASE T[1] = "half"
      BY <1>1, <2>3, <3>1, <3>2, <3>3 DEF After, Read
    <3>4. CASE T[1] = "registered"
      <4>1. w = IF v \notin InCall THEN "registered" ELSE v
        BY <3>1, <3>2, <3>4 DEF After
      <4>2. Read(v, Head(T)) = IF v \notin InCall THEN "registered" ELSE v
        BY <1>1, <3>4 DEF Read, Masked
      <4>3. QED BY <4>1, <4>2, WordsApart DEF After
    <3>5. QED BY <2>5, <3>3, <3>4 DEF Strong
  <2>6. QED BY <2>4, <2>5
<1>3. ASSUME NEW i \in 1 .. Len(A), Strong(A, i), \A j \in 1 .. Len(A) : i < j => ~Strong(A, j)
      PROVE  w = After(A[i], A, i)
  <2>1. i + 1 \in 1 .. Len(T) /\ Strong(T, i + 1) /\ A[i] = T[i + 1]
    BY <1>1, <1>3
  <2>2. ASSUME NEW j \in 1 .. Len(T), i + 1 < j PROVE ~Strong(T, j)
    <3>1. 1 < j /\ j - 1 \in 1 .. Len(A) /\ (j - 1) + 1 = j /\ i < j - 1
      BY <1>1, <2>2
    <3>2. QED BY <1>1, <1>3, <3>1
  <2>3. w = After(T[i + 1], T, i + 1)
    BY <2>1, <2>2 DEF Leads
  <2>4. Refreshed(A, i) <=> Refreshed(T, i + 1)
    BY <1>1
  <2>5. QED BY <2>1, <2>3, <2>4 DEF After
<1>4. QED BY <1>2, <1>3 DEF Leads, A

\* Nothing is on its way.
LEMMA EmptyLeads ==
    ASSUME NEW v, NEW w, Leads(v, << >>, w)
    PROVE  w = v
<1>1. \A i \in 1 .. Len(<< >>) : FALSE
  OBVIOUS
<1>2. QED BY <1>1 DEF Leads, After, Refreshed

-----------------------------------------------------------------------------
(* The dicts that there are *)

\* Everything is about a registration that has been made.
KnownMessages == {m \in Messages : m.dict <= count.regs}
KnownTasks    == {t \in Tasks : t.dict <= count.regs}
KnownInv ==
    /\ client <= count.regs /\ account <= count.regs
    /\ queue \in Seq(KnownMessages) /\ toEngine \in Seq(KnownMessages)
    /\ tasks \in Seq(KnownTasks)

\* What was known stays known.
LEMMA KnownGrows ==
    ASSUME TypeOK, count'.regs \in Nat, count.regs <= count'.regs
    PROVE  /\ \A s : s \in Seq(KnownMessages) => s \in Seq(KnownMessages')
           /\ \A s : s \in Seq(KnownTasks) => s \in Seq(KnownTasks')
<1>1. count.regs \in Nat /\ \A d \in Dicts \cup {0} : d \in Int
  BY CountTypes DEF Dicts
<1>2. KnownMessages \subseteq KnownMessages'
  <2>1. \A m \in Messages : m.dict \in Dicts \cup {0}
    BY DEF Messages
  <2>2. \A m \in Messages : m.dict <= count.regs => m.dict <= count'.regs
    BY <1>1, <2>1
  <2>3. QED BY <2>2 DEF KnownMessages
<1>3. KnownTasks \subseteq KnownTasks'
  <2>1. \A t \in Tasks : t.dict <= count.regs => t.dict <= count'.regs
    BY <1>1 DEF Tasks
  <2>2. QED BY <2>1 DEF KnownTasks
<1>4. ASSUME NEW S, NEW B, S \subseteq B, NEW s \in Seq(S) PROVE s \in Seq(B)
  BY <1>4
<1>5. QED BY <1>2, <1>3, <1>4

\* What send_json puts into the queue is about what is known.
LEMMA KnownPut ==
    ASSUME NEW S, queue \in Seq(S), NEW commands, NEW n \in Nat, DOMAIN commands = 1 .. n,
           Put(commands),
           \A i \in 1 .. n :
              Message(count.asked + i, commands[i][1], commands[i][2], "app") \in S
    PROVE  queue' \in Seq(S)
<1> DEFINE new == [i \in DOMAIN commands |->
                     Message(count.asked + i, commands[i][1], commands[i][2], "app")]
<1>1. new \in Seq(S)
  OBVIOUS
<1>2. queue' = queue \o new
  BY DEF Put
<1> HIDE DEF new
<1>3. QED BY <1>1, <1>2, ConcatProperties

\* A step that leaves all this alone, or takes something away.
LEMMA KnownStays ==
    ASSUME TypeOK, TypeOK', KnownInv, UNCHANGED <<client, tasks>>,
           account' \in {account, 0}, count'.regs = count.regs,
           queue' \in Seq(KnownMessages), toEngine' \in Seq(KnownMessages)
    PROVE  KnownInv'
<1>1. KnownMessages' = KnownMessages /\ KnownTasks' = KnownTasks
  BY DEF KnownMessages, KnownTasks
<1>2. 0 <= count.regs
  BY CountTypes
<1>3. QED BY <1>1, <1>2 DEF KnownInv

\* A registration makes a new dict known.
LEMMA RegisterKnown ==
    ASSUME IInv, IInv', KnownInv, NEW wait \in BOOLEAN, Register(wait)
    PROVE  KnownInv'
<1> DEFINE new == count.regs + 1
<1>1. /\ count.regs < MaxRegs /\ client' = new /\ UNCHANGED <<account, tasks, toEngine>>
      /\ Put(Farewell \o <<<<"registration", new>>>>)
      /\ Counted("regs", Len(Farewell \o <<<<"registration", new>>>>))
  BY DEF Register
<1>2. TypeOK /\ count.regs \in Nat /\ count.asked \in Nat /\ new \in Dicts /\ 0 \notin Dicts
  BY <1>1, CountTypes DEF IInv, Dicts
<1>3. count'.regs = new
  <2>1. count \in Counters
    BY <1>2, TypesApart
  <2>2. QED BY <1>1, <2>1 DEF Counted, Counters
<1>4. new \in Nat /\ count.regs < new /\ \A d \in Dicts : d \in Int /\ d <= new => d <= count'.regs
  BY <1>2, <1>3 DEF Dicts
<1> HIDE DEF new
<1>5. /\ queue \in Seq(KnownMessages') /\ toEngine \in Seq(KnownMessages')
      /\ tasks \in Seq(KnownTasks')
  BY <1>2, <1>3, <1>4, KnownGrows DEF KnownInv
<1>6. queue' \in Seq(KnownMessages')
  <2>1. ASSUME NEW n \in Nat, NEW c \in {"registration", "disconnect"}, NEW d \in Dicts, d <= new
        PROVE  Message(n, c, d, "app") \in KnownMessages'
    <3>1. /\ c \in Commands /\ c \notin Clientless /\ d # 0 /\ d \in Dicts \cup {0}
          /\ "app" \in Senders
      BY <1>2, CommandTypes
    <3>2. Message(n, c, d, "app") \in Messages /\ Message(n, c, d, "app").dict = d
      BY <3>1, MessageTypes
    <3>3. QED BY <1>3, <2>1, <3>2 DEF KnownMessages
  <2>2. CASE client = 0
    <3>1. Farewell \o <<<<"registration", new>>>> = <<<<"registration", new>>>>
      BY <2>2 DEF Farewell
    <3>2. Message(count.asked + 1, "registration", new, "app") \in KnownMessages'
      BY <1>2, <1>4, <2>1
    <3>3. \A i \in 1 .. 1 : Message(count.asked + i, <<<<"registration", new>>>>[i][1],
                                    <<<<"registration", new>>>>[i][2], "app") \in KnownMessages'
      BY <3>2
    <3>4. DOMAIN <<<<"registration", new>>>> = 1 .. 1
      OBVIOUS
    <3>5. QED BY <1>1, <1>5, <3>1, <3>3, <3>4, KnownPut
  <2>3. CASE client # 0
    <3>1. Farewell \o <<<<"registration", new>>>>
             = <<<<"disconnect", client>>, <<"registration", new>>>>
      BY <2>3, TwoInARow DEF Farewell
    <3>2. client \in Dicts /\ client <= new
      BY <1>2, <1>4, <2>3, TypesApart DEF KnownInv, Dicts
    <3>3. /\ Message(count.asked + 1, "disconnect", client, "app") \in KnownMessages'
          /\ Message(count.asked + 2, "registration", new, "app") \in KnownMessages'
      BY <1>2, <1>4, <2>1, <3>2
    <3>4. \A i \in 1 .. 2 :
             Message(count.asked + i, <<<<"disconnect", client>>, <<"registration", new>>>>[i][1],
                     <<<<"disconnect", client>>, <<"registration", new>>>>[i][2], "app")
                \in KnownMessages'
      <4>1. \A i \in 1 .. 2 : i = 1 \/ i = 2
        OBVIOUS
      <4>2. QED BY <3>3, <4>1
    <3>5. DOMAIN <<<<"disconnect", client>>, <<"registration", new>>>> = 1 .. 2
      OBVIOUS
    <3>6. QED BY <1>1, <1>5, <3>1, <3>4, <3>5, KnownPut
  <2>4. QED BY <2>2, <2>3
<1>7. client' <= count'.regs /\ account' <= count'.regs
  <2>1. account \in Int
    BY <1>2, TypesApart DEF Dicts
  <2>2. account' <= new
    BY <1>1, <1>2, <1>4, <2>1 DEF KnownInv
  <2>3. QED BY <1>1, <1>3, <1>4, <2>2
<1>8. QED BY <1>1, <1>5, <1>6, <1>7 DEF KnownInv

\* So do the other calls that put a command: about the client, or about none.
LEMMA RequestKnown ==
    ASSUME IInv, IInv', KnownInv, NEW c \in Commands, NEW d \in Dicts \cup {0},
           d = 0 <=> c \in Clientless, d <= count.regs,
           Put(<<<<c, d>>>>), count'.regs = count.regs, client' \in {client, 0},
           UNCHANGED <<account, tasks, toEngine>>
    PROVE  KnownInv'
<1>1. TypeOK /\ count.asked \in Nat /\ count.regs \in Nat
  BY CountTypes DEF IInv
<1>2. KnownMessages' = KnownMessages /\ KnownTasks' = KnownTasks
  BY DEF KnownMessages, KnownTasks
<1>3. Message(count.asked + 1, c, d, "app") \in KnownMessages
  <2>1. /\ Message(count.asked + 1, c, d, "app") \in Messages
        /\ Message(count.asked + 1, c, d, "app").dict = d
    BY <1>1, MessageTypes
  <2>2. QED BY <2>1 DEF KnownMessages
<1>4. queue' \in Seq(KnownMessages)
  <2>1. \A i \in 1 .. 1 :
           Message(count.asked + i, <<<<c, d>>>>[i][1], <<<<c, d>>>>[i][2], "app")
              \in KnownMessages
    BY <1>3
  <2>2. DOMAIN <<<<c, d>>>> = 1 .. 1
    OBVIOUS
  <2>3. QED BY <2>1, <2>2, KnownPut DEF KnownInv
<1>5. QED BY <1>1, <1>2, <1>4 DEF KnownInv

\* subscriber_disconnect, call, device_off and device_on, and close_sipcore.
LEMMA CommandKnown ==
    ASSUME IInv, IInv', KnownInv,
           Disconnect \/ Call \/ Close \/ \E command \in DeviceSwitches : DeviceSwitch(command)
    PROVE  KnownInv'
<1>1. count \in Counters /\ client \in Dicts \cup {0} /\ client <= count.regs /\ 0 \notin Dicts
  BY TypesApart DEF IInv, KnownInv, Dicts
<1>2. 0 <= count.regs
  BY CountTypes DEF IInv
<1>3. Counted("requests", 1) => count'.regs = count.regs
  BY <1>1 DEF Counted, Counters
<1>4. CASE Disconnect \/ Call
  <2>1. PICK c \in {"disconnect", "call"} :
           client # 0 /\ Put(<<<<c, client>>>>) /\ Counted("requests", 1)
    BY <1>4 DEF Disconnect, Call, Request
  <2>2. client' \in {client, 0} /\ UNCHANGED <<account, tasks, toEngine>>
    BY <1>4 DEF Disconnect, Call
  <2>3. c \in Commands /\ c \notin Clientless
    BY CommandTypes
  <2>4. QED BY <1>1, <1>3, <2>1, <2>2, <2>3, RequestKnown
<1>5. CASE Close
  <2>1. /\ Put(<<<<"destroy", 0>>>>) /\ count' = [count EXCEPT !.asked = @ + 1]
        /\ UNCHANGED <<client, account, tasks, toEngine>>
    BY <1>5 DEF Close
  <2>2. count'.regs = count.regs
    BY <1>1, <2>1 DEF Counters
  <2>3. "destroy" \in Clientless /\ "destroy" \in Commands /\ 0 \in Dicts \cup {0}
    BY CommandTypes
  <2>4. QED BY <1>2, <2>1, <2>2, <2>3, RequestKnown
<1>6. ASSUME NEW command \in DeviceSwitches, DeviceSwitch(command) PROVE KnownInv'
  <2>1. /\ Put(<<<<command, 0>>>>) /\ Counted("requests", 1)
        /\ UNCHANGED <<client, account, tasks, toEngine>>
    BY <1>6 DEF DeviceSwitch
  <2>2. command \in Clientless /\ command \in Commands /\ 0 \in Dicts \cup {0}
    BY CommandTypes
  <2>3. QED BY <1>2, <1>3, <2>1, <2>2, RequestKnown
<1>7. QED BY <1>4, <1>5, <1>6

\* mute and its like make a task about the client.
LEMMA SwitchKnown ==
    ASSUME IInv, IInv', KnownInv, NEW command \in Switches, Switch(command)
    PROVE  KnownInv'
<1> DEFINE task == [id |-> count.asked + 1, dict |-> client, command |-> command]
<1>1. /\ client # 0 /\ tasks' = Append(tasks, task) /\ Counted("requests", 1)
      /\ UNCHANGED <<client, account, queue, toEngine>>
  BY DEF Switch, Request
<1>2. TypeOK /\ client \in Dicts /\ count \in Counters
  BY <1>1, TypesApart DEF IInv
<1>2a. count.asked + 1 \in Nat
  BY <1>2, CountTypes
<1>3. count'.regs = count.regs
  BY <1>1, <1>2 DEF Counted, Counters
<1>4. KnownMessages' = KnownMessages /\ KnownTasks' = KnownTasks
  BY <1>3 DEF KnownMessages, KnownTasks
<1>5. task \in KnownTasks
  BY <1>2, <1>2a DEF KnownTasks, Tasks, KnownInv
<1> HIDE DEF task
<1>6. tasks' \in Seq(KnownTasks)
  BY <1>1, <1>5, AppendProperties DEF KnownInv
<1>7. QED BY <1>1, <1>3, <1>4, <1>6 DEF KnownInv

\* A task sends the dict that it was made for.
LEMMA TaskKnown ==
    ASSUME IInv, IInv', KnownInv, RunTask
    PROVE  KnownInv'
<1> DEFINE task == Head(tasks)
           now  == dictCommand[task.dict]
<1>1. /\ tasks # << >> /\ tasks' = Tail(tasks)
      /\ queue' = Append(queue, Message(task.id, now, task.dict, "task"))
      /\ UNCHANGED <<client, account, toEngine, count>>
  BY DEF RunTask
<1>2. TypeOK /\ 0 \notin Dicts
  BY DEF IInv, Dicts
<1>3. KnownMessages' = KnownMessages /\ KnownTasks' = KnownTasks
  BY <1>1 DEF KnownMessages, KnownTasks
<1>4. task \in KnownTasks /\ Tail(tasks) \in Seq(KnownTasks)
  BY <1>1, HeadTailProperties DEF KnownInv
<1>5. task.dict \in Dicts /\ task.dict <= count.regs /\ task.id \in Nat
  BY <1>4 DEF KnownTasks, Tasks
<1> HIDE DEF task
<1>6. now \in Commands \ Clientless
  BY <1>2, <1>5, TypesApart
<1> HIDE DEF now
<1>7. Message(task.id, now, task.dict, "task") \in KnownMessages
  <2>1. task.dict # 0 /\ task.dict \in Dicts \cup {0} /\ "task" \in Senders
    BY <1>2, <1>5
  <2>2. /\ Message(task.id, now, task.dict, "task") \in Messages
        /\ Message(task.id, now, task.dict, "task").dict = task.dict
    BY <1>5, <1>6, <2>1, MessageTypes
  <2>3. QED BY <1>5, <2>2 DEF KnownMessages
<1>8. queue' \in Seq(KnownMessages)
  BY <1>1, <1>7, AppendProperties DEF KnownInv
<1>9. QED BY <1>1, <1>3, <1>4, <1>8 DEF KnownInv

\* A command that is sent or lost was known.
LEMMA SendKnown ==
    ASSUME IInv, IInv', KnownInv, SendOne \/ SendFails
    PROVE  KnownInv'
<1>1. /\ queue # << >> /\ queue' = Tail(queue)
      /\ toEngine' = toEngine \/ toEngine' = Append(toEngine, Head(queue))
      /\ UNCHANGED <<client, tasks, account, count>>
  BY DEF SendOne, SendFails, Taken
<1>2. Head(queue) \in KnownMessages /\ Tail(queue) \in Seq(KnownMessages)
  BY <1>1, HeadTailProperties DEF KnownInv
<1>3. Append(toEngine, Head(queue)) \in Seq(KnownMessages)
  BY <1>2, AppendProperties DEF KnownInv
<1>4. queue' \in Seq(KnownMessages) /\ toEngine' \in Seq(KnownMessages)
  BY <1>1, <1>2, <1>3 DEF KnownInv
<1>5. QED BY <1>1, <1>4, KnownStays DEF IInv

\* What a broken connection leaves was known.
LEMMA BreakKnown ==
    ASSUME IInv, IInv', KnownInv, Break
    PROVE  KnownInv'
<1>1. /\ count' = [count EXCEPT !.breaks = @ + 1]
      /\ UNCHANGED <<client, tasks, account, queue>>
      /\ \E i \in 0 .. Len(toEngine) : toEngine' = SubSeq(toEngine, 1, i)
  BY DEF Break
<1>2. PICK i \in 0 .. Len(toEngine) : toEngine' = SubSeq(toEngine, 1, i)
  BY <1>1
<1>3. toEngine \in Seq(KnownMessages) /\ \A l \in 1 .. i : toEngine[l] \in KnownMessages
  BY <1>2 DEF KnownInv
<1>4. toEngine' \in Seq(KnownMessages)
  BY <1>2, <1>3
<1>5. count'.regs = count.regs
  <2>1. count \in Counters
    BY TypesApart DEF IInv
  <2>2. QED BY <1>1, <2>1 DEF Counters
<1>6. QED BY <1>1, <1>4, <1>5, KnownStays DEF IInv, KnownInv

\* So was the dict that the engine makes its account from.
LEMMA EngineKnown ==
    ASSUME IInv, IInv', KnownInv, Engine
    PROVE  KnownInv'
<1>1. CASE \E state \in Reports : Report(state)
  <2>1. /\ count' = [count EXCEPT !.reports = @ + 1]
        /\ UNCHANGED <<client, tasks, account, queue, toEngine>>
    BY <1>1 DEF Report
  <2>2. count'.regs = count.regs
    <3>1. count \in Counters
      BY TypesApart DEF IInv
    <3>2. QED BY <2>1, <3>1 DEF Counters
  <2>3. QED BY <2>1, <2>2, KnownStays DEF IInv, KnownInv
<1>2. CASE HandleRegistration \/ HandleDisconnect \/ HandleDestroy \/ HandleCall \/ HandleOther
  <2>1. /\ toEngine # << >> /\ toEngine' = Tail(toEngine)
        /\ UNCHANGED <<client, tasks, queue, count>>
    BY <1>2 DEF HandleRegistration, HandleDisconnect, HandleDestroy, HandleCall, HandleOther,
                Handle
  <2>2. account' \in {account, 0, Head(toEngine).dict}
    BY <1>2 DEF HandleRegistration, HandleDisconnect, HandleDestroy, HandleCall, HandleOther
  <2>3. Head(toEngine) \in KnownMessages /\ toEngine' \in Seq(KnownMessages)
    BY <2>1, HeadTailProperties DEF KnownInv
  <2>4. account' <= count.regs
    BY <2>2, <2>3, CountTypes DEF KnownInv, KnownMessages, IInv
  <2>5. KnownMessages' = KnownMessages /\ KnownTasks' = KnownTasks
    BY <2>1 DEF KnownMessages, KnownTasks
  <2>6. QED BY <2>1, <2>3, <2>4, <2>5 DEF KnownInv
<1>3. QED BY <1>1, <1>2 DEF Engine

\* Every step keeps what is known.
LEMMA NextKnown ==
    ASSUME IInv, IInv', KnownInv, [Next]_vars
    PROVE  KnownInv'
<1>1. CASE \E wait \in BOOLEAN : Register(wait)
  BY <1>1, RegisterKnown
<1>2. CASE \/ Disconnect \/ Call \/ Close
           \/ \E command \in DeviceSwitches : DeviceSwitch(command)
  BY <1>2, CommandKnown
<1>3. CASE (\E command \in Switches : Switch(command)) \/ RunTask
  BY <1>3, SwitchKnown, TaskKnown
<1>4. CASE \E d \in Dicts : RegistrationReturns(d) \/ RegistrationTimesOut(d)
  <2>1. UNCHANGED <<account, tasks, toEngine, queue, count>> /\ client' \in {client, 0}
    BY <1>4 DEF RegistrationReturns, RegistrationTimesOut
  <2>2. KnownMessages' = KnownMessages /\ KnownTasks' = KnownTasks /\ 0 <= count.regs
    BY <2>1, CountTypes DEF KnownMessages, KnownTasks, IInv
  <2>3. QED BY <2>1, <2>2 DEF KnownInv
<1>5. CASE Connect \/ Receive \/ ReceiveFails \/ UNCHANGED vars
  <2>1. UNCHANGED <<account, tasks, toEngine, queue, count, client>>
    BY <1>5 DEF Connect, Receive, ReceiveFails, vars
  <2>2. QED BY <2>1, KnownStays DEF KnownInv, IInv
<1>6. CASE SendOne \/ SendFails \/ Break \/ Engine
  BY <1>6, SendKnown, BreakKnown, EngineKnown
<1>7. QED BY <1>1, <1>2, <1>3, <1>4, <1>5, <1>6 DEF Next, App, TcpThread

-----------------------------------------------------------------------------
(* What the client shows *)

\* The last word, or "registered" if that was said since and there is no call
\* that the SDK knows of.
Shown == IF refreshed /\ word \notin InCall THEN "registered" ELSE word

\* The engine has not spoken of an account it has now.
Unsaid == word \in {"nothing", "disconnected"} /\ ~refreshed

\* What is on its way about an account that has been deleted ends with that.
Farewells(states) ==
    \A i \in 1 .. Len(states) : states[i] # "half" =>
        /\ word = "disconnected"
        /\ states[i] # "disconnected" =>
              \E j \in 1 .. Len(states) : i < j /\ states[j] = "disconnected"

\* The client will show the last word about its account,
WillShowWord ==
    \/ Leads(view, toSdk, Shown)
    \/ Leads(view, toSdk, "registering") /\ ~answered /\ Unsaid

\* and while there is none, what was said of the one before.
WillShowEnd == \E w \in {Shown, "registering"} : Leads(view, toSdk, w)

NoMishap == running /\ mishaps = {}

ViewInv ==
    /\ running /\ account = 0 => ~answered
    /\ NoMishap /\ account = 0 => Unsaid /\ Farewells(toSdk)
    /\ NoMishap /\ client # 0 /\ account = client => WillShowWord
    /\ NoMishap /\ account = 0 /\ client # 0 => WillShowEnd

\* Unless a state was missed, one is on its way behind those that recv_buffer
\* keeps, and with it the loop will look at them.
KeptInv == "missed" \notin mishaps /\ ~reading /\ kept > 0 => kept < Len(toSdk)

SessionInv == IInv /\ KnownInv /\ ViewInv /\ KeptInv

\* The states that are on their way.
LEMMA StateTypes ==
    ASSUME IInv
    PROVE  /\ toSdk \in Seq(States) /\ Len(toSdk) \in Nat /\ kept \in 0 .. Len(toSdk)
           /\ client \in Dicts \cup {0} /\ 0 \notin Dicts
<1>1. toSdk \in Seq(States) /\ kept \in 0 .. Len(toSdk)
  BY TypesApart DEF IInv, States
<1>2. client \in Dicts \cup {0} /\ 0 \notin Dicts
  BY TypesApart DEF IInv, Dicts
<1>3. QED BY <1>1, <1>2

\* A step that lets nobody speak or read.
LEMMA ViewStays ==
    ASSUME ViewInv, UNCHANGED <<toSdk, word, refreshed, answered, account>>, running' => running,
           mishaps \subseteq mishaps',
           NoMishap' => (client' = client /\ view' = view) \/ client' = 0
    PROVE  ViewInv'
<1>1. NoMishap' => NoMishap
  BY DEF NoMishap
<1>2. (Unsaid' <=> Unsaid) /\ Shown' = Shown
  BY DEF Unsaid, Shown
<1>3. Farewells(toSdk)' <=> Farewells(toSdk)
  BY DEF Farewells
<1>4. client' = client /\ view' = view =>
         (WillShowWord' <=> WillShowWord) /\ (WillShowEnd' <=> WillShowEnd)
  BY <1>2 DEF WillShowWord, WillShowEnd
<1>5. QED BY <1>1, <1>2, <1>3, <1>4 DEF ViewInv

\* A new client shows "registering", and nothing is on its way but what was
\* said of the account before.
LEMMA FarewellLeads ==
    ASSUME NEW T \in Seq(States), Farewells(T)
    PROVE  \E w \in {word, "registering"} : Leads("registering", T, w)
<1>1. \A i \in 1 .. Len(T) : T[i] = "disconnected" => Strong(T, i)
  BY DEF Strong
<1>2. CASE \A i \in 1 .. Len(T) : ~Strong(T, i)
  <2>1. \A i \in 1 .. Len(T) : T[i] # "registered"
    BY <1>1, <1>2 DEF Farewells
  <2>2. ~Refreshed(T, 0)
    BY <2>1 DEF Refreshed
  <2>3. Leads("registering", T, "registering")
    BY <1>2, <2>2 DEF Leads, After
  <2>4. QED BY <2>3
<1>3. CASE \E i \in 1 .. Len(T) : Strong(T, i)
  <2>1. word = "disconnected"
    BY <1>3 DEF Farewells, Strong
  <2>2. ASSUME NEW i \in 1 .. Len(T), Strong(T, i),
               \A j \in 1 .. Len(T) : i < j => ~Strong(T, j)
        PROVE  "disconnected" = After(T[i], T, i)
    <3>1. T[i] = "disconnected"
      BY <1>1, <2>2 DEF Farewells, Strong
    <3>2. ~Refreshed(T, i)
      <4>1. SUFFICES ASSUME NEW j \in 1 .. Len(T), i < j, T[j] = "registered" PROVE FALSE
        BY DEF Refreshed
      <4>2. PICK k \in 1 .. Len(T) : j < k /\ T[k] = "disconnected"
        BY <4>1 DEF Farewells
      <4>3. i < k
        BY <4>1, <4>2
      <4>4. QED BY <1>1, <2>2, <4>2, <4>3
    <3>3. QED BY <3>1, <3>2 DEF After
  <2>3. Leads("registering", T, "disconnected")
    BY <1>3, <2>2 DEF Leads
  <2>4. QED BY <2>1, <2>3
<1>4. QED BY <1>2, <1>3

\* subscriber_registration.
LEMMA RegisterView ==
    ASSUME SessionInv, IInv', NEW wait \in BOOLEAN, Register(wait)
    PROVE  ViewInv'
<1> DEFINE new == count.regs + 1
<1>1. /\ client' = new /\ count.regs < MaxRegs /\ view' = "registering"
      /\ UNCHANGED <<toSdk, word, refreshed, answered, account, running, mishaps>>
  BY DEF Register
<1>2. /\ count.regs \in Nat /\ account \in Int /\ account <= count.regs
      /\ toSdk \in Seq(States)
  <2>1. TypeOK /\ account <= count.regs
    BY DEF SessionInv, IInv, KnownInv
  <2>2. count.regs \in Nat
    BY <2>1, CountTypes
  <2>3. account \in Dicts \cup {0} /\ toSdk \in Seq(States)
    BY <2>1, TypesApart DEF States
  <2>4. QED BY <2>1, <2>2, <2>3 DEF Dicts
<1>3. account' # client'
  BY <1>1, <1>2
<1> HIDE DEF new
<1>4. /\ NoMishap' <=> NoMishap
      /\ Unsaid' <=> Unsaid
      /\ Farewells(toSdk)' <=> Farewells(toSdk)
      /\ Shown' = Shown
  BY <1>1 DEF NoMishap, Unsaid, Farewells, Shown
<1>5. ASSUME NoMishap, account = 0 PROVE WillShowEnd'
  <2>1. Farewells(toSdk) /\ Unsaid
    BY <1>5 DEF SessionInv, ViewInv
  <2>2. \E w \in {word, "registering"} : Leads("registering", toSdk, w)
    BY <1>2, <2>1, FarewellLeads
  <2>3. Shown = word
    BY <2>1 DEF Shown, Unsaid
  <2>4. QED BY <1>1, <1>4, <2>2, <2>3 DEF WillShowEnd
<1>6. QED BY <1>1, <1>3, <1>4, <1>5 DEF SessionInv, ViewInv

\* What has been read is no longer on its way.
LEMMA FarewellsRead ==
    ASSUME NEW T \in Seq(States), T # << >>, Farewells(T)
    PROVE  Farewells(Tail(T))
<1>1. /\ Len(T) \in Nat /\ Len(Tail(T)) = Len(T) - 1
      /\ \A i \in 1 .. Len(Tail(T)) : i + 1 \in 1 .. Len(T) /\ Tail(T)[i] = T[i + 1]
      /\ \A i \in 1 .. Len(T) : 1 < i => i - 1 \in 1 .. Len(Tail(T)) /\ T[i] = Tail(T)[i - 1]
  BY TailStates
<1>2. SUFFICES ASSUME NEW i \in 1 .. Len(Tail(T)), Tail(T)[i] # "half"
               PROVE  /\ word = "disconnected"
                      /\ Tail(T)[i] # "disconnected" =>
                            \E j \in 1 .. Len(Tail(T)) : i < j /\ Tail(T)[j] = "disconnected"
  BY DEF Farewells
<1>3. i + 1 \in 1 .. Len(T) /\ T[i + 1] # "half" /\ Tail(T)[i] = T[i + 1]
  BY <1>1, <1>2
<1>4. ASSUME Tail(T)[i] # "disconnected"
      PROVE  \E j \in 1 .. Len(Tail(T)) : i < j /\ Tail(T)[j] = "disconnected"
  <2>1. PICK j \in 1 .. Len(T) : i + 1 < j /\ T[j] = "disconnected"
    BY <1>3, <1>4 DEF Farewells
  <2>2. 1 < j /\ i < j - 1
    BY <2>1
  <2>3. QED BY <1>1, <2>1, <2>2
<1>5. QED BY <1>3, <1>4 DEF Farewells

\* A line is read, or lost with its connection.
LEMMA ReceiveView ==
    ASSUME SessionInv, IInv', Receive
    PROVE  ViewInv'
<1> DEFINE state == Head(toSdk)
<1>1. /\ toSdk \in Seq(States) /\ toSdk # << >> /\ client \in Dicts \cup {0}
      /\ UNCHANGED <<client, account, answered, word, refreshed, running>>
  <2>1. toSdk \in Seq(States) /\ Len(toSdk) \in Nat /\ client \in Dicts \cup {0}
        /\ kept \in 0 .. Len(toSdk)
    BY StateTypes DEF SessionInv
  <2>2. \E last \in 1 .. Len(toSdk) : TRUE
    BY DEF Receive
  <2>3. QED BY <2>1, <2>2 DEF Receive
<1>2. (Unsaid' <=> Unsaid) /\ Shown' = Shown
  BY <1>1 DEF Unsaid, Shown
<1>3. CASE halfLine /\ state # "half"
  <2>1. mishaps' = mishaps \cup {"missed"}
    BY <1>3 DEF Receive
  <2>2. ~NoMishap'
    BY <2>1 DEF NoMishap
  <2>3. QED BY <1>1, <2>2 DEF SessionInv, ViewInv
<1>4. CASE ~(halfLine /\ state # "half")
  <2>1. toSdk' = Tail(toSdk) /\ mishaps' = mishaps /\ Show(state)
    BY <1>4 DEF Receive
  <2>2. NoMishap' <=> NoMishap
    BY <1>1, <2>1 DEF NoMishap
  <2>3. client # 0 => view' = Read(view, state)
    BY <1>1, <2>1 DEF Read, Show
  <2>4. client # 0 => \A w : Leads(view, toSdk, w) => Leads(view', toSdk', w)
    BY <1>1, <2>1, <2>3, ReadLeads
  <2>5. client # 0 => (WillShowWord => WillShowWord') /\ (WillShowEnd => WillShowEnd')
    BY <1>1, <1>2, <2>4 DEF WillShowWord, WillShowEnd
  <2>6. ASSUME Farewells(toSdk) PROVE Farewells(toSdk)'
    <3>1. Farewells(Tail(toSdk))
      BY <1>1, <2>6, FarewellsRead
    <3>2. QED BY <1>1, <2>1, <3>1 DEF Farewells
  <2>7. QED BY <1>1, <1>2, <2>2, <2>5, <2>6 DEF SessionInv, ViewInv
<1>5. QED BY <1>3, <1>4

\* What Say does to what is on its way, when nothing goes wrong.
LEMMA SayView ==
    ASSUME IInv, NEW s \in Words, Say(s), mishaps' = {}
    PROVE  /\ toSdk \in Seq(States) /\ toSdk' = Append(toSdk, s) /\ Shown' = Said(Shown, s)
           /\ s = "registered" => mishaps = {}
           /\ account = 0 => s = "disconnected"
<1>1. /\ word' = (IF s = "registered" THEN word ELSE s) /\ refreshed' = (s = "registered")
      /\ sock # "open" => mishaps' = mishaps \cup {"missed"} \cup Stray(s)
      /\ sock = "open" => toSdk' = Append(toSdk, s)
                          /\ mishaps' = (mishaps \ MadeGood(s)) \cup Stray(s)
  BY DEF Say
<1>2. sock = "open" /\ Stray(s) = {} /\ mishaps \ MadeGood(s) = {}
  BY <1>1
<1>3. s = "registered" => mishaps = {}
  BY <1>2 DEF MadeGood
<1>4. account = 0 => s = "disconnected"
  BY <1>2 DEF Stray
<1>5. Shown' = Said(Shown, s)
  BY <1>1, WordsApart DEF Shown, Said
<1>6. QED BY <1>1, <1>2, <1>3, <1>4, <1>5, StateTypes

\* A state other than "registered" is what a client will show.
LEMMA WordLeads ==
    ASSUME IInv, NEW s \in Words \ {"registered"}, Say(s), mishaps' = {}, UNCHANGED view
    PROVE  Leads(view', toSdk', Shown') /\ WillShowWord' /\ WillShowEnd'
<1>1. toSdk \in Seq(States) /\ toSdk' = Append(toSdk, s) /\ Shown' = Said(Shown, s)
  BY SayView
<1>2. Shown' = s
  BY <1>1 DEF Said
<1>3. Leads(view', toSdk', Shown')
  BY <1>1, <1>2, StrongLeads
<1>4. QED BY <1>3 DEF WillShowWord, WillShowEnd

\* The end of an account, or of a call without one, is said last.
LEMMA EndView ==
    ASSUME SessionInv, IInv', Say("disconnected"), account' = 0, UNCHANGED <<view, client>>,
           ~answered'
    PROVE  ViewInv'
<1>1. word' = "disconnected" /\ ~refreshed' /\ "disconnected" \in Words \ {"registered"} /\ IInv
  BY WordsApart DEF Say, SessionInv
<1>2. Unsaid'
  BY <1>1 DEF Unsaid
<1>3. ASSUME NoMishap' PROVE Farewells(toSdk)' /\ WillShowEnd'
  <2>1. mishaps' = {}
    BY <1>3 DEF NoMishap
  <2>2. toSdk \in Seq(States) /\ toSdk' = Append(toSdk, "disconnected")
    BY <1>1, <2>1, SayView
  <2>3. WillShowEnd'
    BY <1>1, <2>1, WordLeads
  <2>4. /\ Len(toSdk') = Len(toSdk) + 1 /\ Len(toSdk) \in Nat
        /\ toSdk'[Len(toSdk) + 1] = "disconnected"
    BY <2>2, AppendProperties
  <2>5. \A i \in 1 .. Len(toSdk') : i = Len(toSdk) + 1 \/ i < Len(toSdk) + 1
    BY <2>4
  <2>6. Len(toSdk) + 1 \in 1 .. Len(toSdk')
    BY <2>4
  <2>7. Farewells(toSdk)'
    BY <1>1, <2>4, <2>5, <2>6 DEF Farewells
  <2>8. QED BY <2>3, <2>7
<1>4. account' = client' => client' = 0
  OBVIOUS
<1>5. QED BY <1>2, <1>3, <1>4 DEF ViewInv

\* An account is made: its client will show what was said of the one before.
LEMMA RegistrationView ==
    ASSUME SessionInv, IInv', HandleRegistration
    PROVE  ViewInv'
<1>1. /\ UNCHANGED <<running, answered, word, refreshed, toSdk, view, client>>
      /\ \/ account = 0 /\ mishaps' = mishaps
         \/ account = 0 /\ mishaps' = mishaps \cup {"refused"} /\ UNCHANGED account
         \/ account # 0 /\ UNCHANGED <<account, mishaps>>
  BY DEF HandleRegistration, Handle, AccountIsNew
<1>2. /\ Unsaid' <=> Unsaid
      /\ Farewells(toSdk)' <=> Farewells(toSdk)
      /\ WillShowEnd' <=> WillShowEnd
      /\ WillShowWord' <=> WillShowWord
  BY <1>1 DEF Unsaid, Farewells, WillShowEnd, WillShowWord, Shown
<1>3. NoMishap' => NoMishap /\ mishaps' = mishaps
  BY <1>1 DEF NoMishap
<1>4. CASE account # 0
  BY <1>1, <1>2, <1>3, <1>4 DEF SessionInv, ViewInv
<1>5. CASE account = 0
  <2>1. running' => ~answered'
    BY <1>1, <1>5 DEF SessionInv, ViewInv
  <2>2. ASSUME NoMishap', client' # 0, account' = client' PROVE WillShowWord'
    <3>1. client # 0 /\ NoMishap /\ running
      BY <1>1, <1>3, <2>2 DEF NoMishap
    <3>2. WillShowEnd /\ Unsaid /\ ~answered
      BY <1>5, <3>1 DEF SessionInv, ViewInv
    <3>3. WillShowWord
      BY <3>2 DEF WillShowWord, WillShowEnd
    <3>4. QED BY <1>2, <3>3
  <2>3. NoMishap' => Unsaid' /\ Farewells(toSdk)' /\ (client' # 0 => WillShowEnd')
    BY <1>1, <1>2, <1>3, <1>5 DEF SessionInv, ViewInv
  <2>4. QED BY <2>1, <2>2, <2>3 DEF ViewInv
<1>6. QED BY <1>4, <1>5

\* disconnectAccount.
LEMMA DisconnectView ==
    ASSUME SessionInv, IInv', HandleDisconnect
    PROVE  ViewInv'
<1>1. /\ account' = 0 /\ ~answered' /\ UNCHANGED <<running, view, client>>
      /\ IF account = 0 THEN UNCHANGED saidVars ELSE Say("disconnected")
  BY DEF HandleDisconnect, Handle
<1>2. CASE account # 0
  BY <1>1, <1>2, EndView
<1>3. CASE account = 0
  <2>1. UNCHANGED <<word, refreshed, toSdk, mishaps, account>>
    BY <1>1, <1>3
  <2>2. /\ Unsaid' <=> Unsaid
        /\ Farewells(toSdk)' <=> Farewells(toSdk)
        /\ WillShowEnd' <=> WillShowEnd
        /\ NoMishap' <=> NoMishap
    BY <1>1, <2>1 DEF Unsaid, Farewells, WillShowEnd, Shown, NoMishap
  <2>3. QED BY <1>1, <1>3, <2>2 DEF SessionInv, ViewInv
<1>4. QED BY <1>2, <1>3

\* A state is said of an account, or of a call that has outlived its account.
LEMMA SaidView ==
    ASSUME SessionInv, IInv', NEW s \in Words, Say(s), UNCHANGED <<client, view, running, account>>,
           running /\ account = 0 => ~answered',
           s # "registered" \/ answered' \/ account = 0
    PROVE  ViewInv'
<1>1. IInv
  BY DEF SessionInv
<1>2. ASSUME NoMishap', account' = 0 PROVE s = "disconnected"
  <2>1. mishaps' = {} /\ account = 0
    BY <1>2 DEF NoMishap
  <2>2. QED BY <1>1, <2>1, SayView
<1>3. CASE s = "disconnected" /\ account = 0 /\ running
  BY <1>3, EndView
<1>4. CASE ~running
  BY <1>4 DEF ViewInv, NoMishap
<1>5. CASE account = 0 /\ s # "disconnected"
  BY <1>2, <1>5 DEF ViewInv
<1>6. CASE account # 0
  <2>1. ASSUME NoMishap', client' # 0, account' = client' PROVE WillShowWord'
    <3>1. mishaps' = {} /\ running /\ client # 0 /\ account = client
      BY <2>1 DEF NoMishap
    <3>2. /\ toSdk \in Seq(States) /\ toSdk' = Append(toSdk, s) /\ Shown' = Said(Shown, s)
          /\ s = "registered" => mishaps = {}
      BY <1>1, <3>1, SayView
    <3>3. CASE s # "registered"
      BY <1>1, <3>1, <3>3, WordLeads
    <3>4. CASE s = "registered"
      <4>1. WillShowWord
        BY <3>1, <3>2, <3>4 DEF NoMishap, SessionInv, ViewInv
      <4>2. CASE Leads(view, toSdk, Shown)
        <5>1. Leads(view, toSdk', Said(Shown, s))
          BY <3>2, <4>2, SayLeads
        <5>2. QED BY <3>2, <5>1 DEF WillShowWord
      <4>3. CASE Leads(view, toSdk, "registering") /\ Unsaid
        <5>1. Leads(view, toSdk', Said("registering", s))
          BY <3>2, <4>3, SayLeads
        <5>2. Said("registering", s) = s /\ Said(Shown, s) = s
          BY <4>3, WordsApart DEF Said, Unsaid, Shown
        <5>3. QED BY <3>2, <5>1, <5>2 DEF WillShowWord
      <4>4. QED BY <4>1, <4>2, <4>3 DEF WillShowWord
    <3>5. QED BY <3>3, <3>4
  <2>2. account' # 0
    BY <1>6
  <2>3. QED BY <2>1, <2>2 DEF ViewInv
<1>7. QED BY <1>3, <1>4, <1>5, <1>6

\* What the engine says of its own accord.
LEMMA ReportView ==
    ASSUME SessionInv, IInv', NEW state \in Reports, Report(state)
    PROVE  ViewInv'
<1>1. /\ Say(state) /\ state \in Words /\ UNCHANGED <<client, view, running, account>>
  BY ReportAssumption DEF Report
<1>2. \/ account # 0 /\ answered'
      \/ answered' = answered /\ state \in CallStates \cup {"streaming"}
  BY DEF Report, ReportAccount, ReportCall, ReportFileEnd
<1>3. running /\ account = 0 => ~answered'
  BY <1>2 DEF SessionInv, ViewInv
<1>4. state # "registered" \/ answered'
  BY <1>2 DEF CallStates
<1>5. QED BY <1>1, <1>3, <1>4, SaidView

\* makeCall.
LEMMA CallView ==
    ASSUME SessionInv, IInv', HandleCall
    PROVE  ViewInv'
<1>1. /\ Say("disconnected") \/ UNCHANGED saidVars
      /\ UNCHANGED <<running, account, answered, client, view>>
  BY DEF HandleCall, Handle
<1>2. CASE Say("disconnected")
  <2>1. running /\ account = 0 => ~answered'
    BY <1>1 DEF SessionInv, ViewInv
  <2>2. "disconnected" \in Words /\ "disconnected" # "registered"
    BY WordsApart
  <2>3. QED BY <1>1, <1>2, <2>1, <2>2, SaidView
<1>3. CASE UNCHANGED saidVars
  <2>1. UNCHANGED <<toSdk, word, refreshed, answered, account, running, mishaps, client, view>>
    BY <1>1, <1>3
  <2>2. QED BY <2>1, ViewStays DEF SessionInv
<1>4. QED BY <1>1, <1>2, <1>3

\* Nothing is lost with a connection but what is missed.
LEMMA LostView ==
    ASSUME SessionInv, IInv', ReceiveFails \/ SendFails \/ Break
    PROVE  "missed" \notin mishaps' => toSdk' = toSdk
<1>1. /\ toSdk \in Seq(States) /\ Len(toSdk) \in Nat /\ kept \in 0 .. Len(toSdk)
  BY StateTypes DEF SessionInv
<1>2. SubSeq(toSdk, 1, Len(toSdk)) = toSdk
  <2>1. \A l \in 1 .. Len(toSdk) : toSdk[l] \in States
    BY <1>1
  <2>2. /\ SubSeq(toSdk, 1, Len(toSdk)) \in Seq(States)
        /\ Len(SubSeq(toSdk, 1, Len(toSdk))) = Len(toSdk)
        /\ \A l \in 1 .. Len(toSdk) : SubSeq(toSdk, 1, Len(toSdk))[l] = toSdk[l]
    BY <1>1, <2>1
  <2>3. QED BY <1>1, <2>2, SeqEqual
<1>3. \/ toSdk' = toSdk
      \/ \E j \in 0 .. Len(toSdk) :
            /\ Missed(j) \subseteq mishaps'
            /\ toSdk' = SubSeq(toSdk, 1, j) \/ j < Len(toSdk)
  <2>1. CASE ReceiveFails \/ SendFails
    BY <1>1, <2>1 DEF ReceiveFails, SendFails, Hangup
  <2>2. CASE Break
    <3>1. PICK i \in 0 .. Len(toEngine), j \in kept .. Len(toSdk) :
             /\ \/ toSdk' = SubSeq(toSdk, 1, j)
                \/ j < Len(toSdk) /\ toSdk' = Append(SubSeq(toSdk, 1, j), "half")
             /\ mishaps' = mishaps \cup (IF i < Len(toEngine) THEN {"lost"} ELSE {})
                                   \cup Missed(j)
      BY <2>2 DEF Break
    <3>2. j \in 0 .. Len(toSdk) /\ Missed(j) \subseteq mishaps'
      BY <1>1, <3>1
    <3>3. toSdk' = SubSeq(toSdk, 1, j) \/ j < Len(toSdk)
      BY <3>1
    <3>4. QED BY <3>2, <3>3
  <2>3. QED BY <2>1, <2>2
<1>4. ASSUME NEW j \in 0 .. Len(toSdk), Missed(j) \subseteq mishaps', "missed" \notin mishaps'
      PROVE  j = Len(toSdk)
  <2>1. ~(j < Len(toSdk))
    BY <1>4 DEF Missed
  <2>2. QED BY <1>1, <2>1
<1>5. ASSUME NEW j \in 0 .. Len(toSdk), Missed(j) \subseteq mishaps', "missed" \notin mishaps',
             toSdk' = SubSeq(toSdk, 1, j) \/ j < Len(toSdk)
      PROVE  toSdk' = toSdk
  <2>1. j = Len(toSdk)
    BY <1>4, <1>5
  <2>2. toSdk' = SubSeq(toSdk, 1, j)
    BY <1>1, <1>5, <2>1
  <2>3. QED BY <1>2, <2>1, <2>2
<1>6. QED BY <1>3, <1>5

\* Every step keeps the invariant.
LEMMA NextView ==
    ASSUME SessionInv, IInv', [Next]_vars
    PROVE  ViewInv'
<1>1. CASE (\E wait \in BOOLEAN : Register(wait)) \/ Receive
  BY <1>1, RegisterView, ReceiveView
<1>2. CASE HandleRegistration \/ HandleDisconnect \/ HandleCall
  BY <1>2, RegistrationView, DisconnectView, CallView
<1>3. CASE \E state \in Reports : Report(state)
  BY <1>3, ReportView
<1>4. CASE \/ Disconnect \/ Call \/ Close \/ (\E c \in Switches : Switch(c)) \/ RunTask
           \/ (\E c \in DeviceSwitches : DeviceSwitch(c))
           \/ \E d \in Dicts : RegistrationReturns(d) \/ RegistrationTimesOut(d)
  <2>1. UNCHANGED <<toSdk, word, refreshed, answered, account, running>>
    BY <1>4 DEF Disconnect, Call, Close, Switch, RunTask, DeviceSwitch, RegistrationReturns,
                RegistrationTimesOut
  <2>2. (client' = client /\ view' = view) \/ client' = 0
    BY <1>4 DEF Disconnect, Call, Close, Switch, RunTask, DeviceSwitch, RegistrationReturns,
                RegistrationTimesOut
  <2>3. mishaps \subseteq mishaps'
    BY <1>4 DEF Disconnect, Call, Close, Switch, RunTask, DeviceSwitch, RegistrationReturns,
                RegistrationTimesOut
  <2>4. QED BY <2>1, <2>2, <2>3, ViewStays DEF SessionInv
<1>5. CASE Connect \/ SendOne \/ HandleOther \/ UNCHANGED vars
  <2>1. UNCHANGED <<view, toSdk, word, refreshed, answered, account, running, mishaps, client>>
    BY <1>5 DEF Connect, SendOne, HandleOther, Handle, vars
  <2>2. QED BY <2>1, ViewStays DEF SessionInv
<1>6. CASE HandleDestroy
  <2>1. ~running'
    BY <1>6 DEF HandleDestroy
  <2>2. QED BY <2>1 DEF ViewInv, NoMishap
<1>7. CASE ReceiveFails \/ SendFails \/ Break
  <2>1. /\ UNCHANGED <<view, word, refreshed, answered, account, running, client>>
        /\ mishaps \subseteq mishaps'
    BY <1>7 DEF ReceiveFails, SendFails, Break
  <2>2. CASE mishaps' = {}
    <3>1. toSdk' = toSdk
      BY <1>7, <2>2, LostView
    <3>2. QED BY <2>1, <3>1, ViewStays DEF SessionInv
  <2>3. CASE mishaps' # {}
    BY <2>1, <2>3 DEF SessionInv, ViewInv, NoMishap
  <2>4. QED BY <2>2, <2>3
<1>8. QED BY <1>1, <1>2, <1>3, <1>4, <1>5, <1>6, <1>7 DEF Next, App, TcpThread, Engine

\* What is kept is behind a state that is still to come, or missed.
LEMMA NextKept ==
    ASSUME SessionInv, IInv', [Next]_vars
    PROVE  KeptInv'
<1>1. /\ toSdk \in Seq(States) /\ Len(toSdk) \in Nat /\ kept \in 0 .. Len(toSdk) /\ KeptInv
  BY StateTypes DEF SessionInv
<1>2. ASSUME UNCHANGED <<toSdk, kept, reading>>, mishaps \subseteq mishaps' PROVE KeptInv'
  BY <1>1, <1>2 DEF KeptInv
<1>3. ASSUME NEW s, Say(s), UNCHANGED <<kept, reading>> PROVE KeptInv'
  <2>1. CASE sock = "open"
    <3>1. toSdk' = Append(toSdk, s)
      BY <1>3, <2>1 DEF Say
    <3>2. Len(Append(toSdk, s)) = Len(toSdk) + 1
      BY <1>1
    <3>3. QED BY <1>1, <1>3, <3>1, <3>2 DEF KeptInv
  <2>2. CASE sock # "open"
    <3>1. "missed" \in mishaps'
      BY <1>3, <2>2 DEF Say
    <3>2. QED BY <3>1 DEF KeptInv
  <2>3. QED BY <2>1, <2>2
<1>4. CASE App
  <2>1. UNCHANGED <<toSdk, kept, reading>>
    BY <1>4 DEF App, Register, RegistrationReturns, RegistrationTimesOut, Disconnect, Call,
                DeviceSwitch, Switch, RunTask, Close
  <2>2. mishaps \subseteq mishaps'
    BY <1>4 DEF App, Register, RegistrationReturns, RegistrationTimesOut, Disconnect, Call,
                DeviceSwitch, Switch, RunTask, Close
  <2>3. QED BY <1>2, <2>1, <2>2
<1>5. CASE Engine
  <2>1. \/ \E s : Say(s) /\ UNCHANGED <<kept, reading>>
        \/ UNCHANGED <<toSdk, kept, reading>> /\ mishaps \subseteq mishaps'
    BY <1>5 DEF Engine, HandleRegistration, HandleDisconnect, HandleDestroy, HandleCall,
                HandleOther, Handle, Report
  <2>2. QED BY <1>2, <1>3, <2>1
<1>6. CASE Receive
  <2>1. CASE halfLine /\ Head(toSdk) # "half"
    <3>1. "missed" \in mishaps'
      BY <1>6, <2>1 DEF Receive
    <3>2. QED BY <3>1 DEF KeptInv
  <2>2. CASE ~(halfLine /\ Head(toSdk) # "half")
    <3> DEFINE last == IF reading THEN kept ELSE kept + 1
    <3>1. last \in 1 .. Len(toSdk) /\ kept' = last - 1 /\ (last > 1 => reading')
      BY <1>6, <2>2 DEF Receive
    <3> HIDE DEF last
    <3>2. kept' > 0 => reading'
      BY <1>1, <3>1
    <3>3. QED BY <3>2 DEF KeptInv
  <2>3. QED BY <2>1, <2>2
<1>7. CASE ReceiveFails \/ SendFails \/ Break
  <2>1. UNCHANGED <<kept, reading>> /\ mishaps \subseteq mishaps'
    BY <1>7 DEF ReceiveFails, SendFails, Break
  <2>2. "missed" \notin mishaps' => toSdk' = toSdk
    BY <1>7, LostView
  <2>3. QED BY <1>1, <2>1, <2>2 DEF KeptInv
<1>8. CASE Connect \/ SendOne \/ UNCHANGED vars
  <2>1. UNCHANGED <<toSdk, kept, reading, mishaps>>
    BY <1>8 DEF Connect, SendOne, vars
  <2>2. QED BY <1>2, <2>1
<1>9. QED BY <1>4, <1>5, <1>6, <1>7, <1>8 DEF Next, TcpThread

-----------------------------------------------------------------------------
(* The end of the session *)

\* "destroy" is asked for once, leaves socket_queue with the end of
\* tcp_thread's loop, and only it ends the engine.
CloseInv ==
    /\ ~closing => startManager /\ ~HasDestroy(queue)
    /\ startManager => running /\ ~HasDestroy(toEngine)
    /\ CloseIsOnItsWay

\* It is found where its message is.
LEMMA DestroyAppended ==
    ASSUME NEW s \in Seq(Messages), NEW m \in Messages
    PROVE  HasDestroy(Append(s, m)) <=> HasDestroy(s) \/ m.command = "destroy"
<1>1. /\ Append(s, m) \in Seq(Messages) /\ Len(Append(s, m)) = Len(s) + 1 /\ Len(s) \in Nat
      /\ Append(s, m)[Len(s) + 1] = m /\ \A i \in 1 .. Len(s) : Append(s, m)[i] = s[i]
  BY AppendProperties
<1>2. DOMAIN Append(s, m) = 1 .. Len(s) + 1 /\ DOMAIN s = 1 .. Len(s)
  BY <1>1
<1>3. /\ \A i \in 1 .. Len(s) + 1 : i \in 1 .. Len(s) \/ i = Len(s) + 1
      /\ \A i \in 1 .. Len(s) : i \in 1 .. Len(s) + 1
      /\ Len(s) + 1 \in 1 .. Len(s) + 1
  BY <1>1
<1>4. QED BY <1>1, <1>2, <1>3 DEF HasDestroy

LEMMA DestroyInFront ==
    ASSUME NEW s \in Seq(Messages), s # << >>
    PROVE  HasDestroy(s) <=> Head(s).command = "destroy" \/ HasDestroy(Tail(s))
<1>1. /\ Tail(s) \in Seq(Messages) /\ Len(Tail(s)) = Len(s) - 1 /\ Len(s) \in Nat \ {0}
      /\ Head(s) = s[1] /\ \A i \in 1 .. Len(Tail(s)) : Tail(s)[i] = s[i + 1]
  BY HeadTailProperties
<1>2. DOMAIN Tail(s) = 1 .. Len(s) - 1 /\ DOMAIN s = 1 .. Len(s)
  BY <1>1
<1>3. /\ \A i \in 1 .. Len(s) : i = 1 \/ (i - 1 \in 1 .. Len(s) - 1 /\ s[i] = Tail(s)[i - 1])
      /\ \A i \in 1 .. Len(s) - 1 : i + 1 \in 1 .. Len(s)
      /\ 1 \in 1 .. Len(s)
  <2>1. \A i \in 1 .. Len(s) : i = 1 \/ (i - 1 \in 1 .. Len(s) - 1 /\ (i - 1) + 1 = i)
    BY <1>1
  <2>2. (\A i \in 1 .. Len(s) - 1 : i + 1 \in 1 .. Len(s)) /\ 1 \in 1 .. Len(s)
    BY <1>1
  <2>3. QED BY <1>1, <2>1, <2>2
<1>4. QED BY <1>1, <1>2, <1>3 DEF HasDestroy

LEMMA DestroyPut ==
    ASSUME NEW s \in Seq(Messages), NEW t \in Seq(Messages)
    PROVE  HasDestroy(s \o t) <=> HasDestroy(s) \/ HasDestroy(t)
<1>1. /\ s \o t \in Seq(Messages) /\ Len(s \o t) = Len(s) + Len(t)
      /\ Len(s) \in Nat /\ Len(t) \in Nat
      /\ \A i \in 1 .. Len(s) + Len(t) :
            (s \o t)[i] = IF i <= Len(s) THEN s[i] ELSE t[i - Len(s)]
  BY ConcatProperties
<1>2. DOMAIN (s \o t) = 1 .. Len(s) + Len(t) /\ DOMAIN s = 1 .. Len(s) /\ DOMAIN t = 1 .. Len(t)
  BY <1>1
<1>3. \A i \in 1 .. Len(s) : i \in 1 .. Len(s) + Len(t) /\ (s \o t)[i] = s[i]
  BY <1>1
<1>4. \A i \in 1 .. Len(t) : Len(s) + i \in 1 .. Len(s) + Len(t) /\ (s \o t)[Len(s) + i] = t[i]
  <2>1. \A i \in 1 .. Len(t) : /\ Len(s) + i \in 1 .. Len(s) + Len(t) /\ ~(Len(s) + i <= Len(s))
                               /\ (Len(s) + i) - Len(s) = i
    BY <1>1
  <2>2. QED BY <1>1, <2>1
<1>5. \A i \in 1 .. Len(s) + Len(t) :
         i \in 1 .. Len(s) \/ (i - Len(s) \in 1 .. Len(t) /\ Len(s) + (i - Len(s)) = i)
  BY <1>1
<1>6. HasDestroy(s) => HasDestroy(s \o t)
  BY <1>2, <1>3 DEF HasDestroy
<1>7. HasDestroy(t) => HasDestroy(s \o t)
  BY <1>2, <1>4 DEF HasDestroy
<1>8. ASSUME HasDestroy(s \o t) PROVE HasDestroy(s) \/ HasDestroy(t)
  <2>1. PICK i \in 1 .. Len(s) + Len(t) : (s \o t)[i].command = "destroy"
    BY <1>2, <1>8 DEF HasDestroy
  <2>2. CASE i \in 1 .. Len(s)
    BY <1>2, <1>3, <2>1, <2>2 DEF HasDestroy
  <2>3. CASE i - Len(s) \in 1 .. Len(t)
    <3>1. t[i - Len(s)] = (s \o t)[i]
      BY <1>4, <1>5, <2>3
    <3>2. QED BY <1>2, <2>1, <2>3, <3>1 DEF HasDestroy
  <2>4. QED BY <1>5, <2>2, <2>3
<1>9. QED BY <1>6, <1>7, <1>8

\* A call of the application other than close_sipcore puts no "destroy".
LEMMA OthersPut ==
    ASSUME queue \in Seq(Messages), NEW commands, NEW n \in Nat, DOMAIN commands = 1 .. n,
           Put(commands), count.asked \in Nat,
           \A i \in 1 .. n :
              /\ commands[i][1] \in Commands \ {"destroy"} /\ commands[i][2] \in Dicts \cup {0}
              /\ commands[i][2] = 0 <=> commands[i][1] \in Clientless
    PROVE  HasDestroy(queue') <=> HasDestroy(queue)
<1> DEFINE new == [i \in 1 .. n |->
                     Message(count.asked + i, commands[i][1], commands[i][2], "app")]
<1>1. queue' = queue \o new
  BY DEF Put
<1>2. \A i \in 1 .. n : count.asked + i \in Nat
  OBVIOUS
<1>3. ASSUME NEW i \in 1 .. n
      PROVE  /\ Message(count.asked + i, commands[i][1], commands[i][2], "app") \in Messages
             /\ Message(count.asked + i, commands[i][1], commands[i][2], "app").command
                   # "destroy"
  <2> DEFINE id == count.asked + i
             c  == commands[i][1]
             d  == commands[i][2]
  <2>1. /\ id \in Nat /\ c \in Commands /\ c # "destroy" /\ d \in Dicts \cup {0}
        /\ d = 0 <=> c \in Clientless
    BY <1>2
  <2>2. "app" \in Senders
    BY DEF Senders
  <2> HIDE DEF id, c, d
  <2>3. /\ Message(id, c, d, "app") \in Messages
        /\ Message(id, c, d, "app").command = c
    BY <2>1, <2>2, MessageTypes
  <2>4. QED BY <2>1, <2>3 DEF id, c, d
<1>3a. /\ DOMAIN new = 1 .. n
       /\ \A i \in 1 .. n :
             new[i] = Message(count.asked + i, commands[i][1], commands[i][2], "app")
  OBVIOUS
<1>3b. \A i \in 1 .. n :
          /\ Message(count.asked + i, commands[i][1], commands[i][2], "app") \in Messages
          /\ Message(count.asked + i, commands[i][1], commands[i][2], "app").command # "destroy"
  BY <1>3
<1>3c. new \in [1 .. n -> Messages]
  BY <1>3b
<1> HIDE DEF new
<1>4. new \in Seq(Messages) /\ DOMAIN new = 1 .. n
      /\ \A i \in 1 .. n : new[i].command # "destroy"
  BY <1>3a, <1>3b, <1>3c
<1>5. ~HasDestroy(new)
  BY <1>4 DEF HasDestroy
<1>6. QED BY <1>1, <1>4, <1>5, DestroyPut

\* A step that moves no "destroy".
LEMMA CloseStays ==
    ASSUME CloseInv, UNCHANGED <<closing, startManager, running>>,
           mishaps \ {"missed", "stray"} \subseteq mishaps',
           HasDestroy(queue') <=> HasDestroy(queue),
           HasDestroy(toEngine') <=> HasDestroy(toEngine)
    PROVE  CloseInv'
<1>1. "lost" \in mishaps => "lost" \in mishaps'
  OBVIOUS
<1>2. (HasDestroy(queue)' <=> HasDestroy(queue)) /\ (HasDestroy(toEngine)' <=> HasDestroy(toEngine))
  OBVIOUS
<1>3. QED BY <1>1, <1>2 DEF CloseInv, CloseIsOnItsWay

\* One command, of the application or a task, is put behind the others.
LEMMA OtherClose ==
    ASSUME IInv, CloseInv, NEW c \in Commands \ {"destroy"}, NEW d \in Dicts \cup {0},
           d = 0 <=> c \in Clientless, Put(<<<<c, d>>>>),
           UNCHANGED <<closing, startManager, running, mishaps, toEngine>>
    PROVE  CloseInv'
<1>1. queue \in Seq(Messages) /\ count.asked \in Nat
  BY CountTypes, TypesApart DEF IInv
<1>2. DOMAIN <<<<c, d>>>> = 1 .. 1
  OBVIOUS
<1>3. \A i \in 1 .. 1 : /\ <<<<c, d>>>>[i][1] \in Commands \ {"destroy"}
                        /\ <<<<c, d>>>>[i][2] \in Dicts \cup {0}
                        /\ (<<<<c, d>>>>[i][2] = 0 <=> <<<<c, d>>>>[i][1] \in Clientless)
  OBVIOUS
<1>4. HasDestroy(queue') <=> HasDestroy(queue)
  BY <1>1, <1>2, <1>3, OthersPut
<1>5. QED BY <1>4, CloseStays

\* subscriber_registration puts no "destroy".
LEMMA RegisterClose ==
    ASSUME IInv, CloseInv, NEW wait \in BOOLEAN, Register(wait)
    PROVE  CloseInv'
<1> DEFINE new == count.regs + 1
<1>1. /\ Put(Farewell \o <<<<"registration", new>>>>) /\ count.regs < MaxRegs
      /\ UNCHANGED <<closing, startManager, running, mishaps, toEngine>>
  BY DEF Register
<1>2. /\ new \in Dicts /\ new # 0 /\ client \in Dicts \cup {0} /\ 0 \notin Dicts
      /\ queue \in Seq(Messages) /\ count.asked \in Nat
  <2>1. client \in Dicts \cup {0} /\ queue \in Seq(Messages)
    BY TypesApart DEF IInv
  <2>2. count.asked \in Nat /\ count.regs \in 0 .. MaxRegs /\ MaxRegs \in Nat
    BY CountTypes DEF IInv
  <2>3. new \in Dicts /\ 0 \notin Dicts
    BY <1>1, <2>2 DEF Dicts
  <2> HIDE DEF new
  <2>4. QED BY <2>1, <2>2, <2>3
<1>3. \A c \in {"registration", "disconnect"} :
         c \in Commands \ {"destroy"} /\ c \notin Clientless
  BY CommandTypes
<1> HIDE DEF new
<1>4. CASE client = 0
  <2>1. Farewell \o <<<<"registration", new>>>> = <<<<"registration", new>>>>
    BY <1>4 DEF Farewell
  <2>2. Put(<<<<"registration", new>>>>)
    BY <1>1, <2>1
  <2>3. new \in Dicts \cup {0} /\ (new = 0 <=> "registration" \in Clientless)
    BY <1>2, <1>3
  <2>4. QED BY <1>1, <1>3, <2>2, <2>3, OtherClose
<1>5. CASE client # 0
  <2> DEFINE commands == <<<<"disconnect", client>>, <<"registration", new>>>>
  <2>1. Farewell \o <<<<"registration", new>>>> = commands
    BY <1>5, TwoInARow DEF Farewell
  <2>2. DOMAIN commands = 1 .. 2
    OBVIOUS
  <2>3. \A i \in 1 .. 2 : /\ commands[i][1] \in Commands \ {"destroy"}
                          /\ commands[i][2] \in Dicts \cup {0}
                          /\ (commands[i][2] = 0 <=> commands[i][1] \in Clientless)
    <3>1. \A i \in 1 .. 2 : i = 1 \/ i = 2
      OBVIOUS
    <3>2. /\ commands[1][1] = "disconnect" /\ commands[1][2] = client
          /\ commands[2][1] = "registration" /\ commands[2][2] = new
      OBVIOUS
    <3> HIDE DEF commands
    <3>3. QED BY <1>2, <1>3, <1>5, <3>1, <3>2
  <2> HIDE DEF commands
  <2>4. Put(commands)
    BY <1>1, <2>1
  <2>5. HasDestroy(queue') <=> HasDestroy(queue)
    BY <1>2, <2>2, <2>3, <2>4, OthersPut
  <2>6. QED BY <1>1, <2>5, CloseStays
<1>6. QED BY <1>4, <1>5

\* A task puts one that is about its client.
LEMMA TaskClose ==
    ASSUME IInv, CloseInv, RunTask
    PROVE  CloseInv'
<1> DEFINE task == Head(tasks)
           now  == dictCommand[task.dict]
<1>1. /\ UNCHANGED <<closing, startManager, running, toEngine>> /\ mishaps \subseteq mishaps'
      /\ queue' = Append(queue, Message(task.id, now, task.dict, "task")) /\ tasks # << >>
  BY DEF RunTask
<1>2. task.dict \in Dicts /\ task.id \in Nat /\ 0 \notin Dicts
  <2>1. tasks \in Seq(Tasks) /\ 0 \notin Dicts
    BY TypesApart DEF IInv, Dicts
  <2>2. task \in Tasks
    BY <1>1, <2>1, HeadTailProperties
  <2>3. QED BY <2>1, <2>2 DEF Tasks
<1> HIDE DEF task
<1>3. now \in Commands /\ now \notin Clientless /\ queue \in Seq(Messages)
  BY <1>2, TypesApart DEF IInv
<1>4. now # "destroy"
  BY <1>3, CommandTypes
<1> HIDE DEF now
<1>5. /\ Message(task.id, now, task.dict, "task") \in Messages
      /\ Message(task.id, now, task.dict, "task").command = now
  <2>1. task.dict \in Dicts \cup {0} /\ "task" \in Senders /\ (task.dict = 0 <=> now \in Clientless)
    BY <1>2, <1>3
  <2>2. QED BY <1>2, <1>3, <2>1, MessageTypes
<1>6. HasDestroy(queue') <=> HasDestroy(queue)
  BY <1>1, <1>3, <1>4, <1>5, DestroyAppended
<1>7. mishaps \ {"missed", "stray"} \subseteq mishaps'
  BY <1>1
<1>8. QED BY <1>1, <1>6, <1>7, CloseStays

\* The calls of the application.
LEMMA AppClose ==
    ASSUME IInv, IInv', CloseInv, App
    PROVE  CloseInv'
<1>1. /\ count.asked \in Nat /\ queue \in Seq(Messages) /\ 0 \notin Dicts
      /\ client \in Dicts \cup {0}
  BY CountTypes, TypesApart DEF IInv, Dicts
<1>2. CASE Disconnect \/ Call
  <2>1. PICK c \in {"disconnect", "call"} : Put(<<<<c, client>>>>)
    BY <1>2 DEF Disconnect, Call
  <2>2. client # 0 /\ UNCHANGED <<closing, startManager, running, mishaps, toEngine>>
    BY <1>2 DEF Disconnect, Call, Request
  <2>3. c \in Commands \ {"destroy"} /\ c \notin Clientless
    BY CommandTypes
  <2>4. QED BY <1>1, <2>1, <2>2, <2>3, OtherClose
<1>3. ASSUME NEW c \in DeviceSwitches, DeviceSwitch(c) PROVE CloseInv'
  <2>1. /\ Put(<<<<c, 0>>>>)
        /\ UNCHANGED <<closing, startManager, running, mishaps, toEngine>>
    BY <1>3 DEF DeviceSwitch
  <2>2. c \in Commands \ {"destroy"} /\ c \in Clientless /\ 0 \in Dicts \cup {0}
    BY CommandTypes
  <2>3. QED BY <2>1, <2>2, OtherClose
<1>4. CASE Close
  <2>1. /\ ~closing /\ Put(<<<<"destroy", 0>>>>) /\ startManager' = startManager /\ closing'
        /\ UNCHANGED <<running, toEngine>>
    BY <1>4 DEF Close, StaysUntilSent
  <2>2. running /\ startManager /\ ~HasDestroy(toEngine)
    BY <2>1 DEF CloseInv
  <2> DEFINE m   == Message(count.asked + 1, "destroy", 0, "app")
             new == [i \in 1 .. 1 |-> m]
  <2>3. m \in Messages /\ m.command = "destroy"
    <3>1. /\ count.asked + 1 \in Nat /\ "app" \in Senders /\ 0 \in Dicts \cup {0}
          /\ "destroy" \in Commands /\ "destroy" \in Clientless
      BY <1>1, CommandTypes
    <3>2. QED BY <3>1, MessageTypes
  <2>4. [i \in DOMAIN <<<<"destroy", 0>>>> |->
           Message(count.asked + i, <<<<"destroy", 0>>>>[i][1], <<<<"destroy", 0>>>>[i][2],
                   "app")] = new
    OBVIOUS
  <2>5. queue' = queue \o new
    BY <2>1, <2>4 DEF Put
  <2> HIDE DEF m
  <2>6. new \in Seq(Messages) /\ DOMAIN new = 1 .. 1 /\ new[1] = m
    BY <2>3
  <2> HIDE DEF new
  <2>7. HasDestroy(new)
    BY <2>3, <2>6 DEF HasDestroy
  <2>8. HasDestroy(queue')
    BY <1>1, <2>5, <2>6, <2>7, DestroyPut
  <2>9. closing' /\ HasDestroy(queue)' /\ running' /\ startManager' /\ ~HasDestroy(toEngine)'
    BY <2>1, <2>2, <2>8
  <2>10. QED BY <2>9 DEF CloseInv, CloseIsOnItsWay
<1>5. CASE \/ \E d \in Dicts : RegistrationReturns(d) \/ RegistrationTimesOut(d)
           \/ \E command \in Switches : Switch(command)
  <2>1. /\ UNCHANGED <<closing, startManager, running, toEngine, queue>>
        /\ mishaps \subseteq mishaps'
    BY <1>5 DEF RegistrationReturns, RegistrationTimesOut, Switch
  <2>2. mishaps \ {"missed", "stray"} \subseteq mishaps'
    BY <2>1
  <2>3. QED BY <2>1, <2>2, CloseStays
<1>6. QED BY <1>2, <1>3, <1>4, <1>5, RegisterClose, TaskClose DEF App

\* A command is sent, or lost with its connection.
LEMMA SendClose ==
    ASSUME IInv, IInv', CloseInv, SendOne \/ SendFails \/ Break
    PROVE  CloseInv'
<1>1. queue \in Seq(Messages) /\ toEngine \in Seq(Messages)
  BY TypesApart DEF IInv
<1>2. CASE SendOne
  <2>1. /\ startManager /\ queue # << >> /\ queue' = Tail(queue)
        /\ toEngine' = Append(toEngine, Head(queue))
        /\ startManager' = (Head(queue).command # "destroy")
        /\ UNCHANGED <<closing, running, mishaps>>
    BY <1>2 DEF SendOne
  <2>2. Head(queue) \in Messages
    BY <1>1, <2>1, HeadTailProperties
  <2>3. HasDestroy(toEngine') <=> HasDestroy(toEngine) \/ Head(queue).command = "destroy"
    BY <1>1, <2>1, <2>2, DestroyAppended
  <2>4. HasDestroy(queue) <=> Head(queue).command = "destroy" \/ HasDestroy(queue')
    BY <1>1, <2>1, DestroyInFront
  <2>5. ~HasDestroy(toEngine) /\ running
    BY <2>1 DEF CloseInv
  <2>6. CASE Head(queue).command = "destroy"
    <3>1. closing' /\ ~startManager' /\ HasDestroy(toEngine')
      BY <2>1, <2>3, <2>4, <2>6 DEF CloseInv
    <3>2. QED BY <3>1 DEF CloseInv, CloseIsOnItsWay
  <2>7. CASE Head(queue).command # "destroy"
    <3>1. startManager' = startManager
      BY <2>1, <2>7
    <3>2. QED BY <2>1, <2>3, <2>4, <2>7, <3>1, CloseStays
  <2>8. QED BY <2>6, <2>7
<1>3. CASE SendFails
  <2>1. /\ startManager /\ queue # << >> /\ queue' = Tail(queue)
        /\ startManager' = startManager \/ startManager' = (Head(queue).command # "destroy")
        /\ "lost" \in mishaps'
        /\ UNCHANGED <<closing, running, toEngine>>
    BY <1>3 DEF SendFails, Taken
  <2>2. HasDestroy(queue) <=> Head(queue).command = "destroy" \/ HasDestroy(queue')
    BY <1>1, <2>1, DestroyInFront
  <2>3. ~closing' => startManager' /\ ~HasDestroy(queue)'
    BY <2>1, <2>2 DEF CloseInv
  <2>4. startManager' => running' /\ ~HasDestroy(toEngine)'
    BY <2>1 DEF CloseInv
  <2>5. QED BY <2>1, <2>3, <2>4 DEF CloseInv, CloseIsOnItsWay
<1>4. CASE Break
  <2>1. PICK i \in 0 .. Len(toEngine) :
           /\ toEngine' = SubSeq(toEngine, 1, i)
           /\ i < Len(toEngine) => "lost" \in mishaps'
    BY <1>4 DEF Break
  <2>2. UNCHANGED <<closing, startManager, running, queue>> /\ mishaps \subseteq mishaps'
    BY <1>4 DEF Break
  <2>3. /\ Len(toEngine) \in Nat /\ toEngine' \in Seq(Messages) /\ Len(toEngine') = i
        /\ \A l \in 1 .. i : toEngine'[l] = toEngine[l]
    <3>1. \A l \in 1 .. i : toEngine[l] \in Messages
      BY <1>1, <2>1
    <3>2. QED BY <1>1, <2>1, <3>1
  <2>4. HasDestroy(toEngine') => HasDestroy(toEngine)
    <3>1. DOMAIN toEngine' = 1 .. i /\ DOMAIN toEngine = 1 .. Len(toEngine)
      BY <1>1, <2>3
    <3>2. \A l \in 1 .. i : l \in 1 .. Len(toEngine)
      BY <2>1, <2>3
    <3>3. QED BY <2>3, <3>1, <3>2 DEF HasDestroy
  <2>5. CASE i = Len(toEngine)
    <3>1. toEngine' = toEngine
      BY <1>1, <2>3, <2>5, SeqEqual
    <3>2. QED BY <2>2, <3>1, CloseStays
  <2>6. CASE i < Len(toEngine)
    <3>1. "lost" \in mishaps'
      BY <2>1, <2>6
    <3>2. ~closing' => startManager' /\ ~HasDestroy(queue)'
      BY <2>2 DEF CloseInv
    <3>3. startManager' => running' /\ ~HasDestroy(toEngine)'
      BY <2>2, <2>4 DEF CloseInv
    <3>4. QED BY <3>1, <3>2, <3>3 DEF CloseInv, CloseIsOnItsWay
  <2>7. QED BY <2>1, <2>3, <2>5, <2>6
<1>5. QED BY <1>2, <1>3, <1>4

\* The engine works on a command, or says something.
LEMMA EngineClose ==
    ASSUME IInv, IInv', CloseInv, Engine
    PROVE  CloseInv'
<1>1. CASE \E state \in Reports : Report(state)
  <2>1. /\ UNCHANGED <<closing, startManager, running, queue, toEngine>>
        /\ \E state \in Words : Say(state)
    BY <1>1, ReportAssumption DEF Report
  <2>2. mishaps \ {"missed", "stray"} \subseteq mishaps'
    BY <2>1, SayTypes DEF IInv
  <2>3. QED BY <2>1, <2>2, CloseStays
<1>2. ASSUME NEW c, Handle(c), c # "destroy", running' = running,
             mishaps \ {"missed", "stray"} \subseteq mishaps'
      PROVE  CloseInv'
  <2>1. /\ toEngine # << >> /\ Head(toEngine).command = c /\ toEngine' = Tail(toEngine)
        /\ UNCHANGED <<closing, startManager, queue>>
    BY <1>2 DEF Handle
  <2>2. toEngine \in Seq(Messages)
    BY TypesApart DEF IInv
  <2>3. HasDestroy(toEngine') <=> HasDestroy(toEngine)
    BY <1>2, <2>1, <2>2, DestroyInFront
  <2>4. QED BY <1>2, <2>1, <2>3, CloseStays
<1>3. Say("disconnected") \/ UNCHANGED saidVars => mishaps \ {"missed", "stray"} \subseteq mishaps'
  BY SaidTypes, WordsApart DEF IInv
<1>4. CASE HandleRegistration
  <2>1. Handle("registration") /\ running' = running /\ mishaps \subseteq mishaps'
    BY <1>4 DEF HandleRegistration
  <2>2. mishaps \ {"missed", "stray"} \subseteq mishaps'
    BY <2>1
  <2>3. QED BY <1>2, <2>1, <2>2
<1>5. CASE HandleDisconnect
  <2>1. /\ Handle("disconnect") /\ running' = running
        /\ Say("disconnected") \/ UNCHANGED saidVars
    BY <1>5 DEF HandleDisconnect
  <2>2. QED BY <1>2, <1>3, <2>1
<1>6. CASE HandleCall
  <2>1. /\ Handle("call") /\ running' = running
        /\ Say("disconnected") \/ UNCHANGED saidVars
    BY <1>6 DEF HandleCall
  <2>2. QED BY <1>2, <1>3, <2>1
<1>7. CASE HandleDestroy
  <2>1. /\ Handle("destroy") /\ ~running' /\ toEngine # << >>
        /\ Head(toEngine).command = "destroy" /\ UNCHANGED <<closing, startManager>>
    BY <1>7 DEF HandleDestroy, Handle
  <2>2. toEngine \in Seq(Messages)
    BY TypesApart DEF IInv
  <2>3. HasDestroy(toEngine)
    BY <2>1, <2>2, DestroyInFront
  <2>4. ~startManager /\ closing
    BY <2>3 DEF CloseInv
  <2>5. ~startManager' /\ closing'
    BY <2>1, <2>4
  <2>6. QED BY <2>1, <2>5 DEF CloseInv, CloseIsOnItsWay
<1>8. CASE HandleOther
  <2>1. PICK c \in Switches \cup DeviceSwitches : Handle(c)
    BY <1>8 DEF HandleOther
  <2>2. running' = running /\ mishaps' = mishaps /\ c # "destroy"
    BY <1>8, CommandTypes DEF HandleOther
  <2>3. QED BY <1>2, <2>1, <2>2
<1>9. QED BY <1>1, <1>4, <1>5, <1>6, <1>7, <1>8 DEF Engine

\* Every step keeps the invariant.
LEMMA NextClose ==
    ASSUME IInv, IInv', CloseInv, [Next]_vars
    PROVE  CloseInv'
<1>1. CASE Connect \/ Receive \/ ReceiveFails \/ UNCHANGED vars
  <2>1. /\ UNCHANGED <<closing, startManager, running, queue, toEngine>>
        /\ mishaps \subseteq mishaps'
    BY <1>1 DEF Connect, Receive, ReceiveFails, vars
  <2>2. QED BY <2>1, CloseStays
<1>2. QED BY <1>1, AppClose, SendClose, EngineClose DEF Next, TcpThread

-----------------------------------------------------------------------------
(* The theorems *)

\* At the start there is no client, and nothing has been said or asked for.
LEMMA SessionStarts == Init => SessionInv /\ CloseInv
<1>1. SUFFICES ASSUME Init PROVE SessionInv /\ CloseInv
  OBVIOUS
<1>2. IInv
  BY <1>1, InitHolds
<1>3. KnownInv
  <2>1. << >> \in Seq(KnownMessages) /\ << >> \in Seq(KnownTasks)
    OBVIOUS
  <2>2. QED BY <1>1, <2>1 DEF Init, KnownInv
<1>4. ViewInv
  <2>1. \A i \in 1 .. Len(<< >>) : FALSE
    OBVIOUS
  <2>2. QED BY <1>1, <2>1 DEF Init, ViewInv, Unsaid, Farewells
<1>5. CloseInv /\ KeptInv
  BY <1>1 DEF Init, CloseInv, CloseIsOnItsWay, HasDestroy, KeptInv
<1>6. QED BY <1>2, <1>3, <1>4, <1>5 DEF SessionInv

\* The invariants hold in every state the SDK and the engine can reach.
THEOREM SessionInvariance == Spec => [](SessionInv /\ CloseInv)
<1>1. SessionInv /\ CloseInv /\ [Next]_vars => SessionInv' /\ CloseInv'
  <2>1. SUFFICES ASSUME SessionInv, CloseInv, [Next]_vars PROVE SessionInv' /\ CloseInv'
    OBVIOUS
  <2>2. IInv'
    BY <2>1, NextKeeps DEF SessionInv
  <2>3. KnownInv' /\ ViewInv' /\ KeptInv' /\ CloseInv'
    BY <2>1, <2>2, NextKnown, NextView, NextKept, NextClose DEF SessionInv
  <2>4. QED BY <2>2, <2>3 DEF SessionInv
<1>2. QED BY <1>1, SessionStarts, PTL DEF Spec

\* When everything has arrived, a client's current_state is the last word of
\* the engine about the number, or "registering" of an account that nothing
\* has been said of.  A "registered" is shown instead of it unless the client
\* is in a call; a call that is only "calling" or "connecting" does not count,
\* as the SDK's tuple does not list these states.  Calls that outlive their
\* account may have reported anything, in any order: the next state that is
\* said of an account, or an end of such a call, makes that good, and so it
\* does a state that was missed.
THEOREM ClientsShowLastWord == Spec => []ViewIsLastWord
<1>1. SessionInv => ViewIsLastWord
  <2>1. SUFFICES ASSUME SessionInv, Quiet, NoMishap, client # 0
                 PROVE  \/ view = word /\ (refreshed => word \in InACall)
                        \/ view = "registered" /\ refreshed
                              /\ word \notin InACall \ {"calling", "connecting"}
                        \/ view = "registering" /\ ~answered /\ ~refreshed
                              /\ word \in {"nothing", "disconnected"}
    BY DEF ViewIsLastWord, NoMishap
  <2>2. account = client
    <3>1. IInv /\ Fine
      BY <2>1 DEF SessionInv, NoMishap, Fine
    <3>2. toEngine = << >> /\ queue = << >>
      BY <2>1 DEF Quiet
    <3>3. \A i \in 1 .. Len(Pending) : FALSE
      BY <3>1, <3>2, PendingTypes DEF IInv
    <3>4. QED BY <3>1, <3>3 DEF IInv, AccountInv, LastDecides
  <2>3. toSdk = << >>
    <3>1. toSdk \in Seq(States) /\ Len(toSdk) \in Nat /\ kept \in 0 .. Len(toSdk)
      BY <2>1, StateTypes DEF SessionInv
    <3>2. ~(kept > 0)
      BY <2>1, <3>1 DEF SessionInv, KeptInv, Quiet, NoMishap
    <3>3. Len(toSdk) = 0
      BY <2>1, <3>1, <3>2 DEF Quiet
    <3>4. QED BY <3>1, <3>3
  <2>4. WillShowWord
    BY <2>1, <2>2 DEF SessionInv, ViewInv
  <2>5. view = Shown \/ (view = "registering" /\ ~answered /\ Unsaid)
    BY <2>3, <2>4, EmptyLeads DEF WillShowWord
  <2>6. view = Shown => \/ view = word /\ (refreshed => word \in InCall)
                        \/ view = "registered" /\ refreshed /\ word \notin InCall
    BY DEF Shown
  <2>7. InCall \subseteq InACall /\ InACall \ {"calling", "connecting"} \subseteq InCall
    BY DEF InCall, InACall
  <2>8. QED BY <2>5, <2>6, <2>7 DEF Unsaid
<1>2. QED BY <1>1, SessionInvariance, PTL

\* After close_sipcore "destroy" is never forgotten: it waits while tcp_thread
\* still sends, or is with the engine, or the engine has ended.
THEOREM CloseStaysOnItsWay == Spec => []CloseIsOnItsWay
<1>1. CloseInv => CloseIsOnItsWay
  BY DEF CloseInv
<1>2. QED BY <1>1, SessionInvariance, PTL

=============================================================================
