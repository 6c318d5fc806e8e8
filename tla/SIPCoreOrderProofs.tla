------------------------- MODULE SIPCoreOrderProofs -------------------------
(***************************************************************************)
(* Theorems about the order in which SIPCore tells the client of its       *)
(* calls, for all users, calls and bounds.  The two queues of states are   *)
(* looked at as one, with the batch being sent in front.                   *)
(***************************************************************************)
EXTENDS SIPCoreProofs

Queue == localStates \o pendingStates

\* How far the library has taken a call; 0 for one never reported.
Level(c) == IF status[c] \in CallState \cup {"disconnected"} THEN Rank[status[c]] ELSE 0

\* The report at place i of the queue is about call c, or is of its end.
About(i, c)  == i \in 1 .. Len(Queue) /\ Queue[i].call = c
EndsAt(i, c) == About(i, c) /\ Queue[i].state = "disconnected"

\* By the time place k of the queue is sent, the client has heard of c, or of
\* its end.
HeardBefore(c, k) == told[c] # "none" \/ \E i \in 1 .. k - 1 : About(i, c)
EndBefore(c, k)   == told[c] = "disconnected" \/ \E i \in 1 .. k - 1 : EndsAt(i, c)

-----------------------------------------------------------------------------
(* The inductive invariant *)

BatchInv == localStates # << >> => pc = "send"

\* What was told, what waits and what a call has come to are in order.
RankInv ==
    /\ \A c \in Calls : Rank[told[c]] <= Level(c)
    /\ \A c \in Calls : \A i \in 1 .. Len(Queue) : About(i, c) =>
          /\ Rank[told[c]] <= Rank[Queue[i].state]
          /\ Rank[Queue[i].state] <= Level(c)
    /\ \A c \in Calls : \A i, j \in 1 .. Len(Queue) :
          About(i, c) /\ About(j, c) /\ i <= j => Rank[Queue[i].state] <= Rank[Queue[j].state]

\* The end of a call that has ended waits or has been told.
EndInv ==
    \A c \in Calls : status[c] = "disconnected" =>
        told[c] = "disconnected" \/ \E i \in 1 .. Len(Queue) : EndsAt(i, c)

\* When a call is reported, the end of every earlier one of its user comes first.
TurnInv ==
    Serving => \A c, d \in Calls : \A j \in 1 .. Len(Queue) :
        c # d /\ owner[c] = owner[d] /\ About(j, d) /\ HeardBefore(c, j) => EndBefore(c, j)

OrderInv == BatchInv /\ RankInv /\ EndInv /\ TurnInv

-----------------------------------------------------------------------------
(* Data *)

USE NoneAssumption
USE DEF mainVars, commandVars, removeVars, tableVars, libVars, clientVars

Reported == CallState \cup {"disconnected"}

\* The ranks of the states a call can report, and of none.
LEMMA Ranks ==
    /\ Rank["none"] = 0 /\ Rank["disconnected"] = 5
    /\ Rank["incoming"] = 1 /\ Rank["calling"] = 1 /\ Rank["ringing"] = 2
    /\ Rank["connecting"] = 3 /\ Rank["confirmed"] = 4
  BY DEF Rank, CallState

\* Ranks are numbers; only "none" has rank 0, only the end has rank 5.
LEMMA RankTypes ==
    /\ \A s \in Reported : Rank[s] \in 1 .. 5
    /\ \A s \in Reported \cup {"none"} : Rank[s] \in 0 .. 5
    /\ \A s \in Reported \cup {"none"} : Rank[s] = 0 => s = "none"
    /\ \A s \in Reported \cup {"none"} : Rank[s] >= 5 => s = "disconnected"
  BY Ranks DEF Reported, CallState

\* A level is a number, and 0 only for a call the library has not reported.
LEMMA LevelTypes ==
    \A c \in Calls : Level(c) \in 0 .. 5 /\ (Level(c) = 0 <=> status[c] \notin Reported)
  BY RankTypes DEF Level, Reported

\* The queue is one of reports, and what is about a call is one of its states.
LEMMA QueueTypes ==
    ASSUME TypeOK
    PROVE  /\ Queue \in Seq(PendingState)
           /\ Len(Queue) \in Nat
           /\ \A c \in Calls : \A i \in 1 .. Len(Queue) :
                 Queue[i].call = c => Queue[i].state \in Reported
<1>1. Queue \in Seq(PendingState)
  BY DEF TypeOK, Queue
<1>2. \A i \in 1 .. Len(Queue) : Queue[i] \in PendingState
  BY <1>1
<1>3. \A item \in PendingState, c \in Calls : item.call = c => item.state \in Reported
  BY DEF PendingState, Reported
<1>4. QED BY <1>1, <1>2, <1>3

-----------------------------------------------------------------------------
(* As far as the reports are concerned, a step is one of these. *)

\* Nothing changes but the queue, which may get a report about no call.
Stays ==
    /\ UNCHANGED <<told, status, owner>>
    /\ Serving' => Serving
    /\ \/ Queue' = Queue
       \/ \E item \in PendingState : item.call = NoCall /\ Queue' = Append(Queue, item)

\* A call that has not been reported gets a status, and maybe its owner.
Prepares(c) ==
    /\ status[c] \in {"null", "starting"}
    /\ \E s \in {"starting", "incoming", "failed", "rejected"} :
          status' = [status EXCEPT ![c] = s]
    /\ \/ owner' = owner
       \/ status[c] = "null" /\ \E u \in Users : owner' = [owner EXCEPT ![c] = u]
    /\ Queue' = Queue /\ told' = told
    /\ Serving' => Serving

\* A live call reports a state that is not behind the one it has.
Reports(c, s) ==
    /\ status[c] \in CallState \cup {"starting"}
    /\ s \in Reported
    /\ Level(c) <= Rank[s]
    /\ owner[c] \in Users
    /\ status' = [status EXCEPT ![c] = s]
    /\ Queue' = Append(Queue, Report(owner[c], s, c))
    /\ UNCHANGED <<told, owner>>
    /\ Serving' = Serving

\* The front of the queue is sent.
Sends ==
    /\ Queue # << >>
    /\ Queue' = Tail(Queue)
    /\ told' = IF Head(Queue).call = NoCall THEN told
               ELSE [told EXCEPT ![Head(Queue).call] = Head(Queue).state]
    /\ UNCHANGED <<status, owner>>
    /\ Serving' = Serving /\ Serving

\* A push at the end of the waiting states is one at the end of the queue.
LEMMA PushQueue ==
    ASSUME TypeOK, NEW item \in PendingState,
           pendingStates' = Append(pendingStates, item), localStates' = localStates
    PROVE  Queue' = Append(Queue, item)
<1>1. localStates \in Seq(PendingState) /\ pendingStates \in Seq(PendingState)
  BY DEF TypeOK
<1>2. Queue' = localStates \o Append(pendingStates, item)
  BY DEF Queue
<1>3. QED BY <1>1, <1>2 DEF Queue

\* Taking the waiting states leaves the queue as it is; sending one takes it
\* from the front.
LEMMA TakeQueue == ASSUME TypeOK, BatchInv, TakeStates PROVE Queue' = Queue
<1>1. localStates = << >>
  BY DEF BatchInv, TakeStates
<1>2. pendingStates \in Seq(PendingState)
  BY DEF TypeOK
<1>3. Queue' = pendingStates \o << >> /\ Queue = << >> \o pendingStates
  BY <1>1 DEF TakeStates, SwapStates, Queue
<1>4. QED BY <1>2, <1>3

LEMMA SendQueue ==
    ASSUME TypeOK, SendState
    PROVE  Queue # << >> /\ Queue' = Tail(Queue) /\ Head(Queue) = Head(localStates)
<1>1. /\ localStates \in Seq(PendingState) /\ pendingStates \in Seq(PendingState)
      /\ localStates # << >>
  BY DEF TypeOK, SendState
<1>2. Queue' = Tail(localStates) \o pendingStates
  BY DEF SendState, Queue
<1>3. QED BY <1>1, <1>2 DEF Queue

\* Every step is of one of these kinds.
LEMMA ReportKinds ==
    ASSUME TypeOK, CommandInv, AlertInv, TableInv, BatchInv, [Next]_vars
    PROVE  \/ Stays \/ Sends
           \/ \E c \in Calls : Prepares(c)
           \/ \E c \in Calls, s \in Reported : Reports(c, s)
<1> USE DEF Queue
<1>1. ASSUME NEW cmd \in Commands, HandleTcpMessage(cmd) PROVE Stays
  BY <1>1 DEF HandleTcpMessage, Serving, Stays
<1>2. ASSUME \/ TakeCommands \/ TakeRemoves \/ EraseCall \/ LoopAgain \/ HangupAllCalls
             \/ ClearCalls \/ LibDestroy \/ UNCHANGED vars
      PROVE  Stays
  BY <1>2 DEF TakeCommands, TakeRemoves, EraseCall, LoopAgain, HangupAllCalls,
              ClearCalls, LibDestroy, vars, Serving, Stays
<1>3. ASSUME NEW u \in Users,
             \/ RegisterAccount(u) \/ DisconnectAccount(u) \/ MakeCallTooMany(u)
             \/ AnswerCall(u) \/ HangupCall(u) \/ Ignore(u) \/ DestroyCommand(u)
      PROVE  Stays
  BY <1>3 DEF RegisterAccount, DisconnectAccount, MakeCallTooMany, AnswerCall,
              HangupCall, Ignore, DestroyCommand, Running, Serving, Stays
<1>4. ASSUME NEW u \in Users, NEW s \in {"disconnected", "account", "streaming"},
             pendingStates' = Append(pendingStates, Report(u, s, NoCall)),
             UNCHANGED <<localStates, told, status, owner>>,
             Serving' => Serving
      PROVE  Stays
  <2>1. Report(u, s, NoCall) \in PendingState /\ Report(u, s, NoCall).call = NoCall
    BY ReportType DEF Report
  <2>2. Queue' = Append(Queue, Report(u, s, NoCall))
    BY <1>4, <2>1, PushQueue
  <2>3. QED BY <1>4, <2>1, <2>2 DEF Stays
<1>5. ASSUME NEW u \in Users, MakeCallEmpty(u) \/ OnRegState(u) PROVE Stays
  BY <1>4, <1>5 DEF MakeCallEmpty, OnRegState, Push, Serving
<1>6. ASSUME ShutdownAccount PROVE Stays
  <2>1. Head(localCommands).username \in Users
    BY <1>6 DEF TypeOK, CommandInv, ShutdownAccount, Commands
  <2>2. QED BY <1>4, <1>6, <2>1 DEF ShutdownAccount, Push, Serving
<1>7. ASSUME TakeStates PROVE Stays
  BY <1>7, TakeQueue DEF TakeStates, Serving, Stays
<1>8. ASSUME SendState PROVE Sends
  BY <1>8, SendQueue DEF SendState, Serving, Sends
<1>9. ASSUME NEW u \in Users, NEW c \in Calls,
             MakeCall(u, c) \/ OnIncomingCall(u, c) \/ RejectIncomingCall(u, c)
      PROVE  Prepares(c)
  BY <1>9 DEF MakeCall, OnIncomingCall, RejectIncomingCall, Running, Store, Serving, Prepares
<1>10. ASSUME NEW c \in Calls, StartCallFails(c) PROVE Prepares(c)
  BY <1>10 DEF StartCallFails, Serving, Prepares
<1>11. ASSUME NEW c \in Calls, NEW s \in Reported,
              status[c] \in CallState \cup {"starting"}, Level(c) <= Rank[s],
              Push(Report(owner[c], s, c)), UNCHANGED <<localStates, told, owner>>,
              status' = [status EXCEPT ![c] = s], Serving' = Serving
       PROVE  Reports(c, s)
  <2>1. owner[c] \in Users
    BY <1>11 DEF TableInv
  <2>2. Report(owner[c], s, c) \in PendingState
    BY <2>1, ReportType DEF Reported, CallState
  <2>3. Queue' = Append(Queue, Report(owner[c], s, c))
    BY <1>11, <2>2, PushQueue DEF Push
  <2>4. QED BY <1>11, <2>1, <2>3 DEF Reports
<1> USE Ranks, RankTypes DEF Reported, CallState
<1>12. ASSUME NEW c \in Calls, StartCall(c) PROVE Reports(c, "calling")
  <2>1. status[c] = "starting" /\ Level(c) <= Rank["calling"]
    BY <1>12 DEF StartCall, Level
  <2>2. QED BY <1>11, <1>12, <2>1 DEF StartCall, Serving
<1>13. ASSUME NEW c \in Calls, Alert(c) PROVE Stays \/ Reports(c, "ringing")
  <2>1. status[c] = "incoming"
    BY <1>13 DEF Alert, AlertInv
  <2>2. CASE UNCHANGED <<pendingStates, status>>
    BY <1>13, <2>2 DEF Alert, Stays, Serving
  <2>3. CASE Push(Report(owner[c], "ringing", c)) /\ status' = [status EXCEPT ![c] = "ringing"]
    <3>1. Level(c) <= Rank["ringing"]
      BY <2>1 DEF Level
    <3>2. QED BY <1>11, <1>13, <2>1, <2>3, <3>1 DEF Alert, Serving
  <2>4. QED BY <1>13, <2>2, <2>3 DEF Alert
<1>14. ASSUME NEW c \in Calls, NEW s \in {"ringing", "connecting", "confirmed"},
              OnCallState(c, s)
       PROVE  Reports(c, s)
  <2>1. status[c] \in CallState /\ Rank[s] > Rank[status[c]]
    BY <1>14 DEF OnCallState, InDialog
  <2>2. Level(c) <= Rank[s]
    BY <2>1 DEF Level
  <2>3. QED BY <1>11, <1>14, <2>1, <2>2 DEF OnCallState, Serving
<1>15. ASSUME NEW c \in Calls, OnCallMediaState(c) PROVE Reports(c, status[c])
  <2>1. status[c] \in CallState /\ status' = [status EXCEPT ![c] = status[c]]
    BY <1>15 DEF OnCallMediaState, InDialog, TypeOK
  <2>2. Level(c) <= Rank[status[c]]
    BY <2>1 DEF Level
  <2>3. QED BY <1>11, <1>15, <2>1, <2>2 DEF OnCallMediaState, Serving
<1>16. ASSUME NEW c \in Calls, OnDisconnected(c) PROVE Reports(c, "disconnected")
  <2>1. status[c] \in CallState /\ Level(c) <= Rank["disconnected"]
    BY <1>16 DEF OnDisconnected, InDialog, Level
  <2>2. QED BY <1>11, <1>16, <2>1 DEF OnDisconnected, Serving
<1>17. ASSUME NEW c \in Calls, PushRemove(c) \/ SendInvite(c) \/ OnEof(c) PROVE Stays
  BY <1>17 DEF PushRemove, SendInvite, OnEof, Serving, Stays
<1>18. /\ \A c \in Calls : Reports(c, "calling") => \E s \in Reported : Reports(c, s)
       /\ \A c \in Calls : Reports(c, "ringing") => \E s \in Reported : Reports(c, s)
       /\ \A c \in Calls : Reports(c, "disconnected") => \E s \in Reported : Reports(c, s)
       /\ \A c \in Calls : Reports(c, status[c]) => \E s \in Reported : Reports(c, s)
  BY DEF Reports
<1>19. ASSUME NEW c \in Calls, Streamed(c) PROVE Stays
  <2>1. owner[c] \in Users
    BY <1>19 DEF Streamed, TableInv
  <2>2. QED BY <1>4, <1>19, <2>1 DEF Streamed, Serving
<1>20. QED
  BY <1>1, <1>2, <1>3, <1>5, <1>6, <1>7, <1>8, <1>9, <1>10, <1>12, <1>13,
     <1>14, <1>15, <1>16, <1>17, <1>18, <1>19
     DEF Next, MainLoop, MainWork, Dispatch, Callbacks, Terminated

-----------------------------------------------------------------------------
(* What a push at the back and a pop at the front do to places *)

\* A push leaves every place as it is and adds one.
LEMMA Appending ==
    ASSUME TypeOK, NEW item \in PendingState, Queue' = Append(Queue, item)
    PROVE  /\ Len(Queue') = Len(Queue) + 1
           /\ \A i \in 1 .. Len(Queue) : Queue'[i] = Queue[i]
           /\ Queue'[Len(Queue) + 1] = item
           /\ \A c : \A i \in 1 .. Len(Queue) :
                 (About(i, c)' <=> About(i, c)) /\ (EndsAt(i, c)' <=> EndsAt(i, c))
<1>1. Queue \in Seq(PendingState) /\ Len(Queue) \in Nat
  BY QueueTypes
<1>2. /\ Len(Queue') = Len(Queue) + 1
      /\ \A i \in 1 .. Len(Queue) : Queue'[i] = Queue[i]
      /\ Queue'[Len(Queue) + 1] = item
  BY <1>1
<1>3. \A i \in 1 .. Len(Queue) : i \in 1 .. Len(Queue')
  BY <1>1, <1>2
<1>4. QED BY <1>2, <1>3 DEF About, EndsAt

\* What comes before a place does not change with a push behind it.
LEMMA BeforeAppending ==
    ASSUME TypeOK, NEW item \in PendingState, Queue' = Append(Queue, item), told' = told
    PROVE  \A c : \A k \in 1 .. Len(Queue) + 1 :
              (HeardBefore(c, k)' <=> HeardBefore(c, k)) /\ (EndBefore(c, k)' <=> EndBefore(c, k))
<1>1. Len(Queue) \in Nat
  BY QueueTypes
<1>2. \A k \in 1 .. Len(Queue) + 1 : \A i \in 1 .. k - 1 : i \in 1 .. Len(Queue)
  BY <1>1
<1>3. QED BY <1>2, Appending DEF HeardBefore, EndBefore

\* A pop moves every place one forward, and tells the front.
LEMMA Sending ==
    ASSUME TypeOK, Sends
    PROVE  /\ Len(Queue') = Len(Queue) - 1
           /\ Len(Queue) \in Nat \ {0}
           /\ \A i \in 1 .. Len(Queue') : i + 1 \in 1 .. Len(Queue) /\ Queue'[i] = Queue[i + 1]
           /\ \A c : \A i \in 1 .. Len(Queue') :
                 (About(i, c)' <=> About(i + 1, c)) /\ (EndsAt(i, c)' <=> EndsAt(i + 1, c))
           /\ \A c \in Calls : About(1, c) => told'[c] = Queue[1].state
           /\ \A c \in Calls : ~About(1, c) => told'[c] = told[c]
<1>1. Queue \in Seq(PendingState) /\ Queue # << >> /\ Queue' = Tail(Queue)
  BY QueueTypes DEF Sends
<1>2. /\ Len(Queue') = Len(Queue) - 1 /\ Len(Queue) \in Nat \ {0}
      /\ \A i \in 1 .. Len(Queue') : i + 1 \in 1 .. Len(Queue) /\ Queue'[i] = Queue[i + 1]
      /\ Head(Queue) = Queue[1] /\ 1 \in 1 .. Len(Queue)
  BY <1>1
<1>3. \A c : \A i \in 1 .. Len(Queue') :
         (About(i, c)' <=> About(i + 1, c)) /\ (EndsAt(i, c)' <=> EndsAt(i + 1, c))
  BY <1>2 DEF About, EndsAt
<1>4. \A c : About(1, c) <=> Head(Queue).call = c
  BY <1>2 DEF About
<1>5. \A c \in Calls : /\ About(1, c) => told'[c] = Queue[1].state
                       /\ ~About(1, c) => told'[c] = told[c]
  BY <1>2, <1>4 DEF Sends, TypeOK
<1>6. QED BY <1>2, <1>3, <1>5

\* What was before a place is before it after the pop, as the front was told.
LEMMA BeforeSending ==
    ASSUME TypeOK, RankInv, Sends, NEW c \in Calls, NEW k \in Nat \ {0}, k <= Len(Queue)
    PROVE  /\ HeardBefore(c, k)' => HeardBefore(c, k + 1)
           /\ EndBefore(c, k + 1) => EndBefore(c, k)'
<1>1. \A i \in 1 .. k - 1 : i \in 1 .. Len(Queue')
  BY Sending
<1>2. ASSUME HeardBefore(c, k)' PROVE HeardBefore(c, k + 1)
  <2>1. CASE told'[c] # "none"
    <3>1. About(1, c) \/ told[c] # "none"
      BY <2>1, Sending
    <3>2. 1 \in 1 .. (k + 1) - 1
      OBVIOUS
    <3>3. QED BY <3>1, <3>2 DEF HeardBefore
  <2>2. CASE \E i \in 1 .. k - 1 : About(i, c)'
    <3>1. PICK i \in 1 .. k - 1 : About(i, c)'
      BY <2>2
    <3>2. About(i + 1, c) /\ i + 1 \in 1 .. (k + 1) - 1
      BY <1>1, <3>1, Sending
    <3>3. QED BY <3>2 DEF HeardBefore
  <2>3. QED BY <1>2, <2>1, <2>2 DEF HeardBefore
<1>3. ASSUME EndBefore(c, k + 1) PROVE EndBefore(c, k)'
  <2>1. CASE told[c] = "disconnected" \/ EndsAt(1, c)
    <3>1. CASE About(1, c)
      <4>1. Queue[1].state \in Reported /\ 1 \in 1 .. Len(Queue)
        BY <3>1, QueueTypes DEF About
      <4>2. told[c] = "disconnected" => Rank["disconnected"] <= Rank[Queue[1].state]
        BY <3>1, <4>1 DEF RankInv
      <4>3. Queue[1].state = "disconnected"
        BY <2>1, <4>1, <4>2, Ranks, RankTypes DEF EndsAt
      <4>4. QED BY <3>1, <4>3, Sending DEF EndBefore
    <3>2. CASE ~About(1, c)
      BY <2>1, <3>2, Sending DEF EndBefore, EndsAt
    <3>3. QED BY <3>1, <3>2
  <2>2. CASE \E i \in 2 .. k : EndsAt(i, c)
    <3>1. PICK i \in 2 .. k : EndsAt(i, c)
      BY <2>2
    <3>2. i - 1 \in 1 .. k - 1 /\ (i - 1) + 1 = i
      OBVIOUS
    <3>3. EndsAt(i - 1, c)'
      BY <1>1, <3>1, <3>2, Sending
    <3>4. QED BY <3>2, <3>3 DEF EndBefore
  <2>3. \A i \in 1 .. (k + 1) - 1 : i = 1 \/ i \in 2 .. k
    OBVIOUS
  <2>4. QED BY <1>3, <2>1, <2>2, <2>3 DEF EndBefore
<1>4. QED BY <1>2, <1>3

-----------------------------------------------------------------------------
(* The parts of the invariant, from step to step *)

\* Only the call a step is about changes its level.
LEMMA LevelChange ==
    ASSUME TypeOK
    PROVE  /\ \A c \in Calls : status'[c] = status[c] => Level(c)' = Level(c)
           /\ Stays \/ Sends => \A c \in Calls : Level(c)' = Level(c)
           /\ \A c, d \in Calls : Prepares(c) /\ d # c => Level(d)' = Level(d)
           /\ \A c \in Calls : Prepares(c) => Level(c) = 0
           /\ \A c, d \in Calls : \A s \in Reported : Reports(c, s) =>
                 /\ status'[c] = s /\ Level(c)' = Rank[s] /\ Level(c) <= Level(c)'
                 /\ d # c => status'[d] = status[d] /\ Level(d)' = Level(d)
<1>1. \A c \in Calls : status'[c] = status[c] => Level(c)' = Level(c)
  BY DEF Level
<1>2. Stays \/ Sends => \A c \in Calls : Level(c)' = Level(c)
  BY <1>1 DEF Stays, Sends
<1>3. \A c, d \in Calls : Prepares(c) /\ d # c => Level(d)' = Level(d)
  BY <1>1 DEF Prepares, TypeOK
<1>4. \A c \in Calls : Prepares(c) => Level(c) = 0
  BY DEF Prepares, Level, CallState
<1>5. \A c, d \in Calls : \A s \in Reported : Reports(c, s) =>
         /\ status'[c] = s
         /\ d # c => status'[d] = status[d]
  BY DEF Reports, TypeOK
<1>6. \A c \in Calls : \A s \in Reported : Reports(c, s) => Level(c)' = Rank[s]
  BY <1>5 DEF Level, Reported
<1>7. \A c \in Calls : \A s \in Reported : Reports(c, s) => Level(c) <= Rank[s]
  BY DEF Reports
<1>8. QED BY <1>1, <1>2, <1>3, <1>4, <1>5, <1>6, <1>7

\* A batch is only there while it is being sent.
LEMMA BatchKept ==
    ASSUME TypeOK, CommandInv, AlertInv, TableInv, BatchInv, [Next]_vars
    PROVE  BatchInv'
<1>1. ASSUME TakeStates \/ TakeRemoves \/ LoopAgain PROVE BatchInv'
  BY <1>1 DEF TakeStates, TakeRemoves, LoopAgain, BatchInv
<1>2. ASSUME SendState PROVE BatchInv'
  BY <1>2 DEF SendState, BatchInv
<1>3. ASSUME localStates' = localStates, pc' = pc \/ pc \notin {"send", "erase"} PROVE BatchInv'
  BY <1>3 DEF BatchInv
<1>4. localStates' = localStates \/ TakeStates \/ SendState
  BY StepEffects DEF PushesOther, OnDisconnected
<1>5. QED BY <1>1, <1>2, <1>3, <1>4, StepEffects

\* A call that has not been reported is not spoken of.
LEMMA Unheard ==
    ASSUME TypeOK, RankInv, NEW c \in Calls, Level(c) = 0
    PROVE  told[c] = "none" /\ (\A i \in 1 .. Len(Queue) : ~About(i, c))
<1>1. Rank[told[c]] <= 0 /\ told[c] \in Reported \cup {"none"}
  BY DEF RankInv, TypeOK, Reported
<1>2. told[c] = "none"
  BY <1>1, RankTypes
<1>3. ASSUME NEW i \in 1 .. Len(Queue), About(i, c) PROVE FALSE
  <2>1. Queue[i].state \in Reported /\ Rank[Queue[i].state] <= 0
    BY <1>3, QueueTypes DEF RankInv, About
  <2>2. QED BY <2>1, RankTypes
<1>4. QED BY <1>2, <1>3

\* The queue with a report more of call c, or of no call.
LEMMA RankAppending ==
    ASSUME TypeOK, RankInv, NEW item \in PendingState, Queue' = Append(Queue, item), told' = told,
           \A c \in Calls : Level(c) <= Level(c)',
           item.call # NoCall =>
               Level(item.call) <= Rank[item.state] /\ Rank[item.state] <= Level(item.call)'
    PROVE  RankInv'
<1> DEFINE n == Len(Queue) + 1
<1>1. Len(Queue) \in Nat /\ 1 .. Len(Queue') = 1 .. n
  BY QueueTypes, Appending
<1>2. \A i \in 1 .. n : i = n \/ i \in 1 .. Len(Queue)
  BY <1>1
<1>3. n \in 1 .. n /\ \A i \in 1 .. Len(Queue) : ~(n <= i)
  BY <1>1
<1>4. \A c \in Calls : \A i \in 1 .. n : i = n => (About(i, c)' <=> item.call = c)
  BY <1>1, Appending DEF About
<1>5. Queue'[n] = item
  BY Appending
<1>6. \A c \in Calls : /\ Level(c) \in Int /\ Level(c)' \in Int /\ Rank[told[c]] \in Int
                       /\ Rank[told[c]] <= Level(c)'
  <2>1. \A c \in Calls : told[c] \in Reported \cup {"none"}
    BY DEF TypeOK, Reported
  <2>2. \A c \in Calls : Rank[told[c]] \in Int /\ Level(c) \in Int
    BY <2>1, RankTypes, LevelTypes
  <2>3. \A c \in Calls : Level(c)' \in Int
    BY RankTypes DEF Level, Reported
  <2>4. QED BY <2>2, <2>3 DEF RankInv
<1>7. \A c \in Calls : item.call = c => Rank[item.state] \in Int
  <2>1. \A c \in Calls : item.call = c => item.state \in Reported
    BY DEF PendingState, Reported
  <2>2. QED BY <2>1, RankTypes
<1>8. \A c \in Calls : \A i \in 1 .. Len(Queue) : About(i, c) => Rank[Queue[i].state] \in Int
  <2>1. \A c \in Calls : \A i \in 1 .. Len(Queue) : About(i, c) => Queue[i].state \in Reported
    BY QueueTypes DEF About
  <2>2. QED BY <2>1, RankTypes
<1>9. ASSUME NEW c \in Calls, NEW i \in 1 .. n, About(i, c)'
      PROVE  Rank[told'[c]] <= Rank[Queue'[i].state] /\ Rank[Queue'[i].state] <= Level(c)'
  <2>1. CASE i = n
    <3>1. item.call = c /\ Queue'[i] = item
      BY <1>4, <1>5, <1>9, <2>1
    <3>2. Rank[told[c]] <= Level(c)
      BY DEF RankInv
    <3>3. QED BY <1>6, <1>7, <3>1, <3>2
  <2>2. CASE i \in 1 .. Len(Queue)
    <3>1. About(i, c) /\ Queue'[i] = Queue[i]
      BY <1>9, <2>2, Appending
    <3>2. Rank[told[c]] <= Rank[Queue[i].state] /\ Rank[Queue[i].state] <= Level(c)
      BY <2>2, <3>1 DEF RankInv
    <3>3. QED BY <1>6, <1>8, <2>2, <3>1, <3>2
  <2>3. QED BY <1>2, <2>1, <2>2
<1>10. ASSUME NEW c \in Calls, NEW i \in 1 .. n, NEW j \in 1 .. n, About(i, c)', About(j, c)', i <= j
       PROVE  Rank[Queue'[i].state] <= Rank[Queue'[j].state]
  <2>1. CASE i = n
    <3>1. j = n
      BY <1>2, <1>3, <1>10, <2>1
    <3>2. Queue'[i] = item /\ item.call = c
      BY <1>4, <1>5, <1>10, <2>1
    <3>3. QED BY <1>7, <2>1, <3>1, <3>2
  <2>2. CASE i \in 1 .. Len(Queue) /\ j \in 1 .. Len(Queue)
    BY <1>10, <2>2, Appending DEF RankInv
  <2>3. CASE i \in 1 .. Len(Queue) /\ j = n
    <3>1. About(i, c) /\ Queue'[i] = Queue[i] /\ item.call = c /\ Queue'[j] = item
      BY <1>4, <1>5, <1>10, <2>3, Appending
    <3>2. Rank[Queue[i].state] <= Level(c) /\ Level(c) <= Rank[item.state]
      BY <2>3, <3>1 DEF RankInv
    <3>3. QED BY <1>6, <1>7, <1>8, <2>3, <3>1, <3>2
  <2>4. QED BY <1>2, <2>1, <2>2, <2>3
<1>11. QED BY <1>1, <1>6, <1>9, <1>10 DEF RankInv

\* Ranks only grow: from what was told, through what waits, to what is.
LEMMA RankKept ==
    ASSUME TypeOK, TypeOK', RankInv,
           \/ Stays \/ Sends
           \/ \E c \in Calls : Prepares(c)
           \/ \E c \in Calls, s \in Reported : Reports(c, s)
    PROVE  RankInv'
<1>1. ASSUME Queue' = Queue, told' = told, \A c \in Calls : Level(c)' = Level(c) PROVE RankInv'
  BY <1>1 DEF RankInv, About
<1>2. CASE Stays
  <2>1. \A c \in Calls : Level(c)' = Level(c) /\ Level(c) <= Level(c)'
    BY <1>2, LevelChange, LevelTypes
  <2>2. CASE Queue' = Queue
    BY <1>1, <1>2, <2>1, <2>2 DEF Stays
  <2>3. ASSUME NEW item \in PendingState, item.call = NoCall, Queue' = Append(Queue, item)
        PROVE  RankInv'
    BY <1>2, <2>1, <2>3, RankAppending DEF Stays
  <2>4. QED BY <1>2, <2>2, <2>3 DEF Stays
<1>3. ASSUME NEW c \in Calls, Prepares(c) PROVE RankInv'
  <2>1. Queue' = Queue /\ told' = told
    BY <1>3 DEF Prepares
  <2>2. told[c] = "none" /\ (\A i \in 1 .. Len(Queue) : ~About(i, c))
    BY <1>3, LevelChange, Unheard
  <2>3. \A d \in Calls : d # c => Level(d)' = Level(d)
    BY <1>3, LevelChange
  <2>4. 0 <= Level(c)'
    BY RankTypes DEF Level, Reported
  <2>5. \A i, d : About(i, d)' <=> About(i, d)
    BY <2>1 DEF About
  <2>6. QED BY <2>1, <2>2, <2>3, <2>4, <2>5, Ranks DEF RankInv
<1>4. ASSUME NEW c \in Calls, NEW s \in Reported, Reports(c, s) PROVE RankInv'
  <2> DEFINE item == Report(owner[c], s, c)
  <2>1. item \in PendingState /\ item.call = c /\ item.state = s
    BY <1>4, ReportType DEF Reports, Report, Reported, CallState
  <2>2. Queue' = Append(Queue, item) /\ told' = told /\ Level(c) <= Rank[s]
    BY <1>4 DEF Reports
  <2>3. \A d \in Calls : Level(d) <= Level(d)'
    BY <1>4, LevelChange, LevelTypes
  <2>4. Rank[s] <= Level(c)'
    BY <1>4, LevelChange, RankTypes
  <2> HIDE DEF item
  <2>5. QED BY <2>1, <2>2, <2>3, <2>4, RankAppending
<1>5. CASE Sends
  <2>1. \A c \in Calls : Level(c)' = Level(c)
    BY <1>5, LevelChange
  <2>2. ASSUME NEW c \in Calls PROVE Rank[told'[c]] <= Level(c)
    <3>1. CASE About(1, c)
      BY <1>5, <3>1, Sending DEF RankInv
    <3>2. CASE ~About(1, c)
      BY <1>5, <3>2, Sending DEF RankInv
    <3>3. QED BY <3>1, <3>2
  <2>3. ASSUME NEW c \in Calls, NEW i \in 1 .. Len(Queue'), About(i, c)'
        PROVE  Rank[told'[c]] <= Rank[Queue'[i].state] /\ Rank[Queue'[i].state] <= Level(c)
    <3>1. /\ i + 1 \in 1 .. Len(Queue) /\ Queue'[i] = Queue[i + 1] /\ About(i + 1, c)
          /\ 1 \in 1 .. Len(Queue) /\ 1 <= i + 1
      BY <1>5, <2>3, Sending
    <3>2. CASE About(1, c)
      BY <1>5, <3>1, <3>2, Sending DEF RankInv
    <3>3. CASE ~About(1, c)
      BY <1>5, <3>1, <3>3, Sending DEF RankInv
    <3>4. QED BY <3>2, <3>3
  <2>4. ASSUME NEW c \in Calls, NEW i \in 1 .. Len(Queue'), NEW j \in 1 .. Len(Queue'),
               About(i, c)', About(j, c)', i <= j
        PROVE  Rank[Queue'[i].state] <= Rank[Queue'[j].state]
    <3>1. /\ i + 1 \in 1 .. Len(Queue) /\ Queue'[i] = Queue[i + 1] /\ About(i + 1, c)
          /\ j + 1 \in 1 .. Len(Queue) /\ Queue'[j] = Queue[j + 1] /\ About(j + 1, c)
          /\ i + 1 <= j + 1
      BY <1>5, <2>4, Sending
    <3>2. QED BY <3>1 DEF RankInv
  <2>5. QED BY <2>1, <2>2, <2>3, <2>4 DEF RankInv
<1>6. QED BY <1>2, <1>3, <1>4, <1>5

\* The end of a call that has ended is not lost on its way.
LEMMA EndKept ==
    ASSUME TypeOK, RankInv, EndInv,
           \/ Stays \/ Sends
           \/ \E c \in Calls : Prepares(c)
           \/ \E c \in Calls, s \in Reported : Reports(c, s)
    PROVE  EndInv'
<1> DEFINE EndThere(c) == told[c] = "disconnected" \/ \E i \in 1 .. Len(Queue) : EndsAt(i, c)
<1>1. ASSUME Queue' = Queue, told' = told, NEW c \in Calls, EndThere(c) PROVE EndThere(c)'
  BY <1>1 DEF EndsAt, About
<1>2. ASSUME NEW item \in PendingState, Queue' = Append(Queue, item), told' = told,
             NEW c \in Calls, EndThere(c)
      PROVE  EndThere(c)'
  <2>1. CASE told[c] = "disconnected"
    BY <1>2, <2>1
  <2>2. CASE \E i \in 1 .. Len(Queue) : EndsAt(i, c)
    <3>1. PICK i \in 1 .. Len(Queue) : EndsAt(i, c)
      BY <2>2
    <3>2. EndsAt(i, c)' /\ i \in 1 .. Len(Queue')
      BY <1>2, <3>1, Appending DEF EndsAt, About
    <3>3. QED BY <3>2
  <2>3. QED BY <1>2, <2>1, <2>2
<1>3. CASE Stays
  BY <1>1, <1>2, <1>3 DEF Stays, EndInv
<1>4. ASSUME NEW c \in Calls, Prepares(c) PROVE EndInv'
  <2>1. \A d \in Calls : status'[d] = "disconnected" => status[d] = "disconnected"
    BY <1>4 DEF Prepares, TypeOK
  <2>2. QED BY <1>1, <1>4, <2>1 DEF Prepares, EndInv
<1>5. ASSUME NEW c \in Calls, NEW s \in Reported, Reports(c, s) PROVE EndInv'
  <2> DEFINE item == Report(owner[c], s, c)
  <2>1. item \in PendingState /\ item.call = c /\ item.state = s
    BY <1>5, ReportType DEF Reports, Report, Reported, CallState
  <2>2. Queue' = Append(Queue, item) /\ told' = told
    BY <1>5 DEF Reports
  <2> HIDE DEF item
  <2>3. ASSUME NEW d \in Calls, d # c, status'[d] = "disconnected" PROVE EndThere(d)'
    <3>1. EndThere(d)
      BY <1>5, <2>3, LevelChange DEF EndInv
    <3>2. QED BY <1>2, <2>1, <2>2, <3>1
  <2>4. ASSUME status'[c] = "disconnected" PROVE EndThere(c)'
    <3>1. s = "disconnected"
      BY <1>5, <2>4, LevelChange
    <3>2. /\ Len(Queue') = Len(Queue) + 1 /\ Queue'[Len(Queue) + 1] = item
      BY <2>1, <2>2, Appending
    <3>3. Len(Queue') \in 1 .. Len(Queue')
      BY <3>2, QueueTypes
    <3>4. \E i \in 1 .. Len(Queue') : EndsAt(i, c)'
      BY <2>1, <3>1, <3>2, <3>3 DEF EndsAt, About
    <3>5. QED BY <3>4
  <2>5. QED BY <2>3, <2>4 DEF EndInv
<1>6. CASE Sends
  <2>1. Len(Queue') = Len(Queue) - 1 /\ Len(Queue) \in Nat \ {0}
    BY <1>6, Sending
  <2>2. ASSUME NEW c \in Calls, status'[c] = "disconnected" PROVE EndThere(c)'
    <3>1. EndThere(c)
      BY <1>6, <2>2 DEF Sends, EndInv
    <3>2. EndBefore(c, Len(Queue) + 1)
      BY <2>1, <3>1 DEF EndBefore
    <3>3. ASSUME NEW k \in Nat \ {0}, k = Len(Queue) PROVE EndBefore(c, k)'
      BY <1>6, <3>2, <3>3, BeforeSending
    <3>4. ASSUME NEW k \in Nat \ {0}, k = Len(Queue) PROVE EndThere(c)'
      <4>1. k - 1 = Len(Queue')
        BY <2>1, <3>4
      <4>2. QED BY <3>3, <3>4, <4>1 DEF EndBefore
    <3>5. QED BY <2>1, <3>4
  <2>3. QED BY <2>2 DEF EndInv
<1>7. QED BY <1>3, <1>4, <1>5, <1>6

\* Calls of one user are told of one after the other.
LEMMA TurnKept ==
    ASSUME TypeOK, TableInv, RankInv, EndInv, TurnInv,
           \/ Stays \/ Sends
           \/ \E c \in Calls : Prepares(c)
           \/ \E c \in Calls, s \in Reported : Reports(c, s)
    PROVE  TurnInv'
<1> SUFFICES ASSUME Serving', NEW c \in Calls, NEW d \in Calls, NEW j \in 1 .. Len(Queue'),
                    c # d, owner'[c] = owner'[d], About(j, d)', HeardBefore(c, j)'
             PROVE  EndBefore(c, j)'
  BY DEF TurnInv
<1>1. Serving
  BY DEF Stays, Sends, Prepares, Reports
<1>2. ASSUME NEW item \in PendingState, Queue' = Append(Queue, item), told' = told,
             owner' = owner, j \in 1 .. Len(Queue)
      PROVE  EndBefore(c, j)'
  <2>1. j \in 1 .. Len(Queue) + 1
    BY <1>2, QueueTypes
  <2>2. About(j, d) /\ HeardBefore(c, j)
    BY <1>2, <2>1, Appending, BeforeAppending
  <2>3. EndBefore(c, j)
    BY <1>1, <1>2, <2>2 DEF TurnInv
  <2>4. QED BY <1>2, <2>1, <2>3, BeforeAppending
<1>3. ASSUME Queue' = Queue, told' = told, owner[c] = owner[d] PROVE EndBefore(c, j)'
  <2>1. About(j, d) /\ HeardBefore(c, j)
    BY <1>3 DEF About, HeardBefore
  <2>2. EndBefore(c, j)
    BY <1>1, <1>3, <2>1 DEF TurnInv
  <2>3. QED BY <1>3, <2>2 DEF EndBefore, EndsAt, About
<1>4. CASE Stays
  <2>1. ASSUME NEW item \in PendingState, item.call = NoCall, Queue' = Append(Queue, item)
        PROVE  j \in 1 .. Len(Queue)
    <3>1. Len(Queue') = Len(Queue) + 1 /\ Queue'[Len(Queue) + 1] = item /\ Len(Queue) \in Nat
      BY <2>1, Appending, QueueTypes
    <3>2. j # Len(Queue) + 1
      BY <2>1, <3>1 DEF About
    <3>3. QED BY <3>1, <3>2
  <2>2. QED BY <1>2, <1>3, <1>4, <2>1 DEF Stays
<1>5. ASSUME NEW b \in Calls, Prepares(b) PROVE EndBefore(c, j)'
  <2>1. Queue' = Queue /\ told' = told
    BY <1>5 DEF Prepares
  <2>2. told[b] = "none" /\ (\A i \in 1 .. Len(Queue) : ~About(i, b))
    BY <1>5, LevelChange, Unheard
  <2>3. d # b
    BY <2>1, <2>2 DEF About
  <2>4. c # b
    <3>1. \A i \in 1 .. j - 1 : i \in 1 .. Len(Queue)
      BY <2>1, QueueTypes
    <3>2. \A i : About(i, b)' <=> About(i, b)
      BY <2>1 DEF About
    <3>3. ~HeardBefore(b, j)'
      BY <2>1, <2>2, <3>1, <3>2 DEF HeardBefore
    <3>4. QED BY <3>3
  <2>5. owner[c] = owner[d]
    BY <1>5, <2>3, <2>4 DEF Prepares, TypeOK
  <2>6. QED BY <1>3, <2>1, <2>5
<1>6. ASSUME NEW b \in Calls, NEW s \in Reported, Reports(b, s) PROVE EndBefore(c, j)'
  <2> DEFINE item == Report(owner[b], s, b)
  <2>1. item \in PendingState /\ item.call = b
    BY <1>6, ReportType DEF Reports, Report, Reported, CallState
  <2>2. Queue' = Append(Queue, item) /\ told' = told /\ owner' = owner
    BY <1>6 DEF Reports
  <2> HIDE DEF item
  <2>3. /\ Len(Queue') = Len(Queue) + 1 /\ Queue'[Len(Queue) + 1] = item
        /\ Len(Queue) \in Nat
    BY <2>1, <2>2, Appending, QueueTypes
  <2>4. CASE j = Len(Queue) + 1
    <3>1. d = b
      BY <2>1, <2>3, <2>4 DEF About
    <3>2. HeardBefore(c, j)
      BY <2>1, <2>2, <2>3, <2>4, BeforeAppending
    <3>3. \A i \in 1 .. j - 1 : i \in 1 .. Len(Queue)
      BY <2>3, <2>4
    <3>4. status[c] \in Reported
      BY <3>2, <3>3, Unheard, LevelTypes DEF HeardBefore
    <3>5. status[c] \notin CallState
      <4>1. status[d] \in CallState \cup {"starting"}
        BY <1>6, <3>1 DEF Reports
      <4>2. calls[owner[d]] = d
        BY <1>1, <4>1 DEF TableInv
      <4>3. status[c] \in CallState => calls[owner[c]] = c
        BY <1>1 DEF TableInv
      <4>4. QED BY <2>2, <4>2, <4>3
    <3>6. told[c] = "disconnected" \/ \E i \in 1 .. Len(Queue) : EndsAt(i, c)
      BY <3>4, <3>5 DEF Reported, EndInv
    <3>7. j - 1 = Len(Queue) /\ j \in 1 .. Len(Queue) + 1
      BY <2>3, <2>4
    <3>8. EndBefore(c, j)
      BY <3>6, <3>7 DEF EndBefore
    <3>9. QED BY <2>1, <2>2, <3>7, <3>8, BeforeAppending
  <2>5. CASE j # Len(Queue) + 1
    <3>1. j \in 1 .. Len(Queue)
      BY <2>3, <2>5
    <3>2. QED BY <1>2, <2>1, <2>2, <3>1
  <2>6. QED BY <2>4, <2>5
<1>7. CASE Sends
  <2>1. /\ Len(Queue') = Len(Queue) - 1 /\ Len(Queue) \in Nat
        /\ j \in Nat \ {0} /\ j <= Len(Queue) /\ j + 1 \in 1 .. Len(Queue)
    BY <1>7, Sending
  <2>2. About(j + 1, d)
    BY <1>7, Sending
  <2>3. HeardBefore(c, j + 1)
    BY <1>7, <2>1, BeforeSending
  <2>4. owner[c] = owner[d]
    BY <1>7 DEF Sends
  <2>5. EndBefore(c, j + 1)
    BY <1>1, <2>1, <2>2, <2>3, <2>4 DEF TurnInv
  <2>6. QED BY <1>7, <2>1, <2>5, BeforeSending
<1>8. QED BY <1>4, <1>5, <1>6, <1>7

\* The client is told of a call's start when it has been told of the end of
\* every earlier call of the user.
LEMMA ViewKept ==
    ASSUME TypeOK, RankInv, TurnInv, OneCallInClientView,
           \/ Stays \/ Sends
           \/ \E c \in Calls : Prepares(c)
           \/ \E c \in Calls, s \in Reported : Reports(c, s)
    PROVE  OneCallInClientView'
<1> SUFFICES ASSUME NEW c \in Calls, NEW d \in Calls, c # d, owner'[c] = owner'[d],
                    told'[c] # "none", told'[d] # "none"
             PROVE  "disconnected" \in {told'[c], told'[d]}
  BY DEF OneCallInClientView
<1>1. CASE UNCHANGED <<told, owner>>
  BY <1>1 DEF OneCallInClientView
<1>2. ASSUME NEW b \in Calls, Prepares(b) PROVE "disconnected" \in {told'[c], told'[d]}
  <2>1. told' = told /\ told[b] = "none"
    BY <1>2, LevelChange, Unheard DEF Prepares
  <2>2. owner[c] = owner[d]
    BY <1>2, <2>1 DEF Prepares, TypeOK
  <2>3. QED BY <2>1, <2>2 DEF OneCallInClientView
<1>3. CASE Sends
  <2>1. owner[c] = owner[d] /\ Serving /\ 1 \in 1 .. Len(Queue)
    BY <1>3, Sending DEF Sends
  <2>2. ASSUME NEW x \in Calls, NEW y \in Calls, x # y, owner[x] = owner[y],
               About(1, y), told[x] # "none"
        PROVE  told[x] = "disconnected"
    <3>1. HeardBefore(x, 1)
      BY <2>2 DEF HeardBefore
    <3>2. EndBefore(x, 1)
      BY <2>1, <2>2, <3>1 DEF TurnInv
    <3>3. QED BY <3>2 DEF EndBefore
  <2>3. ~(About(1, c) /\ About(1, d))
    BY DEF About
  <2>4. CASE About(1, c)
    BY <1>3, <2>1, <2>2, <2>3, <2>4, Sending
  <2>5. CASE About(1, d)
    BY <1>3, <2>1, <2>2, <2>3, <2>5, Sending
  <2>6. CASE ~About(1, c) /\ ~About(1, d)
    BY <1>3, <2>1, <2>6, Sending DEF OneCallInClientView
  <2>7. QED BY <2>4, <2>5, <2>6
<1>4. QED BY <1>1, <1>2, <1>3 DEF Stays, Reports

-----------------------------------------------------------------------------
(* Theorems *)

\* The order of reports is an invariant of the engine.
THEOREM OrderInvariance == Spec => [](OrderInv /\ OneCallInClientView)
<1>1. Init => OrderInv /\ OneCallInClientView
  <2> SUFFICES ASSUME Init PROVE OrderInv /\ OneCallInClientView
    OBVIOUS
  <2>1. Queue = << >> /\ Len(Queue) = 0
    BY DEF Init, Queue
  <2>2. BatchInv /\ EndInv /\ TurnInv /\ OneCallInClientView
    BY <2>1 DEF Init, BatchInv, EndInv, TurnInv, OneCallInClientView
  <2>3. RankInv
    BY <2>1, Ranks DEF Init, RankInv, Level, CallState
  <2>4. QED BY <2>2, <2>3 DEF OrderInv
<1>2. IInv /\ IInv' /\ OrderInv /\ OneCallInClientView /\ [Next]_vars
      => OrderInv' /\ OneCallInClientView'
  <2> SUFFICES ASSUME IInv, IInv', OrderInv, OneCallInClientView, [Next]_vars
               PROVE  OrderInv' /\ OneCallInClientView'
    OBVIOUS
  <2>1. /\ TypeOK /\ CommandInv /\ AlertInv /\ TableInv /\ TypeOK'
        /\ BatchInv /\ RankInv /\ EndInv /\ TurnInv
    BY DEF IInv, TableIInv, OrderInv
  <2>2. \/ Stays \/ Sends
        \/ \E c \in Calls : Prepares(c)
        \/ \E c \in Calls, s \in Reported : Reports(c, s)
    BY <2>1, ReportKinds
  <2>3. BatchInv' /\ RankInv' /\ EndInv'
    BY <2>1, <2>2, BatchKept, RankKept, EndKept
  <2>4. TurnInv' /\ OneCallInClientView'
    BY <2>1, <2>2, TurnKept, ViewKept
  <2>5. QED BY <2>3, <2>4 DEF OrderInv
<1>3. QED BY Invariance, <1>1, <1>2, PTL DEF Spec

\* The client never sees two live calls of one account: for any number of
\* accounts and calls, the report of a call's end overtakes nothing and is
\* overtaken by nothing of the next call.
THEOREM OneCallIsSeen == Spec => []OneCallInClientView
<1>1. QED BY OrderInvariance, PTL

\* What the client is told of a call only moves forward, whichever threads
\* report it.
THEOREM ReportsMoveForward == Spec => ReportsInOrder
<1>1. IInv /\ OrderInv /\ [Next]_vars => [\A c \in Calls : Rank[told[c]] <= Rank[told'[c]]]_told
  <2> SUFFICES ASSUME IInv, OrderInv, [Next]_vars, told' # told, NEW c \in Calls
               PROVE  Rank[told[c]] <= Rank[told'[c]]
    OBVIOUS
  <2>1. /\ TypeOK /\ CommandInv /\ AlertInv /\ TableInv /\ BatchInv /\ RankInv
    BY DEF IInv, TableIInv, OrderInv
  <2>2. Sends
    BY <2>1, ReportKinds DEF Stays, Prepares, Reports
  <2>3. CASE About(1, c)
    BY <2>1, <2>2, <2>3, Sending DEF RankInv
  <2>4. CASE ~About(1, c)
    <3>1. told'[c] = told[c] /\ told[c] \in Reported \cup {"none"}
      BY <2>1, <2>2, <2>4, Sending DEF TypeOK, Reported
    <3>2. QED BY <3>1, RankTypes
  <2>5. QED BY <2>3, <2>4
<1>2. QED BY Invariance, OrderInvariance, <1>1, PTL DEF Spec, ReportsInOrder

\* The end of a call that was not told yet still waits to be sent.
THEOREM EndsAreNotDropped == Spec => []EndIsOnItsWay
<1>1. IInv /\ OrderInv => EndIsOnItsWay
  <2> SUFFICES ASSUME IInv, OrderInv, NEW c \in Calls, Ended(c), told[c] # "disconnected"
               PROVE  \E i \in DOMAIN Queue :
                          Queue[i].call = c /\ Queue[i].state = "disconnected"
    BY DEF EndIsOnItsWay, Queue
  <2>1. PICK i \in 1 .. Len(Queue) : EndsAt(i, c)
    BY DEF OrderInv, EndInv, Ended
  <2>2. i \in DOMAIN Queue
    BY QueueTypes DEF IInv, TableIInv
  <2>3. QED BY <2>1, <2>2 DEF EndsAt, About
<1>2. QED BY Invariance, OrderInvariance, <1>1, PTL

=============================================================================
