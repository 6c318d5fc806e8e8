--------------------------- MODULE SIPCoreProofs ---------------------------
(***************************************************************************)
(* Theorems about SIPCore for all users, calls and bounds.                 *)
(***************************************************************************)
EXTENDS SIPCore, TLAPS

Elem(u, q) == \E i \in 1..Len(q) : q[i] = u
NoDup(q) == \A i, j \in 1..Len(q) : q[i] = q[j] => i = j

-----------------------------------------------------------------------------
(* Queues: what a push at the back and a pop at the front do to membership. *)

\* An emptied queue has no element.
LEMMA EmptyQueue == (\A x : ~Elem(x, << >>)) /\ NoDup(<< >>)
  BY DEF Elem, NoDup

\* A push adds its element and nothing else.
LEMMA PushElem ==
    ASSUME NEW S, NEW q \in Seq(S), NEW y \in S, NEW x
    PROVE  Elem(x, Append(q, y)) <=> Elem(x, q) \/ x = y
<1>1. ASSUME Elem(x, Append(q, y)) PROVE Elem(x, q) \/ x = y
  <2>1. PICK i \in 1..Len(Append(q, y)) : Append(q, y)[i] = x
    BY <1>1 DEF Elem
  <2>2. CASE i = Len(q) + 1
    BY <2>1, <2>2
  <2>3. CASE i \in 1..Len(q)
    BY <2>1, <2>3 DEF Elem
  <2>4. QED BY <2>2, <2>3
<1>2. ASSUME Elem(x, q) PROVE Elem(x, Append(q, y))
  <2>1. PICK i \in 1..Len(q) : q[i] = x
    BY <1>2 DEF Elem
  <2>2. i \in 1..Len(Append(q, y)) /\ Append(q, y)[i] = x
    BY <2>1
  <2>3. QED BY <2>2 DEF Elem
<1>3. Elem(y, Append(q, y))
  <2>1. Len(q) + 1 \in 1..Len(Append(q, y)) /\ Append(q, y)[Len(q) + 1] = y
    OBVIOUS
  <2>2. QED BY <2>1 DEF Elem
<1>4. QED BY <1>1, <1>2, <1>3

\* The elements of a queue are its front and the elements of the rest.
LEMMA PopElem ==
    ASSUME NEW S, NEW q \in Seq(S), q # << >>, NEW x
    PROVE  Elem(x, q) <=> x = Head(q) \/ Elem(x, Tail(q))
<1>1. ASSUME Elem(x, q) PROVE x = Head(q) \/ Elem(x, Tail(q))
  <2>1. PICK i \in 1..Len(q) : q[i] = x
    BY <1>1 DEF Elem
  <2>2. CASE i = 1
    BY <2>1, <2>2
  <2>3. CASE i # 1
    <3>1. i - 1 \in 1..Len(Tail(q)) /\ Tail(q)[i - 1] = x
      BY <2>1, <2>3
    <3>2. QED BY <3>1 DEF Elem
  <2>4. QED BY <2>2, <2>3
<1>2. ASSUME Elem(x, Tail(q)) PROVE Elem(x, q)
  <2>1. PICK i \in 1..Len(Tail(q)) : Tail(q)[i] = x
    BY <1>2 DEF Elem
  <2>2. i + 1 \in 1..Len(q) /\ q[i + 1] = x
    BY <2>1
  <2>3. QED BY <2>2 DEF Elem
<1>3. Elem(Head(q), q)
  <2>1. 1 \in 1..Len(q) /\ q[1] = Head(q)
    OBVIOUS
  <2>2. QED BY <2>1 DEF Elem
<1>4. QED BY <1>1, <1>2, <1>3

\* Pushing something new keeps a queue free of duplicates.
LEMMA PushNoDup ==
    ASSUME NEW S, NEW q \in Seq(S), NEW y \in S, NoDup(q), ~Elem(y, q)
    PROVE  NoDup(Append(q, y))
  BY DEF NoDup, Elem

\* Popping takes away the only occurrence of the front.
LEMMA PopNoDup ==
    ASSUME NEW S, NEW q \in Seq(S), q # << >>, NoDup(q)
    PROVE  NoDup(Tail(q)) /\ ~Elem(Head(q), Tail(q))
<1>1. ASSUME NEW i \in 1..Len(Tail(q)) PROVE i + 1 \in 1..Len(q) /\ Tail(q)[i] = q[i + 1]
  OBVIOUS
<1>2. NoDup(Tail(q))
  <2>1. ASSUME NEW i \in 1..Len(Tail(q)), NEW j \in 1..Len(Tail(q)), Tail(q)[i] = Tail(q)[j]
        PROVE  i = j
    <3>1. i + 1 = j + 1
      BY <1>1, <2>1 DEF NoDup
    <3>2. QED BY <3>1
  <2>2. QED BY <2>1 DEF NoDup
<1>3. ~Elem(Head(q), Tail(q))
  <2>1. ASSUME NEW i \in 1..Len(Tail(q)), Tail(q)[i] = Head(q) PROVE FALSE
    <3>1. q[i + 1] = q[1] /\ 1 \in 1..Len(q)
      BY <1>1, <2>1
    <3>2. i + 1 = 1
      BY <1>1, <3>1 DEF NoDup
    <3>3. QED BY <3>2
  <2>2. QED BY <2>1 DEF Elem
<1>4. QED BY <1>2, <1>3

-----------------------------------------------------------------------------
(* The inductive invariant *)

\* The table of calls has not been cleared by destroy().
Serving == pc \notin {"cleared", "destroyed"}

\* A command being worked on is at the front of its batch.
CommandInv ==
    /\ pc \in {"shutdown", "makecall", "calling"} => localCommands # << >>
    /\ \A c \in Calls : status[c] = "starting" =>
            /\ pc \in {"makecall", "calling"}
            /\ owner[c] = Head(localCommands).username
    /\ localRemove # << >> => pc = "erase"

\* A call inside onIncomingCall is stored and has not been reported.
AlertInv == \A c \in alerting : status[c] = "incoming"

\* Who is in the table, and that a live call always is.
TableInv ==
    /\ \A c \in Calls : status[c] \in CallState \cup {"starting", "disconnected"}
            => owner[c] \in Users
    /\ \A c \in Calls : status[c] = "null" => owner[c] = NoUser
    /\ \A u \in Users : calls[u] # NoCall =>
            /\ owner[calls[u]] = u
            /\ status[calls[u]] \in CallState \cup {"starting", "disconnected"}
    /\ \A c \in Calls :
            Serving /\ status[c] \in CallState \cup {"starting"} => calls[owner[c]] = c

\* The call whose last callback holds pendingMutex.
Holder == IF pendingMutex \in Calls THEN pendingMutex ELSE NoCall

\* A call between the two pushes of its last callback is in the table.
HolderInv ==
    Holder # NoCall =>
        /\ status[Holder] = "disconnected"
        /\ Serving => calls[owner[Holder]] = Holder
        /\ Serving => ~Elem(owner[Holder], pendingCallRemove)
        /\ Serving => ~Elem(owner[Holder], localRemove)

EndedInTable(u) == calls[u] # NoCall /\ status[calls[u]] = "disconnected"

\* Every queued removal is for an ended call in the table, and is the only
\* one for its user.
RemovalInv ==
    Serving =>
        /\ NoDup(pendingCallRemove)
        /\ NoDup(localRemove)
        /\ \A u \in Users :
            /\ Elem(u, pendingCallRemove) => EndedInTable(u)
            /\ Elem(u, localRemove) => EndedInTable(u)
            /\ ~(Elem(u, pendingCallRemove) /\ Elem(u, localRemove))

\* Every ended call in the table has its removal on the way.
PromiseInv ==
    Serving =>
        \A c \in Calls : status[c] = "disconnected" /\ calls[owner[c]] = c =>
            \/ Holder = c
            \/ Elem(owner[c], pendingCallRemove)
            \/ Elem(owner[c], localRemove)

\* A report of an end is the report of a call that has ended.
IsEnd(item) == item.call # NoCall /\ item.state = "disconnected"

ReportInv ==
    /\ \A item \in PendingState : IsEnd(item) =>
        /\ Elem(item, pendingStates) => status[item.call] = "disconnected"
        /\ Elem(item, localStates) => /\ status[item.call] = "disconnected"
                                      /\ Holder # item.call
    /\ \A c \in Calls : told[c] = "disconnected" => status[c] = "disconnected"

\* A call whose end was sent leaves the table in the same iteration.
ToldInv ==
    Serving =>
        \A c \in Calls : told[c] = "disconnected" /\ calls[owner[c]] = c =>
            \/ pc = "send" /\ Elem(owner[c], pendingCallRemove)
            \/ pc = "erase" /\ Elem(owner[c], localRemove)

TableIInv == TypeOK /\ CommandInv /\ AlertInv /\ TableInv /\ HolderInv /\ RemovalInv
IInv == TableIInv /\ PromiseInv /\ ReportInv /\ ToldInv

-----------------------------------------------------------------------------
(* Types *)

USE NoneAssumption
USE DEF mainVars, commandVars, removeVars, tableVars, libVars, clientVars, Holder

\* Both reports of an account and reports of a stored call are well typed.
LEMMA ReportType ==
    ASSUME NEW u \in Users, NEW c \in Calls \cup {NoCall},
           NEW s \in CallState \cup {"disconnected", "account", "streaming"},
           s \in {"account", "streaming"} => c = NoCall
    PROVE  Report(u, s, c) \in PendingState
  BY DEF Report, PendingState, CallState

\* A push keeps the type of the queue.
LEMMA PushType ==
    ASSUME TypeOK, NEW item \in PendingState, Push(item)
    PROVE  pendingStates' \in Seq(PendingState)
  BY DEF TypeOK, Push

\* Every step of the engine, its client and its library keeps the types.
LEMMA TypeStep ==
    ASSUME TypeOK, CommandInv, AlertInv, TableInv, HolderInv, [Next]_vars
    PROVE  TypeOK'
<1>1. ASSUME NEW cmd \in Commands, HandleTcpMessage(cmd) PROVE TypeOK'
  BY <1>1 DEF TypeOK, HandleTcpMessage
<1>2. CASE TakeCommands
  BY <1>2 DEF TypeOK, TakeCommands
<1>3. ASSUME NEW u \in Users, RegisterAccount(u) PROVE TypeOK'
  BY <1>3 DEF TypeOK, RegisterAccount, Running, Finish
<1>4. ASSUME NEW u \in Users, DisconnectAccount(u) PROVE TypeOK'
  BY <1>4 DEF TypeOK, DisconnectAccount, Running, Hangup
<1>5. CASE ShutdownAccount
  <2> DEFINE u == Head(localCommands).username
  <2>1. localCommands # << >> /\ u \in Users
    BY <1>5 DEF TypeOK, CommandInv, ShutdownAccount, Commands
  <2>2. pendingStates' \in Seq(PendingState)
    BY <1>5, <2>1, ReportType, PushType DEF ShutdownAccount
  <2>3. QED BY <1>5, <2>1, <2>2 DEF TypeOK, ShutdownAccount, Finish
<1>6. ASSUME NEW u \in Users, MakeCallEmpty(u) PROVE TypeOK'
  <2>1. pendingStates' \in Seq(PendingState)
    BY <1>6, ReportType, PushType DEF MakeCallEmpty
  <2>2. QED BY <1>6, <2>1 DEF TypeOK, MakeCallEmpty, Running, Finish
<1>7. ASSUME NEW u \in Users, NEW c \in Calls, MakeCall(u, c) PROVE TypeOK'
  BY <1>7 DEF TypeOK, MakeCall, Store, Status
<1>8. ASSUME NEW c \in Calls, StartCall(c) PROVE TypeOK'
  <2>1. localCommands # << >> /\ owner[c] \in Users
    BY <1>8 DEF TypeOK, CommandInv, TableInv, StartCall
  <2>2. pendingStates' \in Seq(PendingState)
    BY <1>8, <2>1, ReportType, PushType DEF StartCall, CallState
  <2>3. QED BY <1>8, <2>1, <2>2 DEF TypeOK, StartCall, Finish, Status, CallState
<1>9. ASSUME NEW c \in Calls, StartCallFails(c) PROVE TypeOK'
  <2>1. localCommands # << >>
    BY <1>9 DEF CommandInv, StartCallFails
  <2>2. calls' \in [Users -> Calls \cup {NoCall}]
    BY <1>9 DEF TypeOK, StartCallFails, RemoveCall
  <2>3. status' \in [Calls -> Status]
    BY <1>9 DEF TypeOK, StartCallFails, Status
  <2>4. QED BY <1>9, <2>1, <2>2, <2>3 DEF TypeOK, StartCallFails, Finish
<1>10. ASSUME NEW u \in Users, MakeCallTooMany(u) PROVE TypeOK'
  BY <1>10 DEF TypeOK, MakeCallTooMany, Running, Finish
<1>11. ASSUME NEW u \in Users, AnswerCall(u) PROVE TypeOK'
  BY <1>11 DEF TypeOK, AnswerCall, Running, Finish
<1>12. ASSUME NEW u \in Users, HangupCall(u) PROVE TypeOK'
  BY <1>12 DEF TypeOK, HangupCall, Hangup, Running, Finish
<1>13. ASSUME NEW u \in Users, Ignore(u) PROVE TypeOK'
  BY <1>13 DEF TypeOK, Ignore, Running, Finish
<1>14. ASSUME NEW u \in Users, DestroyCommand(u) PROVE TypeOK'
  <2>1. initialized' \in BOOLEAN
    BY <1>14 DEF DestroyCommand
  <2>2. localCommands' \in Seq(Commands)
    BY <1>14 DEF TypeOK, DestroyCommand, Running, Finish
  <2>3. QED BY <1>14, <2>1, <2>2 DEF TypeOK, DestroyCommand, Finish
<1>15. CASE TakeStates
  BY <1>15 DEF TypeOK, TakeStates, SwapStates
<1>16. CASE SendState
  <2>1. Head(localStates) \in PendingState
    BY <1>16 DEF TypeOK, SendState
  <2>2. told' \in [Calls -> CallState \cup {"none", "disconnected"}]
    BY <1>16, <2>1 DEF TypeOK, SendState, PendingState
  <2>3. toldDown' \subseteq Users /\ localStates' \in Seq(PendingState)
    BY <1>16, <2>1 DEF TypeOK, SendState, PendingState
  <2>4. QED BY <1>16, <2>2, <2>3 DEF TypeOK, SendState
<1>17. CASE TakeRemoves
  BY <1>17 DEF TypeOK, TakeRemoves
<1>18. CASE EraseCall
  BY <1>18 DEF TypeOK, EraseCall
<1>19. CASE LoopAgain \/ HangupAllCalls \/ ClearCalls \/ LibDestroy
  BY <1>19 DEF TypeOK, LoopAgain, HangupAllCalls, ClearCalls, LibDestroy
<1>20. ASSUME NEW u \in Users, OnRegState(u) PROVE TypeOK'
  <2>1. pendingStates' \in Seq(PendingState)
    BY <1>20, ReportType, PushType DEF OnRegState
  <2>2. QED BY <1>20, <2>1 DEF TypeOK, OnRegState
<1>21. ASSUME NEW u \in Users, NEW c \in Calls, OnIncomingCall(u, c) PROVE TypeOK'
  BY <1>21 DEF TypeOK, OnIncomingCall, Store, Status, CallState
<1>22. ASSUME NEW u \in Users, NEW c \in Calls, RejectIncomingCall(u, c) PROVE TypeOK'
  BY <1>22 DEF TypeOK, RejectIncomingCall, Status
<1>23. ASSUME NEW c \in Calls, Alert(c) PROVE TypeOK'
  <2>1. pendingStates' \in Seq(PendingState)
    BY <1>23, ReportType, PushType DEF Alert, TypeOK, AlertInv, TableInv, CallState
  <2>2. QED BY <1>23, <2>1 DEF TypeOK, Alert, Status, CallState
<1>24. ASSUME NEW c \in Calls, NEW s \in {"ringing", "connecting", "confirmed"},
              OnCallState(c, s)
       PROVE  TypeOK'
  <2>1. owner[c] \in Users
    BY <1>24 DEF OnCallState, InDialog, TableInv
  <2>2. pendingStates' \in Seq(PendingState)
    BY <1>24, <2>1, ReportType, PushType DEF OnCallState, CallState
  <2>3. QED BY <1>24, <2>2 DEF TypeOK, OnCallState, Status, CallState
<1>25. ASSUME NEW c \in Calls, OnCallMediaState(c) PROVE TypeOK'
  <2>1. owner[c] \in Users /\ status[c] \in CallState
    BY <1>25 DEF OnCallMediaState, InDialog, TableInv
  <2>2. pendingStates' \in Seq(PendingState)
    BY <1>25, <2>1, ReportType, PushType DEF OnCallMediaState, CallState
  <2>3. QED BY <1>25, <2>2 DEF TypeOK, OnCallMediaState
<1>26. ASSUME NEW c \in Calls, OnDisconnected(c) PROVE TypeOK'
  <2>1. owner[c] \in Users
    BY <1>26 DEF OnDisconnected, InDialog, TableInv
  <2>2. pendingStates' \in Seq(PendingState)
    BY <1>26, <2>1, ReportType, PushType DEF OnDisconnected
  <2>3. QED BY <1>26, <2>2 DEF TypeOK, OnDisconnected, Status
<1>27. ASSUME NEW c \in Calls, PushRemove(c) PROVE TypeOK'
  <2>1. owner[c] \in Users
    BY <1>27 DEF PushRemove, HolderInv, TableInv
  <2>2. QED BY <1>27, <2>1 DEF TypeOK, PushRemove, Removal
<1>28. CASE UNCHANGED vars
  BY <1>28 DEF TypeOK, vars
<1>29. ASSUME NEW c \in Calls, SendInvite(c) \/ OnEof(c) PROVE TypeOK'
  BY <1>29 DEF TypeOK, SendInvite, OnEof
<1>30. ASSUME NEW c \in Calls, Streamed(c) PROVE TypeOK'
  <2>1. owner[c] \in Users
    BY <1>30 DEF Streamed, TableInv, CallState
  <2>2. Report(owner[c], "streaming", NoCall) \in PendingState
    BY <2>1, ReportType
  <2>3. pendingStates' \in Seq(PendingState)
    BY <1>30, <2>2 DEF Streamed, TypeOK
  <2>4. QED BY <1>30, <2>3 DEF TypeOK, Streamed
<1>31. QED
  BY <1>1, <1>2, <1>3, <1>4, <1>5, <1>6, <1>7, <1>8, <1>9, <1>10, <1>11,
     <1>12, <1>13, <1>14, <1>15, <1>16, <1>17, <1>18, <1>19, <1>20, <1>21,
     <1>22, <1>23, <1>24, <1>25, <1>26, <1>27, <1>28, <1>29, <1>30
     DEF Next, MainLoop, MainWork, Dispatch, Callbacks, Terminated

-----------------------------------------------------------------------------
(* The main thread's own state *)

\* A command stays at the front until it is done; nothing is being erased
\* outside processPendingCallRemove.
LEMMA CommandStep ==
    ASSUME TypeOK, CommandInv, TableInv, [Next]_vars
    PROVE  CommandInv'
<1>1. ASSUME UNCHANGED <<pc, localCommands, status, owner, localRemove>>
      PROVE  CommandInv'
  BY <1>1 DEF CommandInv
<1>2. CASE TakeCommands
  BY <1>2 DEF CommandInv, TakeCommands
<1>3. ASSUME NEW u \in Users,
             \/ RegisterAccount(u) \/ MakeCallEmpty(u) \/ MakeCallTooMany(u)
             \/ AnswerCall(u) \/ HangupCall(u) \/ Ignore(u) \/ DestroyCommand(u)
      PROVE  CommandInv'
  <2>1. pc = "dispatch" /\ UNCHANGED <<pc, status, owner, localRemove>>
    BY <1>3 DEF RegisterAccount, MakeCallEmpty, MakeCallTooMany, AnswerCall,
                HangupCall, Ignore, DestroyCommand, Running
  <2>2. QED BY <2>1 DEF CommandInv
<1>4. ASSUME NEW u \in Users, DisconnectAccount(u) PROVE CommandInv'
  BY <1>4 DEF CommandInv, DisconnectAccount, Running
<1>5. CASE ShutdownAccount
  BY <1>5 DEF CommandInv, ShutdownAccount
<1>6. ASSUME NEW u \in Users, NEW c \in Calls, MakeCall(u, c) PROVE CommandInv'
  BY <1>6 DEF CommandInv, MakeCall, Running, Store, TypeOK
<1>7. ASSUME NEW c \in Calls, StartCall(c) \/ StartCallFails(c) PROVE CommandInv'
  <2>1. \A d \in Calls : status[d] = "starting" => d = c
    BY <1>7 DEF CommandInv, StartCall, StartCallFails, TableInv, Serving
  <2>2. QED BY <1>7, <2>1 DEF CommandInv, StartCall, StartCallFails, TypeOK
<1>8. CASE TakeStates \/ TakeRemoves \/ EraseCall \/ LoopAgain
  BY <1>8 DEF CommandInv, TakeStates, TakeRemoves, EraseCall, LoopAgain
<1>9. CASE HangupAllCalls \/ ClearCalls \/ LibDestroy
  BY <1>9 DEF CommandInv, HangupAllCalls, ClearCalls, LibDestroy
<1>10. ASSUME NEW u \in Users, NEW c \in Calls,
              OnIncomingCall(u, c) \/ RejectIncomingCall(u, c)
       PROVE  CommandInv'
  BY <1>10 DEF CommandInv, OnIncomingCall, RejectIncomingCall, Store, TypeOK
<1>11. ASSUME NEW c \in Calls, Alert(c) \/ OnDisconnected(c) PROVE CommandInv'
  BY <1>11 DEF CommandInv, Alert, OnDisconnected, TypeOK
<1>12. ASSUME NEW c \in Calls, NEW s \in {"ringing", "connecting", "confirmed"},
              OnCallState(c, s)
       PROVE  CommandInv'
  BY <1>12 DEF CommandInv, OnCallState, TypeOK
<1>13. ASSUME NEW cmd \in Commands, HandleTcpMessage(cmd) PROVE CommandInv'
  BY <1>13, <1>1 DEF HandleTcpMessage
<1>14. CASE SendState \/ UNCHANGED vars
  BY <1>14, <1>1 DEF SendState, vars
<1>15. ASSUME NEW u \in Users, OnRegState(u) PROVE CommandInv'
  BY <1>15, <1>1 DEF OnRegState
<1>16. ASSUME NEW c \in Calls,
              OnCallMediaState(c) \/ PushRemove(c) \/ OnEof(c) \/ Streamed(c)
       PROVE  CommandInv'
  BY <1>16, <1>1 DEF OnCallMediaState, PushRemove, OnEof, Streamed
<1>17. ASSUME NEW c \in Calls, SendInvite(c) PROVE CommandInv'
  BY <1>17 DEF CommandInv, SendInvite
<1>18. QED
  BY <1>2, <1>3, <1>4, <1>5, <1>6, <1>7, <1>8, <1>9, <1>10, <1>11, <1>12,
     <1>13, <1>14, <1>15, <1>16, <1>17
     DEF Next, MainLoop, MainWork, Dispatch, Callbacks, Terminated

-----------------------------------------------------------------------------
(* The table of calls.  As far as it is concerned, a step is one of these. *)

Rest == <<Holder, pendingCallRemove, localRemove>>

\* The step leaves the table, its calls and the removals alone.
Quiet == (Serving' => Serving) /\ UNCHANGED <<calls, owner, status, Rest>>

\* A live call moves on to another live state.
Advance(c) ==
    /\ status[c] \in CallState \cup {"starting"}
    /\ \E s \in CallState : status' = [status EXCEPT ![c] = s]
    /\ Serving' = Serving
    /\ UNCHANGED <<calls, owner, Rest>>

\* A new call takes the place of its user.
Enter(u, c) ==
    /\ status[c] = "null" /\ calls[u] = NoCall
    /\ calls' = [calls EXCEPT ![u] = c]
    /\ owner' = [owner EXCEPT ![c] = u]
    /\ \E s \in {"starting", "incoming"} : status' = [status EXCEPT ![c] = s]
    /\ Serving' = Serving
    /\ UNCHANGED Rest

\* Every step is of one of these kinds, or one of the actions that are named.
LEMMA StepKinds ==
    ASSUME TypeOK, CommandInv, AlertInv, [Next]_vars
    PROVE  \/ Quiet
           \/ \E c \in Calls : Advance(c)
           \/ \E u \in Users, c \in Calls : Enter(u, c) /\ pc # "destroyed"
           \/ \E c \in Calls : StartCallFails(c)
           \/ TakeRemoves \/ EraseCall \/ ClearCalls
           \/ \E u \in Users, c \in Calls : RejectIncomingCall(u, c)
           \/ \E c \in Calls : OnDisconnected(c)
           \/ \E c \in Calls : PushRemove(c)
<1> USE DEF Rest
<1>1. ASSUME NEW cmd \in Commands, HandleTcpMessage(cmd) PROVE Quiet
  BY <1>1 DEF Quiet, HandleTcpMessage, Serving
<1>2. ASSUME TakeCommands \/ TakeStates \/ SendState \/ LoopAgain PROVE Quiet
  BY <1>2 DEF Quiet, TakeCommands, TakeStates, SendState, LoopAgain, Serving
<1>3. ASSUME NEW u \in Users,
             \/ RegisterAccount(u) \/ MakeCallEmpty(u) \/ MakeCallTooMany(u)
             \/ AnswerCall(u) \/ HangupCall(u) \/ Ignore(u) \/ DestroyCommand(u)
      PROVE  Quiet
  BY <1>3 DEF Quiet, RegisterAccount, MakeCallEmpty, MakeCallTooMany, AnswerCall,
              HangupCall, Ignore, DestroyCommand, Serving
<1>4. ASSUME NEW u \in Users, DisconnectAccount(u) PROVE Quiet
  BY <1>4 DEF Quiet, DisconnectAccount, Running, Serving
<1>5. ASSUME ShutdownAccount PROVE Quiet
  BY <1>5 DEF Quiet, ShutdownAccount, Serving
<1>6. ASSUME NEW u \in Users, NEW c \in Calls, MakeCall(u, c)
      PROVE  Enter(u, c) /\ pc # "destroyed"
  BY <1>6 DEF Enter, MakeCall, Running, Free, Store, Serving
<1>7. ASSUME NEW c \in Calls, StartCall(c) PROVE Advance(c)
  BY <1>7 DEF Advance, StartCall, CallState, Serving
<1>8. ASSUME HangupAllCalls \/ LibDestroy PROVE Quiet
  BY <1>8 DEF Quiet, HangupAllCalls, LibDestroy, Serving
<1>9. ASSUME NEW u \in Users, OnRegState(u) PROVE Quiet
  BY <1>9 DEF Quiet, OnRegState, Serving
<1>10. ASSUME NEW u \in Users, NEW c \in Calls, OnIncomingCall(u, c)
       PROVE  Enter(u, c) /\ pc # "destroyed"
  BY <1>10 DEF Enter, OnIncomingCall, LibraryRuns, Free, Store, Serving
<1>11. ASSUME NEW c \in Calls, Alert(c) PROVE Quiet \/ Advance(c)
  BY <1>11 DEF Quiet, Advance, Alert, AlertInv, CallState, Serving
<1>12. ASSUME NEW c \in Calls, NEW s \in {"ringing", "connecting", "confirmed"},
              OnCallState(c, s)
       PROVE  Advance(c)
  BY <1>12 DEF Advance, OnCallState, InDialog, CallState, Serving
<1>13. ASSUME NEW c \in Calls, OnCallMediaState(c) PROVE Quiet
  BY <1>13 DEF Quiet, OnCallMediaState, Serving
<1>14. ASSUME UNCHANGED vars PROVE Quiet
  BY <1>14 DEF Quiet, vars, Serving
<1>15. ASSUME NEW c \in Calls, SendInvite(c) \/ OnEof(c) \/ Streamed(c) PROVE Quiet
  BY <1>15 DEF Quiet, SendInvite, OnEof, Streamed, Serving
<1>16. QED
  BY <1>1, <1>2, <1>3, <1>4, <1>5, <1>6, <1>7, <1>8, <1>9, <1>10, <1>11,
     <1>12, <1>13, <1>14, <1>15
     DEF Next, MainLoop, MainWork, Dispatch, Callbacks, Terminated

\* onIncomingCall's calls stay unreported until it answers.
LEMMA AlertStep ==
    ASSUME TypeOK, CommandInv, AlertInv, [Next]_vars
    PROVE  AlertInv'
<1>1. ASSUME NEW u \in Users, NEW c \in Calls, OnIncomingCall(u, c) PROVE AlertInv'
  BY <1>1 DEF AlertInv, OnIncomingCall, TypeOK
<1>2. ASSUME NEW c \in Calls, Alert(c) PROVE AlertInv'
  BY <1>2 DEF AlertInv, Alert, TypeOK
<1>3. ASSUME NEW u \in Users, NEW c \in Calls,
             MakeCall(u, c) \/ RejectIncomingCall(u, c)
      PROVE  AlertInv'
  BY <1>3 DEF AlertInv, MakeCall, RejectIncomingCall, TypeOK
<1>4. ASSUME NEW c \in Calls, StartCall(c) \/ StartCallFails(c) PROVE AlertInv'
  BY <1>4 DEF AlertInv, StartCall, StartCallFails, TypeOK
<1>5. ASSUME NEW c \in Calls, NEW s \in {"ringing", "connecting", "confirmed"},
             OnCallState(c, s) \/ OnDisconnected(c)
      PROVE  AlertInv'
  BY <1>5 DEF AlertInv, OnCallState, OnDisconnected, TypeOK
<1>6. ASSUME UNCHANGED <<status, alerting>> PROVE AlertInv'
  BY <1>6 DEF AlertInv
<1>7. ASSUME NEW u \in Users,
             \/ RegisterAccount(u) \/ DisconnectAccount(u) \/ MakeCallEmpty(u)
             \/ MakeCallTooMany(u) \/ AnswerCall(u) \/ HangupCall(u) \/ Ignore(u)
             \/ DestroyCommand(u) \/ OnRegState(u)
      PROVE  UNCHANGED <<status, alerting>>
  BY <1>7 DEF RegisterAccount, DisconnectAccount, MakeCallEmpty, MakeCallTooMany,
              AnswerCall, HangupCall, Ignore, DestroyCommand, OnRegState
<1>8. ASSUME \/ TakeCommands \/ ShutdownAccount \/ TakeStates \/ SendState
             \/ TakeRemoves \/ EraseCall \/ LoopAgain \/ HangupAllCalls
             \/ ClearCalls \/ LibDestroy \/ UNCHANGED vars
      PROVE  UNCHANGED <<status, alerting>>
  BY <1>8 DEF TakeCommands, ShutdownAccount, TakeStates, SendState, TakeRemoves,
              EraseCall, LoopAgain, HangupAllCalls, ClearCalls, LibDestroy, vars
<1>9. ASSUME NEW c \in Calls,
             \/ OnCallMediaState(c) \/ PushRemove(c)
             \/ SendInvite(c) \/ OnEof(c) \/ Streamed(c)
      PROVE  UNCHANGED <<status, alerting>>
  BY <1>9 DEF OnCallMediaState, PushRemove, SendInvite, OnEof, Streamed
<1>10. ASSUME NEW cmd \in Commands, HandleTcpMessage(cmd)
       PROVE  UNCHANGED <<status, alerting>>
  BY <1>10 DEF HandleTcpMessage
<1>11. QED
  BY <1>1, <1>2, <1>3, <1>4, <1>5, <1>6, <1>7, <1>8, <1>9, <1>10
     DEF Next, MainLoop, MainWork, Dispatch, Callbacks, Terminated

\* A live call is in the table under its owner's name, and only there.
LEMMA TableStep ==
    ASSUME TypeOK, CommandInv, AlertInv, TableInv, HolderInv, RemovalInv, [Next]_vars
    PROVE  TableInv'
<1> USE DEF TableInv
<1>1. ASSUME Quiet PROVE TableInv'
  BY <1>1 DEF Quiet
<1>2. ASSUME NEW c \in Calls, Advance(c) PROVE TableInv'
  BY <1>2 DEF Advance, TypeOK, CallState
<1>3. ASSUME NEW u \in Users, NEW c \in Calls, Enter(u, c) PROVE TableInv'
  BY <1>3 DEF Enter, TypeOK, CallState
<1>4. ASSUME NEW c \in Calls, StartCallFails(c) PROVE TableInv'
  <2>1. owner[c] = Head(localCommands).username /\ owner[c] \in Users
    BY <1>4 DEF StartCallFails, CommandInv
  <2>2. calls' = [calls EXCEPT ![owner[c]] = NoCall]
    BY <1>4, <2>1 DEF StartCallFails, RemoveCall, Serving, TypeOK
  <2>3. QED BY <1>4, <2>1, <2>2 DEF StartCallFails, Serving, TypeOK, CallState
<1>5. ASSUME TakeRemoves PROVE TableInv'
  BY <1>5 DEF TakeRemoves, Serving
<1>6. ASSUME EraseCall PROVE TableInv'
  <2> DEFINE u == Head(localRemove)
  <2>1. u \in Users /\ EndedInTable(u)
    BY <1>6, PopElem DEF EraseCall, RemovalInv, TypeOK, Serving
  <2>2. QED BY <1>6, <2>1 DEF EraseCall, EndedInTable, Serving, TypeOK, CallState
<1>7. ASSUME ClearCalls PROVE TableInv'
  BY <1>7 DEF ClearCalls, Serving
<1>8. ASSUME NEW u \in Users, NEW c \in Calls, RejectIncomingCall(u, c) PROVE TableInv'
  BY <1>8 DEF RejectIncomingCall, TypeOK, CallState, Serving
<1>9. ASSUME NEW c \in Calls, OnDisconnected(c) PROVE TableInv'
  BY <1>9 DEF OnDisconnected, InDialog, TypeOK, CallState, Serving
<1>10. ASSUME NEW c \in Calls, PushRemove(c) PROVE TableInv'
  BY <1>10 DEF PushRemove, Serving
<1>11. QED
  BY StepKinds, <1>1, <1>2, <1>3, <1>4, <1>5, <1>6, <1>7, <1>8, <1>9, <1>10

\* While a call's last callback runs, the table keeps the call and no
\* removal for its user is queued.
LEMMA HolderStep ==
    ASSUME TableIInv, [Next]_vars
    PROVE  HolderInv'
<1> USE DEF TableIInv, HolderInv
<1>1. ASSUME Quiet PROVE HolderInv'
  BY <1>1 DEF Quiet, Rest
<1>2. ASSUME NEW c \in Calls, Advance(c) PROVE HolderInv'
  BY <1>2 DEF Advance, Rest, TypeOK, CallState
<1>3. ASSUME NEW u \in Users, NEW c \in Calls, Enter(u, c) PROVE HolderInv'
  <2>1. Holder # NoCall => Holder # c
    BY <1>3 DEF Enter
  <2>2. Holder # NoCall /\ Serving => owner[Holder] # u
    BY <1>3 DEF Enter, TypeOK
  <2>3. QED BY <1>3, <2>1, <2>2 DEF Enter, Rest, TypeOK
<1>4. ASSUME NEW c \in Calls, StartCallFails(c) PROVE HolderInv'
  <2>1. Holder # c
    BY <1>4 DEF StartCallFails, TypeOK
  <2>2. QED BY <1>4, <2>1 DEF StartCallFails, RemoveCall, TableInv, Serving, TypeOK, CallState
<1>5. ASSUME TakeRemoves PROVE HolderInv'
  BY <1>5, EmptyQueue DEF TakeRemoves, Serving
<1>6. ASSUME EraseCall PROVE HolderInv'
  <2>1. localRemove \in Seq(Users) /\ localRemove # << >>
    BY <1>6 DEF EraseCall, TypeOK
  <2>2. \A u : Elem(u, localRemove) <=> u = Head(localRemove) \/ Elem(u, Tail(localRemove))
    BY <2>1, PopElem
  <2>3. QED BY <1>6, <2>2 DEF EraseCall, Serving, TypeOK, TableInv
<1>7. ASSUME ClearCalls PROVE HolderInv'
  BY <1>7 DEF ClearCalls, Serving
<1>8. ASSUME NEW u \in Users, NEW c \in Calls, RejectIncomingCall(u, c) PROVE HolderInv'
  BY <1>8 DEF RejectIncomingCall, TypeOK, Serving
<1>9. ASSUME NEW c \in Calls, OnDisconnected(c) PROVE HolderInv'
  <2>1. status[c] \in CallState /\ owner[c] \in Users /\ (Serving => calls[owner[c]] = c)
    BY <1>9 DEF OnDisconnected, InDialog, TableInv
  <2>2. Serving => ~EndedInTable(owner[c])
    BY <2>1 DEF EndedInTable, CallState
  <2>3. Serving => /\ ~Elem(owner[c], pendingCallRemove)
                   /\ ~Elem(owner[c], localRemove)
    BY <2>1, <2>2 DEF RemovalInv
  <2>4. QED BY <1>9, <2>1, <2>3 DEF OnDisconnected, Serving, TypeOK
<1>10. ASSUME NEW c \in Calls, PushRemove(c) PROVE HolderInv'
  BY <1>10 DEF PushRemove
<1>11. QED
  BY StepKinds, <1>1, <1>2, <1>3, <1>4, <1>5, <1>6, <1>7, <1>8, <1>9, <1>10

\* Removals stay unique, and each finds an ended call in the table.
LEMMA RemovalStep ==
    ASSUME TableIInv, [Next]_vars
    PROVE  RemovalInv'
<1> USE DEF TableIInv, RemovalInv
<1>1. ASSUME Quiet PROVE RemovalInv'
  BY <1>1 DEF Quiet, Rest, EndedInTable
<1>2. ASSUME NEW c \in Calls, Advance(c) PROVE RemovalInv'
  <2>1. \A u \in Users : EndedInTable(u) => EndedInTable(u)'
    BY <1>2 DEF Advance, EndedInTable, TypeOK, CallState
  <2>2. QED BY <1>2, <2>1 DEF Advance, Rest
<1>3. ASSUME NEW u \in Users, NEW c \in Calls, Enter(u, c) PROVE RemovalInv'
  <2>1. \A v \in Users : EndedInTable(v) => EndedInTable(v)'
    BY <1>3 DEF Enter, EndedInTable, TypeOK, TableInv
  <2>2. QED BY <1>3, <2>1 DEF Enter, Rest
<1>4. ASSUME NEW c \in Calls, StartCallFails(c) PROVE RemovalInv'
  <2>1. \A v \in Users : EndedInTable(v) => EndedInTable(v)'
    BY <1>4 DEF StartCallFails, RemoveCall, EndedInTable, TypeOK
  <2>2. QED BY <1>4, <2>1 DEF StartCallFails, Serving
<1>5. ASSUME TakeRemoves PROVE RemovalInv'
  BY <1>5, EmptyQueue DEF TakeRemoves, Serving, EndedInTable
<1>6. ASSUME EraseCall PROVE RemovalInv'
  <2> DEFINE u == Head(localRemove)
  <2>1. localRemove \in Seq(Users) /\ localRemove # << >> /\ Serving
    BY <1>6 DEF EraseCall, TypeOK, Serving
  <2>2. NoDup(Tail(localRemove)) /\ ~Elem(u, Tail(localRemove))
    BY <2>1, PopNoDup
  <2>3. \A v : Elem(v, localRemove) <=> v = u \/ Elem(v, Tail(localRemove))
    BY <2>1, PopElem
  <2>4. u \in Users /\ ~Elem(u, pendingCallRemove)
    BY <2>1, <2>3
  <2>5. \A v \in Users : v # u /\ EndedInTable(v) => EndedInTable(v)'
    BY <1>6, <2>4 DEF EraseCall, EndedInTable, TypeOK
  <2>6. QED BY <1>6, <2>1, <2>2, <2>3, <2>4, <2>5 DEF EraseCall
<1>7. ASSUME ClearCalls PROVE RemovalInv'
  BY <1>7 DEF ClearCalls, Serving
<1>8. ASSUME NEW u \in Users, NEW c \in Calls, RejectIncomingCall(u, c) PROVE RemovalInv'
  <2>1. \A v \in Users : EndedInTable(v) => EndedInTable(v)'
    BY <1>8 DEF RejectIncomingCall, EndedInTable, TypeOK
  <2>2. QED BY <1>8, <2>1 DEF RejectIncomingCall, Serving
<1>9. ASSUME NEW c \in Calls, OnDisconnected(c) PROVE RemovalInv'
  <2>1. \A v \in Users : EndedInTable(v) => EndedInTable(v)'
    BY <1>9 DEF OnDisconnected, EndedInTable, TypeOK
  <2>2. QED BY <1>9, <2>1 DEF OnDisconnected, Serving
<1>10. ASSUME NEW c \in Calls, PushRemove(c) PROVE RemovalInv'
  <2>1. CASE ~Serving
    BY <1>10, <2>1 DEF PushRemove, Serving
  <2>2. CASE Serving
    <3>1. /\ status[c] = "disconnected" /\ owner[c] \in Users
          /\ calls[owner[c]] = c
          /\ ~Elem(owner[c], pendingCallRemove) /\ ~Elem(owner[c], localRemove)
      BY <1>10, <2>2 DEF PushRemove, HolderInv, TableInv
    <3>2. EndedInTable(owner[c])
      BY <3>1 DEF EndedInTable
    <3>3. pendingCallRemove \in Seq(Users) /\ pendingCallRemove' = Append(pendingCallRemove, owner[c])
      BY <1>10 DEF PushRemove, Removal, TypeOK
    <3>4. \A u : Elem(u, pendingCallRemove') <=> Elem(u, pendingCallRemove) \/ u = owner[c]
      BY <3>1, <3>3, PushElem
    <3>5. NoDup(pendingCallRemove')
      BY <3>1, <3>3, <2>2, PushNoDup
    <3>6. \A u \in Users : EndedInTable(u)' = EndedInTable(u)
      BY <1>10 DEF PushRemove, EndedInTable
    <3>7. localRemove' = localRemove
      BY <1>10 DEF PushRemove
    <3>8. QED BY <2>2, <3>1, <3>2, <3>4, <3>5, <3>6, <3>7
  <2>3. QED BY <2>1, <2>2
<1>11. QED
  BY StepKinds, <1>1, <1>2, <1>3, <1>4, <1>5, <1>6, <1>7, <1>8, <1>9, <1>10

-----------------------------------------------------------------------------
(* Reports.  As far as the queue of states is concerned, a step is one of   *)
(* these.                                                                    *)

\* The step pushes a report that is not the end of a call.
PushesOther ==
    /\ \E item \in PendingState :
        ~IsEnd(item) /\ pendingStates' = Append(pendingStates, item)
    /\ UNCHANGED localStates

\* Ended calls stay ended; the mutex changes hands in two actions only; what
\* the client was sent changes in SendState, and pc moves on from the last
\* two phases of the loop in two actions only.
LEMMA StepEffects ==
    ASSUME TypeOK, CommandInv, AlertInv, TableInv, [Next]_vars
    PROVE  /\ \A c \in Calls : status[c] = "disconnected" => status'[c] = "disconnected"
           /\ Holder' \in {Holder, NoCall} \/ \E c \in Calls : OnDisconnected(c)
           /\ told' = told \/ SendState
           /\ pc' = pc \/ pc \notin {"send", "erase"} \/ TakeRemoves \/ LoopAgain
           /\ \/ UNCHANGED <<pendingStates, localStates>>
              \/ PushesOther
              \/ TakeStates \/ SendState
              \/ \E c \in Calls : OnDisconnected(c)
<1> DEFINE Effects(end) ==
        /\ \A c \in Calls : status[c] = "disconnected" => status'[c] = "disconnected"
        /\ Holder' \in {Holder, NoCall} \/ end
        /\ told' = told \/ SendState
        /\ pc' = pc \/ pc \notin {"send", "erase"} \/ TakeRemoves \/ LoopAgain
        /\ \/ UNCHANGED <<pendingStates, localStates>>
           \/ PushesOther
           \/ TakeStates \/ SendState
           \/ end
<1>1. ASSUME NEW cmd \in Commands, HandleTcpMessage(cmd) PROVE Effects(FALSE)
  BY <1>1 DEF HandleTcpMessage
<1>2. ASSUME TakeCommands \/ TakeStates \/ SendState \/ TakeRemoves \/ EraseCall
             \/ LoopAgain \/ HangupAllCalls \/ ClearCalls \/ LibDestroy \/ UNCHANGED vars
      PROVE  Effects(FALSE)
  BY <1>2 DEF TakeCommands, TakeStates, SendState, TakeRemoves, EraseCall, LoopAgain,
              HangupAllCalls, ClearCalls, LibDestroy, vars
<1>3. ASSUME NEW u \in Users,
             \/ RegisterAccount(u) \/ DisconnectAccount(u) \/ MakeCallTooMany(u)
             \/ AnswerCall(u) \/ HangupCall(u) \/ Ignore(u) \/ DestroyCommand(u)
      PROVE  Effects(FALSE)
  BY <1>3 DEF RegisterAccount, DisconnectAccount, MakeCallTooMany, AnswerCall,
              HangupCall, Ignore, DestroyCommand, Running
<1>4. ASSUME NEW u \in Users, MakeCallEmpty(u) PROVE Effects(FALSE)
  <2>1. PushesOther
    BY <1>4, ReportType DEF MakeCallEmpty, Push, PushesOther, IsEnd, Report
  <2>2. QED BY <1>4, <2>1 DEF MakeCallEmpty
<1>5. ASSUME ShutdownAccount PROVE Effects(FALSE)
  <2>1. Head(localCommands).username \in Users
    BY <1>5 DEF TypeOK, CommandInv, ShutdownAccount, Commands
  <2>2. PushesOther
    BY <1>5, <2>1, ReportType DEF ShutdownAccount, Push, PushesOther, IsEnd, Report
  <2>3. QED BY <1>5, <2>2 DEF ShutdownAccount
<1>6. ASSUME NEW u \in Users, NEW c \in Calls,
             MakeCall(u, c) \/ OnIncomingCall(u, c) \/ RejectIncomingCall(u, c)
      PROVE  Effects(FALSE)
  BY <1>6 DEF MakeCall, OnIncomingCall, RejectIncomingCall, Running, TypeOK
<1>7. ASSUME NEW c \in Calls, StartCall(c) PROVE Effects(FALSE)
  <2>1. owner[c] \in Users
    BY <1>7 DEF StartCall, TableInv
  <2>2. PushesOther
    BY <1>7, <2>1, ReportType DEF StartCall, Push, PushesOther, IsEnd, Report, CallState
  <2>3. QED BY <1>7, <2>2 DEF StartCall, TypeOK
<1>8. ASSUME NEW c \in Calls, StartCallFails(c) PROVE Effects(FALSE)
  BY <1>8 DEF StartCallFails, TypeOK
<1>9. ASSUME NEW u \in Users, OnRegState(u) PROVE Effects(FALSE)
  <2>1. PushesOther
    BY <1>9, ReportType DEF OnRegState, Push, PushesOther, IsEnd, Report
  <2>2. QED BY <1>9, <2>1 DEF OnRegState
<1>10. ASSUME NEW c \in Calls, Alert(c) PROVE Effects(FALSE)
  <2>1. owner[c] \in Users /\ status[c] = "incoming"
    BY <1>10 DEF Alert, AlertInv, TableInv, CallState
  <2>2. UNCHANGED <<pendingStates, localStates>> \/ PushesOther
    BY <1>10, <2>1, ReportType DEF Alert, Push, PushesOther, IsEnd, Report, CallState
  <2>3. QED BY <1>10, <2>1, <2>2 DEF Alert, TypeOK
<1>11. ASSUME NEW c \in Calls, NEW s \in {"ringing", "connecting", "confirmed"},
              OnCallState(c, s)
       PROVE  Effects(FALSE)
  <2>1. owner[c] \in Users
    BY <1>11 DEF OnCallState, InDialog, TableInv
  <2>2. PushesOther
    BY <1>11, <2>1, ReportType DEF OnCallState, Push, PushesOther, IsEnd, Report, CallState
  <2>3. QED BY <1>11, <2>2 DEF OnCallState, InDialog, CallState, TypeOK
<1>12. ASSUME NEW c \in Calls, OnCallMediaState(c) PROVE Effects(FALSE)
  <2>1. owner[c] \in Users /\ status[c] \in CallState
    BY <1>12 DEF OnCallMediaState, InDialog, TableInv
  <2>2. PushesOther
    BY <1>12, <2>1, ReportType
       DEF OnCallMediaState, Push, PushesOther, IsEnd, Report, CallState
  <2>3. QED BY <1>12, <2>2 DEF OnCallMediaState
<1>13. ASSUME NEW c \in Calls, OnDisconnected(c) PROVE Effects(TRUE)
  BY <1>13 DEF OnDisconnected, TypeOK
<1>14. ASSUME NEW c \in Calls, PushRemove(c) \/ SendInvite(c) \/ OnEof(c)
       PROVE  Effects(FALSE)
  BY <1>14 DEF PushRemove, SendInvite, OnEof
<1>15. ASSUME NEW c \in Calls, Streamed(c) PROVE Effects(FALSE)
  <2>1. owner[c] \in Users
    BY <1>15 DEF Streamed, TableInv, CallState
  <2>2. PushesOther
    BY <1>15, <2>1, ReportType DEF Streamed, PushesOther, IsEnd, Report
  <2>3. QED BY <1>15, <2>2 DEF Streamed
<1>16. QED
  BY <1>1, <1>2, <1>3, <1>4, <1>5, <1>6, <1>7, <1>8, <1>9, <1>10, <1>11,
     <1>12, <1>13, <1>14, <1>15
     DEF Next, MainLoop, MainWork, Dispatch, Callbacks, Terminated

\* Reports of an end, waiting or sent, are about ended calls; one that is
\* about to be sent has had its removal queued.
LEMMA ReportStep ==
    ASSUME TableIInv, ReportInv, [Next]_vars
    PROVE  ReportInv'
<1> USE DEF TableIInv, ReportInv
<1> DEFINE Stable == \A c \in Calls : status[c] = "disconnected" => status'[c] = "disconnected"
<1>1. Stable
  BY StepEffects
<1>2. ASSUME NEW item \in PendingState, IsEnd(item) PROVE item.call \in Calls /\ IsEnd(item)'
  BY <1>2 DEF IsEnd, PendingState
<1>3. ASSUME UNCHANGED <<pendingStates, localStates, told>>, Holder' \in {Holder, NoCall}
      PROVE  ReportInv'
  BY <1>1, <1>2, <1>3 DEF IsEnd
<1>4. ASSUME PushesOther, told' = told, Holder' \in {Holder, NoCall}
      PROVE  ReportInv'
  <2>1. PICK other \in PendingState :
           ~IsEnd(other) /\ pendingStates' = Append(pendingStates, other)
    BY <1>4 DEF PushesOther
  <2>2. \A x : Elem(x, pendingStates') <=> Elem(x, pendingStates) \/ x = other
    BY <2>1, PushElem DEF TypeOK
  <2>3. localStates' = localStates
    BY <1>4 DEF PushesOther
  <2>4. QED BY <1>1, <1>2, <1>4, <2>1, <2>2, <2>3 DEF IsEnd
<1>5. ASSUME TakeStates PROVE ReportInv'
  <2>1. /\ localStates' = pendingStates /\ pendingStates' = << >>
        /\ Holder' = NoCall /\ told' = told /\ status' = status
    BY <1>5 DEF TakeStates, SwapStates
  <2>2. QED BY <1>2, <2>1, EmptyQueue DEF IsEnd
<1>6. ASSUME SendState PROVE ReportInv'
  <2> DEFINE item == Head(localStates)
  <2>1. localStates \in Seq(PendingState) /\ localStates # << >> /\ item \in PendingState
    BY <1>6 DEF SendState, TypeOK
  <2>2. \A x : Elem(x, localStates) <=> x = item \/ Elem(x, Tail(localStates))
    BY <2>1, PopElem
  <2>3. UNCHANGED <<pendingStates, Holder, status>> /\ localStates' = Tail(localStates)
    BY <1>6 DEF SendState
  <2>4. ASSUME NEW c \in Calls, told'[c] = "disconnected" PROVE status[c] = "disconnected"
    <3>1. CASE told[c] = "disconnected"
      BY <3>1
    <3>2. CASE told[c] # "disconnected"
      <4>1. IsEnd(item) /\ item.call = c
        BY <1>6, <2>4, <3>2 DEF SendState, IsEnd, TypeOK
      <4>2. QED BY <2>1, <2>2, <4>1
    <3>3. QED BY <3>1, <3>2
  <2>5. QED BY <1>2, <2>2, <2>3, <2>4 DEF IsEnd
<1>7. ASSUME NEW c \in Calls, OnDisconnected(c) PROVE ReportInv'
  <2> DEFINE end == Report(owner[c], "disconnected", c)
  <2>1. owner[c] \in Users /\ status[c] \in CallState
    BY <1>7 DEF OnDisconnected, InDialog, TableInv
  <2>2. end \in PendingState /\ end.call = c
    BY <2>1, ReportType DEF Report
  <2>3. \A x : Elem(x, pendingStates') <=> Elem(x, pendingStates) \/ x = end
    BY <1>7, <2>2, PushElem DEF OnDisconnected, Push, TypeOK
  <2>4. /\ status'[c] = "disconnected" /\ Holder' = c
        /\ told' = told /\ localStates' = localStates
    BY <1>7 DEF OnDisconnected, TypeOK
  <2>5. \A x \in PendingState : IsEnd(x) /\ Elem(x, localStates) => x.call # c
    BY <2>1 DEF CallState
  <2>6. QED BY <1>1, <1>2, <2>2, <2>3, <2>4, <2>5 DEF IsEnd
<1>8. QED BY StepEffects, <1>3, <1>4, <1>5, <1>6, <1>7

\* An ended call still in the table has its removal on the way.
LEMMA PromiseStep ==
    ASSUME TableIInv, PromiseInv, [Next]_vars
    PROVE  PromiseInv'
<1> USE DEF TableIInv, PromiseInv
<1>1. ASSUME Quiet PROVE PromiseInv'
  BY <1>1 DEF Quiet, Rest
<1>2. ASSUME NEW c \in Calls, Advance(c) PROVE PromiseInv'
  BY <1>2 DEF Advance, Rest, TypeOK, CallState
<1>3. ASSUME NEW u \in Users, NEW c \in Calls, Enter(u, c) PROVE PromiseInv'
  BY <1>3 DEF Enter, Rest, TypeOK
<1>4. ASSUME NEW c \in Calls, StartCallFails(c) PROVE PromiseInv'
  BY <1>4 DEF StartCallFails, RemoveCall, Serving, TypeOK
<1>5. ASSUME TakeRemoves PROVE PromiseInv'
  <2>1. \A x : ~Elem(x, localRemove)
    BY <1>5, EmptyQueue DEF TakeRemoves, CommandInv
  <2>2. QED BY <1>5, <2>1 DEF TakeRemoves, Serving
<1>6. ASSUME EraseCall PROVE PromiseInv'
  <2> DEFINE u == Head(localRemove)
  <2>1. localRemove \in Seq(Users) /\ localRemove # << >>
    BY <1>6 DEF EraseCall, TypeOK
  <2>2. \A v : Elem(v, localRemove) <=> v = u \/ Elem(v, Tail(localRemove))
    BY <2>1, PopElem
  <2>3. u \in Users
    BY <2>1
  <2>4. QED BY <1>6, <2>2, <2>3 DEF EraseCall, Serving, TypeOK, TableInv, CallState
<1>7. ASSUME ClearCalls PROVE PromiseInv'
  BY <1>7 DEF ClearCalls, Serving
<1>8. ASSUME NEW u \in Users, NEW c \in Calls, RejectIncomingCall(u, c) PROVE PromiseInv'
  BY <1>8 DEF RejectIncomingCall, TypeOK, Serving
<1>9. ASSUME NEW c \in Calls, OnDisconnected(c) PROVE PromiseInv'
  BY <1>9 DEF OnDisconnected, Push, TypeOK, Serving
<1>10. ASSUME NEW c \in Calls, PushRemove(c) PROVE PromiseInv'
  <2>1. Holder = c /\ owner[c] \in Users
    BY <1>10 DEF PushRemove, HolderInv, TableInv
  <2>2. \A x : Elem(x, pendingCallRemove') <=> Elem(x, pendingCallRemove) \/ x = owner[c]
    BY <1>10, <2>1, PushElem DEF PushRemove, Removal, TypeOK
  <2>3. QED BY <1>10, <2>1, <2>2 DEF PushRemove, Serving
<1>11. QED
  BY StepKinds, <1>1, <1>2, <1>3, <1>4, <1>5, <1>6, <1>7, <1>8, <1>9, <1>10

\* A call whose end has been sent leaves the table in that same iteration:
\* its removal is among those taken right after the states.
LEMMA ToldStep ==
    ASSUME TableIInv, PromiseInv, ReportInv, ToldInv, [Next]_vars
    PROVE  ToldInv'
<1> USE DEF TableIInv, ToldInv
<1> DEFINE SamePlace == pc' = pc \/ pc \notin {"send", "erase"}
<1>1. ASSUME Quiet, told' = told, SamePlace PROVE ToldInv'
  BY <1>1 DEF Quiet, Rest
<1>2. ASSUME SendState PROVE ToldInv'
  <2> DEFINE item == Head(localStates)
  <2>1. item \in PendingState /\ Elem(item, localStates)
    BY <1>2, PopElem DEF SendState, TypeOK
  <2>2. /\ pc = "send" /\ pc' = "send"
        /\ UNCHANGED <<status, calls, owner, Holder, pendingCallRemove, localRemove>>
    BY <1>2 DEF SendState
  <2>3. \A x : ~Elem(x, localRemove)
    BY <2>2, EmptyQueue DEF CommandInv
  <2>4. ASSUME NEW c \in Calls, told'[c] = "disconnected", calls[owner[c]] = c
        PROVE  Elem(owner[c], pendingCallRemove)
    <3>1. CASE told[c] = "disconnected"
      BY <2>2, <2>4, <3>1 DEF Serving
    <3>2. CASE told[c] # "disconnected"
      <4>1. IsEnd(item) /\ item.call = c
        BY <1>2, <2>4, <3>2 DEF SendState, IsEnd, TypeOK
      <4>2. status[c] = "disconnected" /\ Holder # c
        BY <2>1, <4>1 DEF ReportInv
      <4>3. QED BY <2>2, <2>3, <2>4, <4>2 DEF PromiseInv, Serving
    <3>3. QED BY <3>1, <3>2
  <2>5. QED BY <2>2, <2>4 DEF Serving
<1>3. ASSUME NEW c \in Calls, Advance(c), told' = told, SamePlace PROVE ToldInv'
  BY <1>3 DEF Advance, Rest
<1>4. ASSUME NEW u \in Users, NEW c \in Calls, Enter(u, c), told' = told, SamePlace
      PROVE  ToldInv'
  <2>1. told[c] # "disconnected"
    BY <1>4 DEF Enter, ReportInv
  <2>2. QED BY <1>4, <2>1 DEF Enter, Rest, TypeOK
<1>5. ASSUME NEW c \in Calls, StartCallFails(c), told' = told PROVE ToldInv'
  BY <1>5 DEF StartCallFails, RemoveCall, Serving, TypeOK
<1>6. ASSUME TakeRemoves, told' = told PROVE ToldInv'
  BY <1>6 DEF TakeRemoves, Serving
<1>7. ASSUME EraseCall, told' = told PROVE ToldInv'
  <2> DEFINE u == Head(localRemove)
  <2>1. localRemove \in Seq(Users) /\ localRemove # << >> /\ u \in Users
    BY <1>7 DEF EraseCall, TypeOK
  <2>2. \A v : Elem(v, localRemove) <=> v = u \/ Elem(v, Tail(localRemove))
    BY <2>1, PopElem
  <2>3. QED BY <1>7, <2>1, <2>2 DEF EraseCall, Serving, TypeOK
<1>8. ASSUME LoopAgain, told' = told PROVE ToldInv'
  <2>1. \A x : ~Elem(x, localRemove)
    BY <1>8, EmptyQueue DEF LoopAgain
  <2>2. QED BY <1>8, <2>1 DEF LoopAgain, Serving
<1>9. ASSUME ClearCalls PROVE ToldInv'
  BY <1>9 DEF ClearCalls, Serving
<1>10. ASSUME NEW u \in Users, NEW c \in Calls, RejectIncomingCall(u, c), told' = told
       PROVE  ToldInv'
  BY <1>10 DEF RejectIncomingCall, Serving
<1>11. ASSUME NEW c \in Calls, OnDisconnected(c), told' = told PROVE ToldInv'
  BY <1>11 DEF OnDisconnected, Serving
<1>12. ASSUME NEW c \in Calls, PushRemove(c), told' = told PROVE ToldInv'
  <2>1. owner[c] \in Users
    BY <1>12 DEF PushRemove, HolderInv, TableInv
  <2>2. \A x : Elem(x, pendingCallRemove') <=> Elem(x, pendingCallRemove) \/ x = owner[c]
    BY <1>12, <2>1, PushElem DEF PushRemove, Removal, TypeOK
  <2>3. QED BY <1>12, <2>2 DEF PushRemove, Serving
<1>13. told' = told \/ SendState
  BY StepEffects
<1>14. SamePlace \/ TakeRemoves \/ LoopAgain
  BY StepEffects
<1>15. QED
  BY StepKinds, <1>1, <1>2, <1>3, <1>4, <1>5, <1>6, <1>7, <1>8, <1>9, <1>10,
     <1>11, <1>12, <1>13, <1>14

-----------------------------------------------------------------------------
(* Theorems *)

\* The invariant holds when init() has returned.
LEMMA InitInv == Init => IInv
<1> SUFFICES ASSUME Init PROVE IInv
  OBVIOUS
<1> USE DEF Init
<1>1. TypeOK
  BY DEF TypeOK, CallState, Status
<1>2. CommandInv /\ AlertInv
  BY DEF CommandInv, AlertInv
<1>3. TableInv
  BY DEF TableInv, CallState
<1>4. HolderInv /\ RemovalInv
  BY EmptyQueue DEF HolderInv, RemovalInv
<1>5. PromiseInv /\ ReportInv /\ ToldInv
  BY EmptyQueue DEF PromiseInv, ReportInv, ToldInv
<1>6. QED BY <1>1, <1>2, <1>3, <1>4, <1>5 DEF IInv, TableIInv

\* Every step of the engine, its client and its library keeps the invariant.
LEMMA NextInv == IInv /\ [Next]_vars => IInv'
<1> SUFFICES ASSUME IInv, [Next]_vars PROVE IInv'
  OBVIOUS
<1>1. TypeOK' /\ CommandInv' /\ AlertInv'
  BY TypeStep, CommandStep, AlertStep DEF IInv, TableIInv
<1>2. TableInv' /\ HolderInv' /\ RemovalInv'
  BY TableStep, HolderStep, RemovalStep DEF IInv, TableIInv
<1>3. PromiseInv' /\ ReportInv' /\ ToldInv'
  BY PromiseStep, ReportStep, ToldStep DEF IInv
<1>4. QED BY <1>1, <1>2, <1>3 DEF IInv, TableIInv

\* IInv is an invariant of the engine.
THEOREM Invariance == Spec => []IInv
<1>1. QED BY InitInv, NextInv, PTL DEF Spec

\* All variables keep their types, whatever the library and the client do.
THEOREM TypeCorrect == Spec => []TypeOK
<1>1. IInv => TypeOK
  BY DEF IInv, TableIInv
<1>2. QED BY Invariance, <1>1, PTL

\* processPendingCallRemove, which erases by username, only ever erases a
\* call that has ended: no live call is dropped, for any number of accounts
\* and calls.
THEOREM EraseIsSafe == Spec => []EraseFindsEndedCall
<1>1. IInv => EraseFindsEndedCall
  <2> SUFFICES ASSUME IInv, pc = "erase", localRemove # << >>
               PROVE  ~Free(Head(localRemove)) /\ Ended(calls[Head(localRemove)])
    BY DEF EraseFindsEndedCall
  <2>1. Head(localRemove) \in Users /\ Elem(Head(localRemove), localRemove)
    BY PopElem DEF IInv, TableIInv, TypeOK
  <2>2. EndedInTable(Head(localRemove))
    BY <2>1 DEF IInv, TableIInv, RemovalInv, Serving
  <2>3. QED BY <2>2 DEF EndedInTable, Free, Ended
<1>2. QED BY Invariance, <1>1, PTL

\* As long as an account is occupied by a call that has ended, exactly one
\* removal for it is on its way, and otherwise none.
THEOREM OneRemovalPerEnd == Spec => []OneRemovalEach
<1>1. IInv => OneRemovalEach
  <2> SUFFICES ASSUME IInv, Serving, NEW u \in Users
               PROVE  LET places == {i \in DOMAIN Removals : Removals[i] = u}
                      IN  IF ~Free(u) /\ Ended(calls[u])
                            THEN \E i \in DOMAIN Removals : places = {i}
                            ELSE places = {}
    BY DEF OneRemovalEach, Serving
  <2> DEFINE held == IF Holder = NoCall THEN << >> ELSE <<owner[Holder]>>
             l == Len(localRemove)
             p == Len(pendingCallRemove)
             At(i) == i \in DOMAIN Removals /\ Removals[i] = u
  <2>1. /\ localRemove \in Seq(Users) /\ pendingCallRemove \in Seq(Users)
        /\ Holder # NoCall => owner[Holder] \in Users
    BY DEF IInv, TableIInv, TypeOK, HolderInv, TableInv, CallState
  <2>2. held \in Seq(Users) /\ l \in Nat /\ p \in Nat
    BY <2>1
  <2>3. /\ DOMAIN Removals = 1 .. l + p + Len(held)
        /\ \A i \in 1 .. l : Removals[i] = localRemove[i]
        /\ \A i \in 1 .. p : Removals[l + i] = pendingCallRemove[i]
        /\ \A i \in 1 .. Len(held) : Removals[l + p + i] = held[i]
    BY <2>1, <2>2 DEF Removals
  <2>4. EndedInTable(u) <=> ~Free(u) /\ Ended(calls[u])
    BY DEF EndedInTable, Free, Ended
  <2>5. /\ Elem(u, localRemove) => ~Elem(u, pendingCallRemove) /\ EndedInTable(u)
        /\ Elem(u, pendingCallRemove) => EndedInTable(u)
        /\ NoDup(localRemove) /\ NoDup(pendingCallRemove)
    BY DEF IInv, TableIInv, RemovalInv
  <2>6. ASSUME Holder # NoCall, owner[Holder] = u
        PROVE  EndedInTable(u) /\ ~Elem(u, localRemove) /\ ~Elem(u, pendingCallRemove)
    <3>1. calls[u] = Holder /\ status[Holder] = "disconnected"
      BY <2>6 DEF IInv, TableIInv, HolderInv
    <3>2. QED BY <2>6, <3>1 DEF IInv, TableIInv, HolderInv, EndedInTable
  <2>7. ASSUME EndedInTable(u)
        PROVE  \/ Elem(u, localRemove) \/ Elem(u, pendingCallRemove)
               \/ Holder # NoCall /\ owner[Holder] = u
    <3>1. calls[u] \in Calls /\ owner[calls[u]] = u /\ status[calls[u]] = "disconnected"
      BY <2>7 DEF EndedInTable, IInv, TableIInv, TypeOK, TableInv
    <3>2. QED BY <3>1 DEF IInv, PromiseInv
  <2>8. \A i \in DOMAIN Removals : \/ i \in 1 .. l
                                   \/ \E k \in 1 .. p : i = l + k
                                   \/ i = l + p + 1 /\ Holder # NoCall
    <3>1. Len(held) = IF Holder = NoCall THEN 0 ELSE 1
      OBVIOUS
    <3>2. ASSUME NEW i \in l + 1 .. l + p PROVE \E k \in 1 .. p : i = l + k
      <4>1. i - l \in 1 .. p /\ i = l + (i - l)
        BY <2>2
      <4>2. QED BY <4>1
    <3>3. ASSUME NEW i \in DOMAIN Removals, i \notin 1 .. l, i \notin l + 1 .. l + p
          PROVE  i = l + p + 1 /\ Holder # NoCall
      <4>1. CASE Holder = NoCall
        BY <2>2, <2>3, <3>1, <3>3, <4>1
      <4>2. CASE Holder # NoCall
        <5>1. DOMAIN Removals = 1 .. l + p + 1
          BY <2>3, <3>1, <4>2
        <5>2. QED BY <2>2, <3>3, <4>2, <5>1
      <4>3. QED BY <4>1, <4>2
    <3>4. QED BY <3>2, <3>3
  <2>9. ASSUME NEW i, At(i)
        PROVE  \/ i \in 1 .. l /\ localRemove[i] = u /\ Elem(u, localRemove)
               \/ \E k \in 1 .. p : i = l + k /\ pendingCallRemove[k] = u /\ Elem(u, pendingCallRemove)
               \/ i = l + p + 1 /\ Holder # NoCall /\ owner[Holder] = u
    <3>1. CASE i \in 1 .. l
      BY <2>3, <2>9, <3>1 DEF Elem
    <3>2. CASE \E k \in 1 .. p : i = l + k
      BY <2>3, <2>9, <3>2 DEF Elem
    <3>3. CASE i = l + p + 1 /\ Holder # NoCall
      <4>1. held = <<owner[Holder]>> /\ Len(held) = 1
        BY <3>3
      <4>2. QED BY <2>3, <2>9, <3>3, <4>1
    <3>4. QED BY <2>8, <2>9, <3>1, <3>2, <3>3
  <2>10. ASSUME NEW i, NEW j, At(i), At(j) PROVE i = j
    <3>1. CASE i \in 1 .. l
      BY <2>5, <2>6, <2>9, <2>10, <3>1 DEF NoDup
    <3>2. CASE \E k \in 1 .. p : i = l + k /\ pendingCallRemove[k] = u /\ Elem(u, pendingCallRemove)
      BY <2>5, <2>6, <2>9, <2>10, <3>2 DEF NoDup
    <3>3. CASE i = l + p + 1 /\ Holder # NoCall /\ owner[Holder] = u
      BY <2>5, <2>6, <2>9, <2>10, <3>3
    <3>4. QED BY <2>9, <2>10, <3>1, <3>2, <3>3
  <2>11. ASSUME NEW i, At(i) PROVE EndedInTable(u)
    BY <2>5, <2>6, <2>9, <2>11
  <2>12. ASSUME EndedInTable(u) PROVE \E i : At(i)
    <3>1. CASE Elem(u, localRemove)
      <4>1. PICK k \in 1 .. l : localRemove[k] = u
        BY <3>1 DEF Elem
      <4>2. k \in DOMAIN Removals
        BY <2>2, <2>3
      <4>3. QED BY <2>3, <4>1, <4>2
    <3>2. CASE Elem(u, pendingCallRemove)
      <4>1. PICK k \in 1 .. p : pendingCallRemove[k] = u
        BY <3>2 DEF Elem
      <4>2. l + k \in DOMAIN Removals
        BY <2>2, <2>3
      <4>3. QED BY <2>3, <4>1, <4>2
    <3>3. CASE Holder # NoCall /\ owner[Holder] = u
      <4>1. held = <<u>> /\ Len(held) = 1 /\ held[1] = u
        BY <3>3
      <4>2. l + p + 1 \in DOMAIN Removals
        BY <2>2, <2>3, <4>1
      <4>3. QED BY <2>3, <4>1, <4>2
    <3>4. QED BY <2>7, <2>12, <3>1, <3>2, <3>3
  <2>13. CASE EndedInTable(u)
    <3>1. PICK i : At(i)
      BY <2>12, <2>13
    <3>2. {k \in DOMAIN Removals : Removals[k] = u} = {i}
      BY <2>10, <3>1
    <3>3. QED BY <2>4, <2>13, <3>1, <3>2
  <2>14. CASE ~EndedInTable(u)
    BY <2>4, <2>11, <2>14
  <2>15. QED BY <2>13, <2>14
<1>2. QED BY Invariance, <1>1, PTL

\* Once a call's own "disconnected" has been sent, no command is worked on
\* while the call is still in the table: pushing the state and the removal
\* under one lock, and removing after sending, is what this rests on.
THEOREM FreeWhenTold == Spec => []FreeOnceDisconnectedIsTold
<1>1. IInv => FreeOnceDisconnectedIsTold
  BY DEF IInv, ToldInv, FreeOnceDisconnectedIsTold, Serving
<1>2. QED BY Invariance, <1>1, PTL

-----------------------------------------------------------------------------
(* The table of calls implements CallSlot *)

\* The shutdown clears the table once, and the library goes once.
LEMMA LifeEffects ==
    ASSUME [Next]_vars
    PROVE  /\ Serving' = Serving \/ ClearCalls
           /\ (pc' = "destroyed") = (pc = "destroyed") \/ LibDestroy
<1> DEFINE SameLife == Serving' = Serving /\ (pc' = "destroyed") = (pc = "destroyed")
<1> USE DEF Serving
<1>1. ASSUME NEW cmd \in Commands, HandleTcpMessage(cmd) PROVE SameLife
  BY <1>1 DEF HandleTcpMessage
<1>2. ASSUME TakeCommands \/ ShutdownAccount \/ TakeStates \/ SendState \/ TakeRemoves
             \/ EraseCall \/ LoopAgain \/ HangupAllCalls \/ UNCHANGED vars
      PROVE  SameLife
  BY <1>2 DEF TakeCommands, ShutdownAccount, TakeStates, SendState, TakeRemoves,
              EraseCall, LoopAgain, HangupAllCalls, vars
<1>3. ASSUME NEW u \in Users,
             \/ RegisterAccount(u) \/ DisconnectAccount(u) \/ MakeCallEmpty(u)
             \/ MakeCallTooMany(u) \/ AnswerCall(u) \/ HangupCall(u) \/ Ignore(u)
             \/ DestroyCommand(u) \/ OnRegState(u)
      PROVE  SameLife
  BY <1>3 DEF RegisterAccount, DisconnectAccount, MakeCallEmpty, MakeCallTooMany,
              AnswerCall, HangupCall, Ignore, DestroyCommand, OnRegState, Running
<1>4. ASSUME NEW u \in Users, NEW c \in Calls,
             MakeCall(u, c) \/ OnIncomingCall(u, c) \/ RejectIncomingCall(u, c)
      PROVE  SameLife
  BY <1>4 DEF MakeCall, OnIncomingCall, RejectIncomingCall, Running
<1>5. ASSUME NEW c \in Calls,
             \/ StartCall(c) \/ StartCallFails(c) \/ Alert(c) \/ OnCallMediaState(c)
             \/ OnDisconnected(c) \/ PushRemove(c)
             \/ SendInvite(c) \/ OnEof(c) \/ Streamed(c)
      PROVE  SameLife
  BY <1>5 DEF StartCall, StartCallFails, Alert, OnCallMediaState, OnDisconnected,
              PushRemove, SendInvite, OnEof, Streamed
<1>6. ASSUME NEW c \in Calls, NEW s \in {"ringing", "connecting", "confirmed"},
             OnCallState(c, s)
      PROVE  SameLife
  BY <1>6 DEF OnCallState
<1>7. ASSUME ClearCalls PROVE (pc' = "destroyed") = (pc = "destroyed")
  BY <1>7 DEF ClearCalls
<1>8. ASSUME LibDestroy PROVE Serving' = Serving
  BY <1>8 DEF LibDestroy
<1>9. QED
  BY <1>1, <1>2, <1>3, <1>4, <1>5, <1>6, <1>7, <1>8
     DEF Next, MainLoop, MainWork, Dispatch, Callbacks, Terminated

\* The sets that the refinement mapping gives to CallSlot.
OverSet == {c \in Calls : status[c] \in {"disconnected", "rejected", "failed"}}
UsedSet == {c \in Calls : owner[c] # NoUser}

\* A step of the engine is a step of the call slots or leaves them alone.
LEMMA SlotStep ==
    ASSUME TableIInv, TableIInv', [Next]_vars
    PROVE  [Slot!Next]_(Slot!vars)
<1> USE DEF TableIInv
<1> DEFINE Life == UNCHANGED <<Serving, pc = "destroyed">>
<1>1. ASSUME Quiet, Life PROVE UNCHANGED Slot!vars
  BY <1>1 DEF Quiet, Slot!vars, Serving
<1>2. ASSUME NEW c \in Calls, Advance(c), Life PROVE UNCHANGED Slot!vars
  <2>1. OverSet' = OverSet
    BY <1>2 DEF Advance, OverSet, TypeOK, CallState
  <2>2. QED BY <1>2, <2>1 DEF Advance, OverSet, Slot!vars, Serving
<1>3. ASSUME NEW u \in Users, NEW c \in Calls, Enter(u, c), pc # "destroyed", Life
      PROVE  Slot!Occupy(u, c)
  <2>1. owner[c] = NoUser
    BY <1>3 DEF Enter, TableInv
  <2>2. OverSet' = OverSet
    BY <1>3 DEF Enter, OverSet, TypeOK
  <2>3. UsedSet' = UsedSet \cup {c}
    BY <1>3 DEF Enter, UsedSet, TypeOK
  <2>4. c \notin UsedSet \cup OverSet
    BY <1>3, <2>1 DEF Enter, OverSet, UsedSet
  <2>5. QED BY <1>3, <2>2, <2>3, <2>4 DEF Enter, OverSet, UsedSet, Slot!Occupy, Serving
<1>4. ASSUME NEW c \in Calls, StartCallFails(c), Life
      PROVE  \E u \in Users : Slot!Abandon(u)
  <2>1. PICK u \in Users : u = Head(localCommands).username /\ calls[u] = c
    BY <1>4 DEF StartCallFails, CommandInv, TableInv, Serving
  <2>2. calls' = [calls EXCEPT ![u] = NoCall] /\ c # NoCall
    BY <1>4, <2>1 DEF StartCallFails, RemoveCall, TypeOK
  <2>3. OverSet' = OverSet \cup {c} /\ c \notin OverSet
    BY <1>4 DEF StartCallFails, OverSet, TypeOK
  <2>4. owner' = owner
    BY <1>4 DEF StartCallFails
  <2>5. Slot!Abandon(u)
    BY <1>4, <2>1, <2>2, <2>3, <2>4 DEF OverSet, Slot!Abandon, Serving
  <2>6. QED BY <2>5
<1>5. ASSUME TakeRemoves, Life PROVE UNCHANGED Slot!vars
  BY <1>5 DEF TakeRemoves, Slot!vars, Serving
<1>6. ASSUME EraseCall, Life PROVE \E u \in Users : Slot!Vacate(u)
  <2>1. PICK u \in Users : u = Head(localRemove) /\ Elem(u, localRemove)
    BY <1>6, PopElem DEF EraseCall, TypeOK
  <2>2. EndedInTable(u)
    BY <1>6, <2>1 DEF EraseCall, RemovalInv, Serving
  <2>3. calls[u] \in OverSet
    BY <2>1, <2>2 DEF EndedInTable, OverSet, TypeOK
  <2>4. Slot!Vacate(u)
    BY <1>6, <2>1, <2>3 DEF EraseCall, OverSet, Slot!Vacate, Serving
  <2>5. QED BY <2>4
<1>7. ASSUME ClearCalls, (pc' = "destroyed") = (pc = "destroyed") PROVE Slot!Sweep
  BY <1>7 DEF ClearCalls, Slot!Sweep
<1>8. ASSUME NEW u \in Users, NEW c \in Calls, RejectIncomingCall(u, c), Life PROVE Slot!End(c)
  <2>1. OverSet' = OverSet \cup {c} /\ c \notin OverSet
    BY <1>8 DEF RejectIncomingCall, OverSet, TypeOK
  <2>2. QED BY <1>8, <2>1 DEF RejectIncomingCall, OverSet, Slot!End, Serving
<1>9. ASSUME NEW c \in Calls, OnDisconnected(c), Life PROVE Slot!End(c)
  <2>1. OverSet' = OverSet \cup {c} /\ c \notin OverSet
    BY <1>9 DEF OnDisconnected, InDialog, CallState, OverSet, TypeOK
  <2>2. QED BY <1>9, <2>1 DEF OnDisconnected, OverSet, Slot!End, Serving
<1>10. ASSUME NEW c \in Calls, PushRemove(c), Life PROVE UNCHANGED Slot!vars
  BY <1>10 DEF PushRemove, Slot!vars, Serving
<1>11. ASSUME LibDestroy PROVE [Slot!Next]_(Slot!vars)
  BY <1>11 DEF LibDestroy, Slot!Leave, Slot!Next
<1>12. Serving' = Serving \/ ClearCalls
  BY LifeEffects
<1>13. (pc' = "destroyed") = (pc = "destroyed") \/ LibDestroy
  BY LifeEffects
<1>14. ASSUME Life PROVE [Slot!Next]_(Slot!vars)
  BY StepKinds, <1>1, <1>2, <1>3, <1>4, <1>5, <1>6, <1>8, <1>9, <1>10, <1>14
     DEF Slot!Next, ClearCalls, Serving
<1>15. QED
  BY <1>7, <1>11, <1>12, <1>13, <1>14 DEF Slot!Next

\* The table of calls is a set of call slots: a slot is taken only while it
\* is empty, by a call that never had one, and emptied only when its call is
\* over, could not be started, or the engine shuts down.
THEOREM TableIsCallSlots == Spec => SlotSpec
<1>1. Init => Slot!Init
  BY DEF Init, Slot!Init
<1>2. TableIInv /\ TableIInv' /\ [Next]_vars => [Slot!Next]_(Slot!vars)
  BY SlotStep
<1>3. IInv => TableIInv
  BY DEF IInv
<1>4. QED BY Invariance, <1>1, <1>2, <1>3, PTL DEF Spec, SlotSpec, Slot!Spec

=============================================================================
