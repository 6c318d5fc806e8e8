------------------------------ MODULE SIPCore ------------------------------
(***************************************************************************)
(* The engine's core, src/SIPCore.cpp with the callbacks of src/sip: the   *)
(* table of calls, the three queues between the threads, and the main loop *)
(*                                                                         *)
(*     libHandleEvents; processPendingCommands; processPendingStates;      *)
(*     processPendingCallRemove                                            *)
(*                                                                         *)
(* The main thread walks a program counter pc; the TCP thread appends to   *)
(* pendingCommands; PJSIP's threads run the callbacks of accounts, calls   *)
(* and players at any moment.  A call is the identity of one SIPCall       *)
(* object, so it is used once.  A command keeps what the control depends   *)
(* on: its name, its user and whether a number and a server are given.     *)
(* Two things can stop the main thread for good: send() to a client that   *)
(* does not read, and the lambda of "send_audio", which asks the library   *)
(* for a call's URI while it holds pendingMutex (Playback has its detail). *)
(***************************************************************************)
EXTENDS Integers, Sequences

CONSTANTS
    Users,        \* usernames, the keys of accounts and calls
    Calls,        \* identities of SIPCall objects: a bound on calls ever made
    NoUser,       \* the owner of a call that was never stored
    NoCall,       \* "no entry" in calls; "free" for pendingMutex
    Player,       \* the thread that runs the lambda of "send_audio"
    CommandNames, \* the commands the client makes use of
    MaxCommands,  \* bound: commands waiting in pendingCommands
    MaxStates     \* bound: the library reports only while fewer states wait

ASSUME NoneAssumption ==
    NoUser \notin Users /\ NoCall \notin Calls /\ Player \notin Calls \cup {NoCall}
ASSUME CommandAssumption ==
    CommandNames \subseteq {"registration", "disconnect", "call", "answer",
                            "hangup", "destroy"}
ASSUME BoundAssumption == MaxCommands \in Nat /\ MaxStates \in Nat

VARIABLES
    initialized,       \* SIPCore::initialized, the loop's condition
    pc,                \* where the main thread is
    pendingCommands,   \* filled by the TCP thread
    localCommands,     \* the batch processPendingCommands works on
    pendingStates,     \* filled by callbacks and by the main thread
    localStates,       \* the batch processPendingStates works on
    pendingMutex,      \* the call whose stateCallback holds the mutex, or Player
    pendingCallRemove, \* usernames, filled by stateCallback
    localRemove,       \* the batch processPendingCallRemove works on
    accounts,          \* users with a SIPAccount
    calls,             \* SIPCore::calls
    owner,             \* the username captured by a stored call's callback
    status,            \* the life of a call in the library
    alerting,          \* inbound calls still inside onIncomingCall
    answered,          \* calls whose dialog may be established
    hungup,            \* calls the library was told to end
    told,              \* history: last state of a call sent to the client
    toldDown           \* history: users whose last message is "disconnected"

mainVars    == <<initialized, pc>>
commandVars == <<pendingCommands, localCommands>>
removeVars  == <<pendingCallRemove, localRemove>>
tableVars   == <<accounts, calls, owner>>
libVars     == <<status, alerting, answered, hungup>>
clientVars  == <<told, toldDown>>
vars == <<mainVars, commandVars, pendingStates, localStates, pendingMutex,
          removeVars, tableVars, libVars, clientVars>>

-----------------------------------------------------------------------------
(* Data *)

\* dialled: both the number and the server of a "call" are given.
Commands ==
    {cmd \in [command : CommandNames, username : Users, dialled : BOOLEAN] :
        cmd.dialled \/ cmd.command = "call"}

CallState == {"incoming", "calling", "ringing", "connecting", "confirmed"}

\* "starting": stored by makeCall, the INVITE not sent; "failed": makeCall
\* threw; "rejected": turned away with 486, no SIPCall keeps it.
Status == CallState \cup {"null", "starting", "failed", "rejected", "disconnected"}

\* The order of a call's states, as its callback reports them.
Rank == [s \in CallState \cup {"none", "disconnected"} |->
            CASE s = "none" -> 0
              [] s \in {"incoming", "calling"} -> 1
              [] s = "ringing" -> 2
              [] s = "connecting" -> 3
              [] s = "confirmed" -> 4
              [] s = "disconnected" -> 5]

\* "account" stands for what onRegState reports, "registered" or "failed".
\* "call" is history: the call whose state is reported, NoCall for others.
PendingState ==
    {item \in [username : Users,
               state : CallState \cup {"disconnected", "account", "streaming"},
               call : Calls \cup {NoCall}] :
        item.state \in {"account", "streaming"} => item.call = NoCall}

Report(u, s, c) == [username |-> u, state |-> s, call |-> c]

InDialog(c) == status[c] \in CallState
Ended(c)    == status[c] = "disconnected"

Init ==
    /\ initialized = TRUE
    /\ pc = "commands"
    /\ pendingCommands = << >> /\ localCommands = << >>
    /\ pendingStates = << >> /\ localStates = << >>
    /\ pendingMutex = NoCall
    /\ pendingCallRemove = << >> /\ localRemove = << >>
    /\ accounts = {}
    /\ calls = [u \in Users |-> NoCall]
    /\ owner = [c \in Calls |-> NoUser]
    /\ status = [c \in Calls |-> "null"]
    /\ alerting = {} /\ answered = {} /\ hungup = {}
    /\ told = [c \in Calls |-> "none"]
    /\ toldDown = {}

-----------------------------------------------------------------------------
(* Shared steps.  An operator whose comment starts with "Fault:" is the     *)
(* operator after it with a programming mistake, for checking that the      *)
(* properties notice the mistake; no action uses it.                        *)

\* Fault: the states wait on a stack.
PushOnTop(report) ==
    /\ pendingMutex = NoCall
    /\ pendingStates' = <<report>> \o pendingStates

\* std::lock_guard on pendingMutex, one push, unlock.
Push(report) ==
    /\ pendingMutex = NoCall
    /\ pendingStates' = Append(pendingStates, report)

\* Fault: setupCall does not look for a call of the account.
FreeUnchecked(u) == TRUE

\* setupCall's test under callsMutex.
Free(u) == calls[u] = NoCall

\* setupCall's insertion under callsMutex; the callback captures u.
Store(u, c) ==
    /\ calls' = [calls EXCEPT ![u] = c]
    /\ owner' = [owner EXCEPT ![c] = u]

\* removeCall takes the call out only if the table still holds this one.
RemoveCall(u, c) ==
    calls' = [calls EXCEPT ![u] = IF @ = c THEN NoCall ELSE @]

\* Fault: the removal is queued twice.
RemovalTwice(c) == pendingCallRemove \o <<owner[c], owner[c]>>
\* Fault: the removal is not queued.
RemovalForgotten(c) == pendingCallRemove
\* Fault: the removal names the call instead of its user.
RemovalOfCall(c) == Append(pendingCallRemove, c)

\* stateCallback queues the removal of the username it captured.
Removal(c) == Append(pendingCallRemove, owner[c])

\* Fault: the swap of processPendingStates does not take pendingMutex.
SwapUnlocked ==
    /\ localStates' = pendingStates
    /\ pendingStates' = << >>
\* Fault: only the latest of the waiting states is sent.
SwapLatest ==
    /\ pendingMutex = NoCall
    /\ localStates' = IF pendingStates = << >> THEN << >>
                      ELSE <<pendingStates[Len(pendingStates)]>>
    /\ pendingStates' = << >>

\* processPendingStates takes all waiting states under pendingMutex.
SwapStates ==
    /\ pendingMutex = NoCall
    /\ localStates' = pendingStates
    /\ pendingStates' = << >>

-----------------------------------------------------------------------------
(* The TCP thread *)

HandleTcpMessage(cmd) ==
    /\ pc \notin {"cleared", "destroyed"}
    /\ Len(pendingCommands) < MaxCommands
    /\ pendingCommands' = Append(pendingCommands, cmd)
    /\ UNCHANGED <<mainVars, localCommands, pendingStates, localStates,
                   pendingMutex, removeVars, tableVars, libVars, clientVars>>

-----------------------------------------------------------------------------
(* processPendingCommands *)

TakeCommands ==
    /\ pc = "commands"
    /\ pc' = "dispatch"
    /\ localCommands' = pendingCommands
    /\ pendingCommands' = << >>
    /\ UNCHANGED <<initialized, pendingStates, localStates, pendingMutex,
                   removeVars, tableVars, libVars, clientVars>>

\* The front command is called name and is for user u.
Running(name, u) ==
    /\ pc = "dispatch"
    /\ localCommands # << >>
    /\ Head(localCommands).command = name
    /\ Head(localCommands).username = u

Finish ==
    /\ localCommands' = Tail(localCommands)
    /\ UNCHANGED pendingCommands

\* registerAccount: nothing happens after "destroy", for a user who has an
\* account, or when Account::create throws.
RegisterAccount(u) ==
    /\ Running("registration", u)
    /\ Finish
    /\ accounts' \in IF initialized THEN {accounts, accounts \cup {u}} ELSE {accounts}
    /\ UNCHANGED <<mainVars, pendingStates, localStates, pendingMutex,
                   removeVars, calls, owner, libVars, clientVars>>

\* The library may refuse the request (no such dialog, dialog lock timeout):
\* the code swallows the error.
Hangup(c) == hungup' \in {hungup, hungup \cup ({c} \cap {d \in Calls : InDialog(d)})}

\* disconnectAccount up to the hangup of the account's call.
DisconnectAccount(u) ==
    /\ Running("disconnect", u)
    /\ u \in accounts
    /\ IF Free(u) THEN UNCHANGED hungup ELSE Hangup(calls[u])
    /\ pc' = "shutdown"
    /\ UNCHANGED <<initialized, commandVars, pendingStates, localStates,
                   pendingMutex, removeVars, tableVars, status, alerting,
                   answered, clientVars>>

\* The rest of disconnectAccount: the account goes, its call stays in calls.
ShutdownAccount ==
    /\ pc = "shutdown"
    /\ pc' = "dispatch"
    /\ LET u == Head(localCommands).username IN
        /\ accounts' = accounts \ {u}
        /\ Push(Report(u, "disconnected", NoCall))
    /\ Finish
    /\ UNCHANGED <<initialized, localStates, pendingMutex, removeVars, calls,
                   owner, libVars, clientVars>>

\* makeCall without a number or a server.
MakeCallEmpty(u) ==
    /\ Running("call", u)
    /\ ~Head(localCommands).dialled
    /\ Push(Report(u, "disconnected", NoCall))
    /\ Finish
    /\ UNCHANGED <<mainVars, localStates, pendingMutex, removeVars, tableVars,
                   libVars, clientVars>>

\* makeCall up to setupCall's success: the table is written, nothing is sent.
MakeCall(u, c) ==
    /\ Running("call", u)
    /\ Head(localCommands).dialled
    /\ u \in accounts
    /\ status[c] = "null"
    /\ Free(u)
    /\ Store(u, c)
    /\ status' = [status EXCEPT ![c] = "starting"]
    /\ pc' = "makecall"
    /\ UNCHANGED <<initialized, commandVars, pendingStates, localStates,
                   pendingMutex, removeVars, accounts, alerting, answered,
                   hungup, clientVars>>

\* Call::makeCall takes PJSUA's lock and sends the INVITE ...
SendInvite(c) ==
    /\ pc = "makecall"
    /\ status[c] = "starting"
    /\ pc' = "calling"
    /\ UNCHANGED <<initialized, commandVars, pendingStates, localStates,
                   pendingMutex, removeVars, tableVars, libVars, clientVars>>

\* ... and has the callback report "calling" before it lets the lock go.
StartCall(c) ==
    /\ pc = "calling"
    /\ status[c] = "starting"
    /\ pc' = "dispatch"
    /\ status' = [status EXCEPT ![c] = "calling"]
    /\ answered' = answered \cup {c}
    /\ Push(Report(owner[c], "calling", c))
    /\ Finish
    /\ UNCHANGED <<initialized, localStates, pendingMutex, removeVars,
                   tableVars, alerting, hungup, clientVars>>

\* Call::makeCall throws: removeCall takes this very call out of the table.
StartCallFails(c) ==
    /\ pc = "makecall"
    /\ status[c] = "starting"
    /\ pc' = "dispatch"
    /\ status' = [status EXCEPT ![c] = "failed"]
    /\ RemoveCall(Head(localCommands).username, c)
    /\ Finish
    /\ UNCHANGED <<initialized, pendingStates, localStates, pendingMutex,
                   removeVars, accounts, owner, alerting, answered, hungup, clientVars>>

\* makeCall when the library has no call left: stored, thrown, removed.
MakeCallTooMany(u) ==
    /\ Running("call", u)
    /\ Head(localCommands).dialled
    /\ u \in accounts
    /\ Free(u)
    /\ \A c \in Calls : status[c] # "null"
    /\ Finish
    /\ UNCHANGED <<mainVars, pendingStates, localStates, pendingMutex,
                   removeVars, tableVars, libVars, clientVars>>

\* answerCall(200), only for a call the peer is waiting on; it may fail.
AnswerCall(u) ==
    /\ Running("answer", u)
    /\ ~Free(u)
    /\ answered' \in
         {answered, answered \cup ({calls[u]} \cap {c \in Calls : InDialog(c)})}
    /\ Finish
    /\ UNCHANGED <<mainVars, pendingStates, localStates, pendingMutex,
                   removeVars, tableVars, status, alerting, hungup,
                   clientVars>>

HangupCall(u) ==
    /\ Running("hangup", u)
    /\ ~Free(u)
    /\ Hangup(calls[u])
    /\ Finish
    /\ UNCHANGED <<mainVars, pendingStates, localStates, pendingMutex,
                   removeVars, tableVars, status, alerting, answered,
                   clientVars>>

\* Commands that find nothing to work on return without a trace.
Ignore(u) ==
    /\ \/ Running("disconnect", u) /\ u \notin accounts
       \/ /\ Running("call", u)
          /\ Head(localCommands).dialled
          /\ u \notin accounts \/ ~Free(u)
       \/ (\E name \in {"answer", "hangup"} : Running(name, u))
            /\ Free(u)
    /\ Finish
    /\ UNCHANGED <<mainVars, pendingStates, localStates, pendingMutex,
                   removeVars, tableVars, libVars, clientVars>>

\* "destroy" ends the loop after this iteration; the batch goes on.
DestroyCommand(u) ==
    /\ Running("destroy", u)
    /\ initialized' = FALSE
    /\ Finish
    /\ UNCHANGED <<pc, pendingStates, localStates, pendingMutex, removeVars,
                   tableVars, libVars, clientVars>>

-----------------------------------------------------------------------------
(* processPendingStates, processPendingCallRemove, and the end of the loop *)

TakeStates ==
    /\ pc = "dispatch" /\ localCommands = << >>
    /\ pc' = "send"
    /\ SwapStates
    /\ UNCHANGED <<initialized, commandVars, pendingMutex, removeVars,
                   tableVars, libVars, clientVars>>

\* sendState: the history variables say what the client has been sent.
SendState ==
    /\ pc = "send" /\ localStates # << >>
    /\ LET item == Head(localStates) IN
        /\ told' = IF item.call = NoCall
                     THEN told
                     ELSE [told EXCEPT ![item.call] = item.state]
        /\ toldDown' = IF item.state = "disconnected"
                         THEN toldDown \cup {item.username}
                         ELSE toldDown \ {item.username}
    /\ localStates' = Tail(localStates)
    /\ UNCHANGED <<mainVars, commandVars, pendingStates, pendingMutex,
                   removeVars, tableVars, libVars>>

TakeRemoves ==
    /\ pc = "send" /\ localStates = << >>
    /\ pc' = "erase"
    /\ localRemove' = pendingCallRemove
    /\ pendingCallRemove' = << >>
    /\ UNCHANGED <<initialized, commandVars, pendingStates, localStates,
                   pendingMutex, tableVars, libVars, clientVars>>

\* calls.erase(username): whatever call the table holds for that name.
EraseCall ==
    /\ pc = "erase" /\ localRemove # << >>
    /\ calls' = [calls EXCEPT ![Head(localRemove)] = NoCall]
    /\ localRemove' = Tail(localRemove)
    /\ UNCHANGED <<mainVars, commandVars, pendingStates, localStates,
                   pendingMutex, pendingCallRemove, accounts, owner, libVars,
                   clientVars>>

LoopAgain ==
    /\ pc = "erase" /\ localRemove = << >>
    /\ pc' = IF initialized THEN "commands" ELSE "hangup_all"
    /\ UNCHANGED <<initialized, commandVars, pendingStates, localStates,
                   pendingMutex, removeVars, tableVars, libVars, clientVars>>

\* destroy(): hangupAllCalls, then libHandleEvents until the clear.
HangupAllCalls ==
    /\ pc = "hangup_all"
    /\ pc' = "draining"
    /\ hungup' = hungup \cup {c \in Calls : InDialog(c)}
    /\ UNCHANGED <<initialized, commandVars, pendingStates, localStates,
                   pendingMutex, removeVars, tableVars, status, alerting,
                   answered, clientVars>>

\* tcpServer.stop() and calls.clear(): the queues are never looked at again.
ClearCalls ==
    /\ pc = "draining"
    /\ pc' = "cleared"
    /\ calls' = [u \in Users |-> NoCall]
    /\ UNCHANGED <<initialized, commandVars, pendingStates, localStates,
                   pendingMutex, removeVars, accounts, owner, libVars, clientVars>>

\* accounts.clear() and libDestroy(): no callback runs after it.
LibDestroy ==
    /\ pc = "cleared"
    /\ pc' = "destroyed"
    /\ accounts' = {}
    /\ UNCHANGED <<initialized, commandVars, pendingStates, localStates,
                   pendingMutex, removeVars, calls, owner, libVars, clientVars>>

-----------------------------------------------------------------------------
(* Callbacks on PJSIP's threads *)

LibraryRuns == pc # "destroyed"
MayReport   == LibraryRuns /\ Len(pendingStates) < MaxStates

OnRegState(u) ==
    /\ MayReport
    /\ u \in accounts
    /\ Push(Report(u, "account", NoCall))
    /\ UNCHANGED <<mainVars, commandVars, localStates, pendingMutex,
                   removeVars, tableVars, libVars, clientVars>>

\* onIncomingCall: setupCall stores the call, its callback not yet armed.
OnIncomingCall(u, c) ==
    /\ LibraryRuns
    /\ u \in accounts
    /\ status[c] = "null"
    /\ Free(u)
    /\ Store(u, c)
    /\ status' = [status EXCEPT ![c] = "incoming"]
    /\ alerting' = alerting \cup {c}
    /\ UNCHANGED <<mainVars, commandVars, pendingStates, localStates,
                   pendingMutex, removeVars, accounts, answered, hungup, clientVars>>

\* onIncomingCall for a busy account: 486, and no callback is ever armed.
RejectIncomingCall(u, c) ==
    /\ LibraryRuns
    /\ u \in accounts
    /\ status[c] = "null"
    /\ ~Free(u)
    /\ status' = [status EXCEPT ![c] = "rejected"]
    /\ UNCHANGED <<mainVars, commandVars, pendingStates, localStates,
                   pendingMutex, removeVars, tableVars, alerting, answered,
                   hungup, clientVars>>

\* The end of onIncomingCall: answer(180) reports "ringing", or throws.
Alert(c) ==
    /\ LibraryRuns
    /\ c \in alerting
    /\ alerting' = alerting \ {c}
    /\ \/ /\ Push(Report(owner[c], "ringing", c))
          /\ status' = [status EXCEPT ![c] = "ringing"]
       \/ UNCHANGED <<pendingStates, status>>
    /\ UNCHANGED <<mainVars, commandVars, localStates, pendingMutex,
                   removeVars, tableVars, answered, hungup, clientVars>>

\* onCallState short of the end: states may be skipped, never revisited.
OnCallState(c, s) ==
    /\ MayReport
    /\ InDialog(c) /\ c \notin alerting
    /\ Rank[s] > Rank[status[c]]
    /\ s \in {"connecting", "confirmed"} => c \in answered
    /\ status' = [status EXCEPT ![c] = s]
    /\ Push(Report(owner[c], s, c))
    /\ UNCHANGED <<mainVars, commandVars, localStates, pendingMutex,
                   removeVars, tableVars, alerting, answered, hungup,
                   clientVars>>

\* onCallMediaState repeats currentState with the new media state.
OnCallMediaState(c) ==
    /\ MayReport
    /\ InDialog(c) /\ c \notin alerting
    /\ Push(Report(owner[c], status[c], c))
    /\ UNCHANGED <<mainVars, commandVars, localStates, pendingMutex,
                   removeVars, tableVars, libVars, clientVars>>

\* onCallState(DISCONNECTED): stateCallback pushes the state and keeps the
\* mutex for the removal.
OnDisconnected(c) ==
    /\ LibraryRuns
    /\ InDialog(c) /\ c \notin alerting
    /\ status' = [status EXCEPT ![c] = "disconnected"]
    /\ Push(Report(owner[c], "disconnected", c))
    /\ pendingMutex' = c
    /\ UNCHANGED <<mainVars, commandVars, localStates, removeVars, tableVars,
                   alerting, answered, hungup, clientVars>>

\* The rest of stateCallback: the removal, then both mutexes are released.
PushRemove(c) ==
    /\ LibraryRuns
    /\ pendingMutex = c
    /\ pendingCallRemove' = Removal(c)
    /\ pendingMutex' = NoCall
    /\ UNCHANGED <<mainVars, commandVars, pendingStates, localStates,
                   localRemove, tableVars, libVars, clientVars>>

\* PJSUA's lock is held while makeCall calls back, and by onIncomingCall.
LibraryLocked == pc = "calling" \/ alerting # {}

\* A file played into c has come to its end, or does so as c ends: the
\* lambda of "send_audio" locks pendingMutex ...
OnEof(c) ==
    /\ MayReport
    /\ status[c] \in {"ringing", "connecting", "confirmed", "disconnected"}
    /\ c \notin alerting
    /\ pendingMutex = NoCall
    /\ pendingMutex' = Player
    /\ UNCHANGED <<mainVars, commandVars, pendingStates, localStates,
                   removeVars, tableVars, libVars, clientVars>>

\* ... and needs PJSUA's lock for the call's URI, then reports "streaming".
Streamed(c) ==
    /\ LibraryRuns
    /\ pendingMutex = Player /\ ~LibraryLocked
    /\ status[c] \in {"ringing", "connecting", "confirmed", "disconnected"}
    /\ pendingStates' = Append(pendingStates, Report(owner[c], "streaming", NoCall))
    /\ pendingMutex' = NoCall
    /\ UNCHANGED <<mainVars, commandVars, localStates, removeVars, tableVars,
                   libVars, clientVars>>

-----------------------------------------------------------------------------

Dispatch(u) ==
    \/ RegisterAccount(u)
    \/ DisconnectAccount(u)
    \/ MakeCallEmpty(u)
    \/ \E c \in Calls : MakeCall(u, c)
    \/ MakeCallTooMany(u)
    \/ AnswerCall(u)
    \/ HangupCall(u)
    \/ Ignore(u)
    \/ DestroyCommand(u)

\* The steps of the main thread outside send().
MainWork ==
    \/ TakeCommands
    \/ \E u \in Users : Dispatch(u)
    \/ ShutdownAccount
    \/ \E c \in Calls : SendInvite(c) \/ StartCall(c) \/ StartCallFails(c)
    \/ TakeStates \/ TakeRemoves \/ EraseCall \/ LoopAgain
    \/ HangupAllCalls \/ ClearCalls \/ LibDestroy

MainLoop == MainWork \/ SendState

Callbacks ==
    \/ \E u \in Users : OnRegState(u)
    \/ \E u \in Users, c \in Calls : OnIncomingCall(u, c) \/ RejectIncomingCall(u, c)
    \/ \E c \in Calls : \/ Alert(c) \/ OnCallMediaState(c) \/ OnDisconnected(c)
                        \/ PushRemove(c) \/ OnEof(c) \/ Streamed(c)
    \/ \E c \in Calls, s \in {"ringing", "connecting", "confirmed"} :
         OnCallState(c, s)

\* The process has left main().
Terminated == pc = "destroyed" /\ UNCHANGED vars

Next ==
    \/ \E cmd \in Commands : HandleTcpMessage(cmd)
    \/ MainLoop
    \/ Callbacks
    \/ Terminated

Spec == Init /\ [][Next]_vars

(* send() waits for the client to read: SendState has no fairness.  A      *)
(* thread that waits for pendingMutex gets it when it is free again and    *)
(* again: between two uses of it lie seconds of a file or of signalling.   *)
(* Who holds it goes on, but for the lambda while PJSUA's lock is taken.   *)
(* onIncomingCall runs to its end once it can report, and SIP's            *)
(* transaction timers end a call that was hung up.                         *)
Fairness ==
    /\ SF_vars(MainWork)
    /\ WF_vars(\E c \in Calls : Streamed(c))
    /\ \A c \in Calls :
        /\ SF_vars(pendingMutex = NoCall /\ Alert(c))
        /\ WF_vars(PushRemove(c))
        /\ SF_vars(c \in hungup /\ OnDisconnected(c))

FairSpec == Spec /\ Fairness

-----------------------------------------------------------------------------
(* Properties *)

\* The types of all variables.
TypeOK ==
    /\ initialized \in BOOLEAN
    /\ pc \in {"commands", "dispatch", "shutdown", "makecall", "calling", "send",
              "erase", "hangup_all", "draining", "cleared", "destroyed"}
    /\ pendingCommands \in Seq(Commands) /\ localCommands \in Seq(Commands)
    /\ pendingStates \in Seq(PendingState) /\ localStates \in Seq(PendingState)
    /\ pendingMutex \in Calls \cup {NoCall, Player}
    /\ pendingCallRemove \in Seq(Users) /\ localRemove \in Seq(Users)
    /\ accounts \subseteq Users
    /\ calls \in [Users -> Calls \cup {NoCall}]
    /\ owner \in [Calls -> Users \cup {NoUser}]
    /\ status \in [Calls -> Status]
    /\ alerting \subseteq Calls /\ answered \subseteq Calls
    /\ hungup \subseteq Calls
    /\ told \in [Calls -> CallState \cup {"none", "disconnected"}]
    /\ toldDown \subseteq Users

\* processPendingCallRemove erases by username.  Until the shutdown clears
\* the table, the entry an erase finds is a call that has ended, so no live
\* call ever loses its place to a removal meant for an earlier call.
EraseFindsEndedCall ==
    pc = "erase" /\ localRemove # << >> =>
        LET u == Head(localRemove) IN ~Free(u) /\ Ended(calls[u])

\* Once the client has been sent the "disconnected" a call reported, no
\* later command is worked on while that call still occupies its account:
\* the "call" a client sends on seeing it is not refused because of it.
FreeOnceDisconnectedIsTold ==
    \A c \in Calls :
        pc \in {"dispatch", "shutdown", "makecall", "calling"} /\ told[c] = "disconnected" =>
            calls[owner[c]] # c

\* The client never sees two calls of one account alive at once, although
\* states, removals and commands travel in three separate queues.
OneCallInClientView ==
    \A c, d \in Calls :
        c # d /\ owner[c] = owner[d] /\ told[c] # "none" /\ told[d] # "none" =>
            "disconnected" \in {told[c], told[d]}

\* What the client is told of one call only moves forward, whichever threads
\* reported it.
ReportsInOrder == [][\A c \in Calls : Rank[told[c]] <= Rank[told'[c]]]_told

\* The removals on their way: those being worked on, those queued, and the
\* one that the holder of pendingMutex is about to queue.
Removals ==
    localRemove \o pendingCallRemove
        \o (IF pendingMutex \in Calls THEN <<owner[pendingMutex]>> ELSE << >>)

\* Until the shutdown clears the table, a call that has ended and is still in
\* it has exactly one removal of its user on the way, and a user without such
\* a call has none: no account stays busy for ever because a removal was
\* dropped, and none is freed twice.
OneRemovalEach ==
    pc \notin {"cleared", "destroyed"} =>
        \A u \in Users :
            LET places == {i \in DOMAIN Removals : Removals[i] = u}
            IN  IF ~Free(u) /\ Ended(calls[u]) THEN \E i \in DOMAIN Removals : places = {i}
                                              ELSE places = {}

\* The end of a call that the client was not told of yet is still waiting to
\* be sent, whatever the main thread is doing, the shutdown included.
EndIsOnItsWay ==
    \A c \in Calls : Ended(c) =>
        \/ told[c] = "disconnected"
        \/ \E i \in DOMAIN (localStates \o pendingStates) :
             LET item == (localStates \o pendingStates)[i]
             IN  item.call = c /\ item.state = "disconnected"

\* The main thread is in send(), with states left to send.
InSend == pc = "send" /\ localStates # << >>

\* The lambda of "send_audio" waits for PJSUA's lock with pendingMutex held,
\* the holder of PJSUA's lock for pendingMutex.
CircularWait == pendingMutex = Player /\ LibraryLocked

\* What stops the main thread for good: a client that never reads again, or
\* the two locks taken crosswise.
MainStops == <>[]InSend \/ <>[]CircularWait

\* A call the library was told to end leaves the table of calls, and its
\* account can be called again, unless the main thread stops for good: its
\* removal is queued by one thread and carried out by another.
HangupFreesAccount ==
    \/ \A c \in Calls :
          c \in hungup ~> c \notin {calls[u] : u \in Users} \/ pc = "destroyed"
    \/ MainStops

\* The end of a call is told to the client unless the engine shuts down or
\* the main thread stops for good.
EndIsTold ==
    \/ \A c \in Calls :
          status[c] = "disconnected" ~> told[c] = "disconnected" \/ ~initialized
    \/ MainStops

\* The table of calls is a set of call slots: what three kinds of threads do
\* to it (setupCall, removeCall, removals by username, the shutdown) are
\* steps CallSlot allows.
Slot == INSTANCE CallSlot WITH
    slot <- calls,
    over <- {c \in Calls : status[c] \in {"disconnected", "rejected", "failed"}},
    used <- {c \in Calls : owner[c] # NoUser},
    open <- pc \notin {"cleared", "destroyed"},
    gone <- pc = "destroyed"
SlotSpec == Slot!Spec

(* A statement of the documentation that the code does not keep *)

\* STATE_MACHINE.md: "disconnected" is reported after a call failure or a
\* network error.  Here: after a call that could not be started, unless the
\* main thread stops for good.
CallFailureIsTold ==
    \/ \A c \in Calls : status[c] = "failed" ~> owner[c] \in toldDown \/ ~initialized
    \/ MainStops

=============================================================================
