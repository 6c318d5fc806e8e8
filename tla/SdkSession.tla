------------------------------ MODULE SdkSession ------------------------------
(***************************************************************************)
(* The Python SDK (python/netsip/src/netsip/netsip.py) and the engine it   *)
(* controls, for one number: the application's calls on the asyncio loop,  *)
(* tcp_thread with its reconnects, the lines on their way, and the         *)
(* engine's account, with the registration and the reports it makes.       *)
(*                                                                         *)
(* subscriber_registration puts a new dict into `clients`; a dict is its   *)
(* number, from 1 to MaxRegs.  Coroutines without a real suspension are    *)
(* one action.  Of the engine only what decides about its account is kept: *)
(* its queues and its calls are the modules SIPCore and TcpServer.  The    *)
(* automatic conversation (audio_manager_thread) is left out.              *)
(*                                                                         *)
(* An operator whose comment starts with "Fault:" is the operator after it *)
(* with a programming mistake; no action uses it.                          *)
(***************************************************************************)
EXTENDS Integers, Sequences, SequencesExt

CONSTANTS
    Switches,       \* what mute, unmute, micoff and micon ask for
    DeviceSwitches, \* what device_off and device_on ask for
    Reports,        \* states reported without a command
    MaxRegs,        \* bound: registrations the application makes
    MaxRequests,    \* bound: its other calls
    MaxReports,     \* bound: states the engine reports of its own accord
    MaxBreaks       \* bound: connections that break

\* The tuple of states in which the SDK takes its client to be in a call.
InCall == {"incoming", "ringing", "confirmed", "streaming"}

\* What onCallState, the end of a file and onRegState say.
CallStates == {"calling", "incoming", "ringing", "connecting", "confirmed", "disconnected",
               "unknown"}
Words      == CallStates \cup {"streaming", "registered", "failed"}

\* Of the commands these are about no client.
Clientless == DeviceSwitches \cup {"destroy"}

ASSUME SwitchAssumption ==
    /\ Switches \cap ({"registration", "disconnect", "call"} \cup Clientless) = {}
    /\ DeviceSwitches \cap {"registration", "disconnect", "call", "destroy"} = {}
ASSUME ReportAssumption == Reports \subseteq Words
ASSUME BoundAssumption ==
    {MaxRegs, MaxRequests, MaxReports, MaxBreaks} \subseteq Nat

VARIABLES
    client,       \* clients[number]: a dict, 0 for none
    dictCommand,  \* the 'command' (and 'device') of each dict
    view,         \* the 'current_state' of clients[number]
    regEvent,     \* the dict whose event is in reg_events, 0 for none
    waiting,      \* the dicts whose registration is awaited
    eventSet,     \* those of them whose event has been set
    tasks,        \* tasks created by mute and its like
    closing,      \* close_sipcore has been called
    queue,        \* socket_queue
    startManager, \* start_manager
    sock,         \* "none", "open", or "dead": broken and not yet noticed
    halfLine,     \* recv_buffer holds the half of a line
    kept,         \* how many items of toSdk it has kept from an earlier round
    reading,      \* the loop over them is under way
    toEngine,     \* commands sent and not yet worked on
    toSdk,        \* states sent and not yet looked at
    running,      \* the engine's main loop runs
    account,      \* the dict whose data the engine's account was made from
    answered,     \* the registrar has answered it
    call,         \* the number's last call: "none", "up", or "over"
    handled,      \* history: of each sender, the id worked on last
    word,         \* history: what the engine has said last, "registered" apart
    refreshed,    \* history: it has said "registered" since
    mishaps,      \* history: what has gone wrong
    count         \* the bounds' counters, and how many commands were asked for

appVars    == <<client, dictCommand, regEvent, waiting, tasks, closing>>
readVars   == <<halfLine, kept, reading>>
threadVars == <<startManager, sock, readVars, toEngine, toSdk>>
saidVars   == <<word, refreshed, toSdk, mishaps>>
engineVars == <<running, account, answered, call, handled, word, refreshed>>
vars == <<appVars, view, eventSet, queue, threadVars, engineVars, mishaps, count>>

Dicts  == 1 .. MaxRegs
Mishaps == {"forgotten",   \* a timeout: the engine keeps an account the SDK gives up
            "overwritten", \* a task has sent another command than its own
            "lost",        \* a command did not reach the engine
            "refused",     \* the library could not create the account
            "missed",      \* a state did not reach the SDK, and no later one made it good
            "stray"}       \* so did one of a call whose account was gone

Commands == Switches \cup Clientless \cup {"registration", "disconnect", "call"}
\* A command is put into the queue by the application's call, or later by a task.
Senders == {"app", "task"}
\* A command that the application's id-th call asks for.
Message(id, command, dict, by) == [id |-> id, command |-> command, dict |-> dict, by |-> by]
Messages ==
    {m \in [id : Nat, command : Commands, dict : Dicts \cup {0}, by : Senders] :
        m.dict = 0 <=> m.command \in Clientless}
Tasks == [id : Nat, dict : Dicts, command : Switches]

TypeOK ==
    /\ {client, regEvent, account} \subseteq Dicts \cup {0}
    /\ {waiting, eventSet} \subseteq SUBSET Dicts
    /\ dictCommand \in [Dicts -> Commands \ Clientless]
    /\ view \in Words \cup {"registering"}
    /\ {closing, startManager, halfLine, reading, running, answered, refreshed} \subseteq BOOLEAN
    /\ tasks \in Seq(Tasks)
    /\ queue \in Seq(Messages) /\ toEngine \in Seq(Messages)
    /\ sock \in {"none", "open", "dead"}
    /\ toSdk \in Seq(Words \cup {"half"}) /\ kept \in 0 .. Len(toSdk)
    /\ call \in {"none", "up", "over"}
    /\ handled \in [Senders -> Nat]
    /\ word \in (Words \ {"registered"}) \cup {"nothing"}
    /\ mishaps \subseteq Mishaps
    /\ count \in [asked : Nat, regs : 0 .. MaxRegs, requests : 0 .. MaxRequests,
                  reports : 0 .. MaxReports, breaks : 0 .. MaxBreaks]

Init ==
    /\ client = 0 /\ regEvent = 0 /\ waiting = {} /\ eventSet = {} /\ account = 0
    /\ dictCommand = [d \in Dicts |-> "registration"]
    /\ view = "registering"
    /\ startManager = TRUE /\ halfLine = FALSE /\ kept = 0 /\ reading = FALSE
    /\ running = TRUE /\ answered = FALSE /\ closing = FALSE
    /\ tasks = << >> /\ queue = << >> /\ toEngine = << >> /\ toSdk = << >>
    /\ sock = "none" /\ call = "none"
    /\ handled = [by \in Senders |-> 0]
    /\ word = "nothing" /\ refreshed = FALSE /\ mishaps = {}
    /\ count = [asked |-> 0, regs |-> 0, requests |-> 0, reports |-> 0, breaks |-> 0]

-----------------------------------------------------------------------------
(* The application, on the asyncio loop, until it calls close_sipcore *)

\* send_json, for each of the commands.
Put(commands) ==
    queue' = queue \o [i \in DOMAIN commands |->
                          Message(count.asked + i, commands[i][1], commands[i][2], "app")]

Counted(field, asked) == count' = [count EXCEPT ![field] = @ + 1, !.asked = @ + asked]

\* Fault: the account of an earlier registration is not disconnected first.
NoFarewell == << >>

\* Fault: the early return for a number that is not a client is missing.
FarewellToNobody == <<<<"disconnect", client>>>>

\* subscriber_disconnect, as the first step of subscriber_registration.
Farewell == IF client = 0 THEN << >> ELSE <<<<"disconnect", client>>>>

\* subscriber_registration up to its wait; without one it is at its end.  The
\* event of a registration that is still awaited is no longer in reg_events.
Register(wait) ==
    LET new  == count.regs + 1
        puts == Farewell \o <<<<"registration", new>>>>
    IN  /\ ~closing /\ count.regs < MaxRegs
        /\ Put(puts) /\ Counted("regs", Len(puts))
        /\ client' = new /\ view' = "registering"
        /\ dictCommand' = IF client = 0 THEN dictCommand
                          ELSE [dictCommand EXCEPT ![client] = "disconnect"]
        /\ regEvent' = IF wait THEN new ELSE 0
        /\ waiting' = IF wait THEN waiting \cup {new} ELSE waiting
        /\ UNCHANGED <<eventSet, tasks, closing, threadVars, engineVars, mishaps>>

\* It pops the event of the number, be it that of a later registration.
RegistrationReturns(d) ==
    /\ d \in waiting /\ d \in eventSet
    /\ waiting' = waiting \ {d} /\ eventSet' = eventSet \ {d} /\ regEvent' = 0
    /\ UNCHANGED <<client, dictCommand, tasks, closing, view, queue, threadVars, engineVars,
                   mishaps, count>>

\* After ten seconds the client, be it a later one, is forgotten; the engine
\* is not told.
RegistrationTimesOut(d) ==
    /\ d \in waiting /\ d \notin eventSet
    /\ waiting' = waiting \ {d} /\ regEvent' = 0
    /\ client' = 0 /\ view' = "registering"
    /\ mishaps' = mishaps \cup IF client = 0 THEN {} ELSE {"forgotten"}
    /\ UNCHANGED <<dictCommand, tasks, closing, eventSet, queue, threadVars, engineVars, count>>

Request == ~closing /\ client # 0 /\ count.requests < MaxRequests

Disconnect ==
    /\ Request
    /\ dictCommand' = [dictCommand EXCEPT ![client] = "disconnect"]
    /\ Put(<<<<"disconnect", client>>>>) /\ Counted("requests", 1)
    /\ client' = 0 /\ view' = "registering"
    /\ UNCHANGED <<regEvent, waiting, tasks, closing, eventSet, threadVars, engineVars, mishaps>>

\* call, and likewise answer and hang_up.
Call ==
    /\ Request
    /\ dictCommand' = [dictCommand EXCEPT ![client] = "call"]
    /\ Put(<<<<"call", client>>>>) /\ Counted("requests", 1)
    /\ UNCHANGED <<client, regEvent, waiting, tasks, closing, view, eventSet, threadVars,
                   engineVars, mishaps>>

\* device_off and device_on, of a dict of their own.
DeviceSwitch(command) ==
    /\ ~closing /\ count.requests < MaxRequests
    /\ Put(<<<<command, 0>>>>) /\ Counted("requests", 1)
    /\ UNCHANGED <<appVars, view, eventSet, threadVars, engineVars, mishaps>>

\* mute, unmute, micoff and micon: the dict is changed now and sent later.
Switch(command) ==
    /\ Request
    /\ dictCommand' = [dictCommand EXCEPT ![client] = command]
    /\ tasks' = Append(tasks, [id |-> count.asked + 1, dict |-> client, command |-> command])
    /\ Counted("requests", 1)
    /\ UNCHANGED <<client, regEvent, waiting, closing, view, eventSet, queue, threadVars,
                   engineVars, mishaps>>

\* The loop runs the oldest task: send_json copies the dict as it is now.
RunTask ==
    /\ tasks # << >>
    /\ LET task == Head(tasks)
           now  == dictCommand[task.dict]
       IN  /\ queue' = Append(queue, Message(task.id, now, task.dict, "task"))
           /\ mishaps' = mishaps \cup IF now = task.command THEN {} ELSE {"overwritten"}
    /\ tasks' = Tail(tasks)
    /\ UNCHANGED <<client, dictCommand, regEvent, waiting, closing, view, eventSet, threadVars,
                   engineVars, count>>

\* Fault: tcp_thread is told to end at once.
StopsBeforeSending == FALSE

\* close_sipcore leaves it to tcp_thread to end after the command.
StaysUntilSent == startManager

\* close_sipcore, which then waits for the engine's process.
Close ==
    /\ ~closing
    /\ closing' = TRUE
    /\ Put(<<<<"destroy", 0>>>>) /\ count' = [count EXCEPT !.asked = @ + 1]
    /\ startManager' = StaysUntilSent
    /\ UNCHANGED <<client, dictCommand, regEvent, waiting, tasks, view, eventSet, sock, readVars,
                   toEngine, toSdk, engineVars, mishaps>>

-----------------------------------------------------------------------------
(* tcp_thread *)

Connect ==
    /\ startManager /\ sock = "none" /\ running
    /\ sock' = "open"
    /\ UNCHANGED <<appVars, view, eventSet, queue, startManager, readVars, toEngine, toSdk,
                   engineVars, mishaps, count>>

\* Fault: what is said of a client in a call is never about its state.
MaskedAlways(state, current) == current \in InCall

\* A refreshed registration does not end the call the client is in.
Masked(state, current) == state = "registered" /\ current \in InCall

\* What the line says of the client.
Show(state) ==
    /\ view' = IF state = "half" \/ client = 0 \/ Masked(state, view) THEN view ELSE state
    /\ eventSet' = IF state = "registered" /\ client # 0 /\ regEvent # 0
                   THEN eventSet \cup {regEvent} ELSE eventSet

\* recv() has returned a line, and the loop looks at the first one there is:
\* lines that were kept come first.  A line glued to the half of an old
\* connection's is no JSON: the thread connects anew, with the lines, and the
\* half of one, that recv() had returned behind it still in recv_buffer.
Receive ==
    LET state == Head(toSdk)
        last  == IF reading THEN kept ELSE kept + 1
    IN  /\ startManager /\ sock # "none" /\ last \in 1 .. Len(toSdk)
        /\ \/ /\ halfLine /\ state # "half"
              /\ \E i \in last .. Len(toSdk) :
                    \/ toSdk' = SubSeq(toSdk, 2, i) /\ kept' = i - 1
                    \/ /\ i < Len(toSdk) /\ kept' = i
                       /\ toSdk' = Append(SubSeq(toSdk, 2, i), "half")
              /\ halfLine' = FALSE /\ reading' = FALSE
              /\ sock' = "none" /\ mishaps' = mishaps \cup {"missed"}
              /\ UNCHANGED <<view, eventSet>>
           \/ /\ ~(halfLine /\ state # "half")
              /\ Show(state)
              /\ toSdk' = Tail(toSdk) /\ kept' = last - 1
              /\ halfLine' = (state = "half") /\ reading' = (last > 1)
              /\ UNCHANGED <<sock, mishaps>>
        /\ UNCHANGED <<appVars, queue, startManager, toEngine, engineVars, count>>

\* The connection is closed: what was still on the way is lost with it.
Hangup == sock' = "none" /\ toSdk' = SubSeq(toSdk, 1, kept)

\* Of the states only the first n arrive.
Missed(n) == IF n < Len(toSdk) THEN {"missed"} ELSE {}

\* recv() reports the end of the connection.
ReceiveFails ==
    /\ startManager /\ sock = "dead" /\ ~reading
    /\ Hangup /\ mishaps' = mishaps \cup Missed(kept)
    /\ UNCHANGED <<appVars, view, eventSet, queue, startManager, readVars, toEngine, engineVars,
                   count>>

\* Fault: a command that could not be sent is put into the queue once more.
PutBack(messages) == Append(Tail(messages), Head(messages))

\* get_nowait takes the command out for good.
Taken(messages) == Tail(messages)

SendOne ==
    /\ startManager /\ sock = "open" /\ ~reading /\ queue # << >>
    /\ queue' = Tail(queue)
    /\ toEngine' = Append(toEngine, Head(queue))
    /\ startManager' = (Head(queue).command # "destroy")
    /\ UNCHANGED <<appVars, view, eventSet, sock, readVars, toSdk, engineVars, mishaps, count>>

\* sendall() on a broken connection raises, or takes the command unheard.
SendFails ==
    /\ startManager /\ sock = "dead" /\ ~reading /\ queue # << >>
    /\ queue' = Taken(queue)
    /\ \/ /\ Hangup /\ mishaps' = mishaps \cup {"lost"} \cup Missed(kept)
          /\ UNCHANGED startManager
       \/ /\ startManager' = (Head(queue).command # "destroy")
          /\ mishaps' = mishaps \cup {"lost"}
          /\ UNCHANGED <<sock, toSdk>>
    /\ UNCHANGED <<appVars, view, eventSet, readVars, toEngine, engineVars, count>>

\* The connection breaks: of both directions only a part still arrives.
Break ==
    /\ sock = "open" /\ count.breaks < MaxBreaks
    /\ sock' = "dead"
    /\ \E i \in 0 .. Len(toEngine), j \in kept .. Len(toSdk) :
         /\ toEngine' = SubSeq(toEngine, 1, i)
         /\ \/ toSdk' = SubSeq(toSdk, 1, j)
            \/ j < Len(toSdk) /\ toSdk' = Append(SubSeq(toSdk, 1, j), "half")
         /\ mishaps' = mishaps \cup (IF i < Len(toEngine) THEN {"lost"} ELSE {}) \cup Missed(j)
    /\ count' = [count EXCEPT !.breaks = @ + 1]
    /\ UNCHANGED <<appVars, view, eventSet, queue, startManager, readVars, engineVars>>

-----------------------------------------------------------------------------
(* The engine *)

\* A later state makes good what was missed, but for "registered", which does
\* not take a client out of a call.
MadeGood(state) == IF state = "registered" THEN {} ELSE {"missed", "stray"}

\* A call is not ended with its account, and goes on reporting.
Stray(state) == IF account = 0 /\ state # "disconnected" THEN {"stray"} ELSE {}

\* pendingStates.push and, in the same round of the main loop, sendMessage,
\* which drops the state when there is no client; what the SDK is to show.
Say(state) ==
    /\ word' = IF state = "registered" THEN word ELSE state
    /\ refreshed' = (state = "registered")
    /\ IF sock = "open"
       THEN /\ toSdk' = Append(toSdk, state)
            /\ mishaps' = (mishaps \ MadeGood(state)) \cup Stray(state)
       ELSE mishaps' = mishaps \cup {"missed"} \cup Stray(state) /\ UNCHANGED toSdk

\* A command from the queue, by processPendingCommands.
Handle(command) ==
    /\ running /\ toEngine # << >> /\ Head(toEngine).command = command
    /\ toEngine' = Tail(toEngine)
    /\ handled' = [handled EXCEPT ![Head(toEngine).by] = Head(toEngine).id]
    /\ UNCHANGED <<appVars, view, eventSet, queue, startManager, sock, readVars, count>>

\* registerAccount refuses a second account without a word.
AccountIsNew == account = 0

\* registerAccount; Account::create may throw, and nobody is told.
HandleRegistration ==
    /\ Handle("registration")
    /\ \/ /\ AccountIsNew
          /\ account' = Head(toEngine).dict
          /\ UNCHANGED mishaps
       \/ /\ AccountIsNew
          /\ mishaps' = mishaps \cup {"refused"}
          /\ UNCHANGED account
       \/ /\ ~AccountIsNew
          /\ UNCHANGED <<account, mishaps>>
    /\ UNCHANGED <<running, answered, call, word, refreshed, toSdk>>

\* disconnectAccount; the end of the account's call is reported later.
HandleDisconnect ==
    /\ Handle("disconnect")
    /\ account' = 0 /\ answered' = FALSE
    /\ IF account = 0 THEN UNCHANGED saidVars ELSE Say("disconnected")
    /\ UNCHANGED <<running, call>>

HandleDestroy ==
    /\ Handle("destroy")
    /\ running' = FALSE /\ account' = 0
    /\ UNCHANGED <<answered, call, saidVars>>

\* makeCall answers at once to a call without a number or server, account or
\* not; what becomes of a call is Report.
HandleCall ==
    /\ Handle("call")
    /\ Say("disconnected") \/ UNCHANGED saidVars
    /\ UNCHANGED <<running, account, answered, call>>

HandleOther ==
    /\ \E command \in Switches \cup DeviceSwitches : Handle(command)
    /\ UNCHANGED <<running, account, answered, call, saidVars>>

\* The registrar answers, now or to a refreshed registration.
ReportAccount(state) ==
    /\ state \in {"registered", "failed"} /\ account # 0
    /\ answered' = TRUE /\ UNCHANGED call

\* A call of the account, or one that has outlived its account.
ReportCall(state) ==
    /\ state \in CallStates /\ (account # 0 \/ call = "up")
    /\ call' = IF state = "disconnected" THEN "over" ELSE "up"
    /\ UNCHANGED answered

\* The file played in a call has come to its end, perhaps after the call.
ReportFileEnd(state) ==
    /\ state = "streaming" /\ call # "none"
    /\ UNCHANGED <<answered, call>>

Report(state) ==
    /\ running /\ count.reports < MaxReports
    /\ ReportAccount(state) \/ ReportCall(state) \/ ReportFileEnd(state)
    /\ Say(state)
    /\ count' = [count EXCEPT !.reports = @ + 1]
    /\ UNCHANGED <<appVars, view, eventSet, queue, startManager, sock, readVars, toEngine, running,
                   account, handled>>

-----------------------------------------------------------------------------

App ==
    \/ \E wait \in BOOLEAN : Register(wait)
    \/ \E d \in Dicts : RegistrationReturns(d) \/ RegistrationTimesOut(d)
    \/ Disconnect \/ Call
    \/ \E command \in DeviceSwitches : DeviceSwitch(command)
    \/ \E command \in Switches : Switch(command)
    \/ RunTask \/ Close

TcpThread == Connect \/ Receive \/ ReceiveFails \/ SendOne \/ SendFails

Engine ==
    \/ HandleRegistration \/ HandleDisconnect \/ HandleDestroy \/ HandleCall \/ HandleOther
    \/ \E state \in Reports : Report(state)

Next == App \/ TcpThread \/ Break \/ Engine

\* tcp_thread goes round its loop: every round reads what there is and sends
\* one command, unless the connection fails.  The engine's main loop works on
\* the commands it has.  The application and the registrar owe nothing.
Fairness ==
    /\ WF_vars(Connect) /\ WF_vars(Receive) /\ WF_vars(ReceiveFails) /\ WF_vars(SendOne)
    /\ WF_vars(HandleRegistration) /\ WF_vars(HandleDisconnect) /\ WF_vars(HandleDestroy)
    /\ WF_vars(HandleCall) /\ WF_vars(HandleOther)

Spec     == Init /\ [][Next]_vars
FairSpec == Spec /\ Fairness

-----------------------------------------------------------------------------
(* Properties *)

\* Nothing is on its way, in either direction, but for what recv_buffer keeps.
Quiet ==
    /\ tasks = << >> /\ queue = << >> /\ toEngine = << >>
    /\ ~reading /\ Len(toSdk) = kept

\* The engine works on commands in the order in which the application called
\* for them, and on none twice, through failed sends and new connections; only
\* a mute or its like may come late, since a task puts it into the queue, and
\* what it says by then is another matter (MuteIsSent).
CommandsOnceInOrder ==
    LET pending == toEngine \o queue
    IN  /\ \A i \in DOMAIN pending :
              /\ handled["task"] < pending[i].id
              /\ handled["app"] < pending[i].id \/ pending[i].by = "task"
        /\ \A i, j \in DOMAIN pending :
              i < j => \/ pending[i].id < pending[j].id
                       \/ pending[i].by = "app" /\ pending[j].by = "task"

\* When all is quiet the engine's account is the one the SDK believes in, made
\* from the data of the last registration, and there is none if the client has
\* been disconnected: unless one of the named mishaps has happened.
AccountsMatch ==
    Quiet /\ running /\ mishaps \subseteq {"missed", "stray"} => account = client

\* A call that is not over; of "calling" and "connecting" the SDK's tuple
\* does not know.
InACall == {"calling", "incoming", "ringing", "connecting", "confirmed", "streaming"}

\* When all is quiet a client's current_state is the engine's last word about
\* the number.  A "registered" counts unless the client is in a call that is
\* not over: calls that are only "calling" or "connecting" are lost to it.
\* While nothing has been said of this account it is "registering".  So it is
\* again, after a state was missed, as soon as a later one arrives.
ViewIsLastWord ==
    Quiet /\ running /\ mishaps = {} /\ client # 0 =>
        \/ view = word /\ (refreshed => word \in InACall)
        \/ view = "registered" /\ refreshed
              /\ word \notin InACall \ {"calling", "connecting"}
        \/ view = "registering" /\ ~answered /\ ~refreshed
              /\ word \in {"nothing", "disconnected"}

HasDestroy(messages) == \E i \in DOMAIN messages : messages[i].command = "destroy"

\* After close_sipcore its "destroy" waits in socket_queue as long as
\* tcp_thread goes on, and is with the engine once tcp_thread has left its
\* loop, until the engine has ended: through failed sends and new
\* connections, unless a command was lost on a broken one.
CloseIsOnItsWay ==
    closing /\ "lost" \notin mishaps =>
        IF startManager THEN running /\ HasDestroy(queue) ELSE running => HasDestroy(toEngine)

\* close_sipcore ends the engine and tcp_thread, whatever connections break,
\* unless a command was lost on a broken one.
CloseEnds == closing ~> (~running /\ ~startManager) \/ "lost" \in mishaps

(* A statement of the documentation that the code does not keep *)

\* API.md: "mute" disables audio input or output for the current call.  Here:
\* what the task of a mute puts into the queue is that mute.
MuteIsSent ==
    [][tasks # << >> /\ tasks' = Tail(tasks) =>
          Last(queue').command = Head(tasks).command]_vars

=============================================================================
