# TLA+ models of NetSIPCore

NetSIPCore is a SIP engine in a process of its own: an application connects over
TCP, sends commands as lines of JSON and receives the states of its accounts and
calls. These modules model the engine's logic between the two libraries it
stands on (the system's sockets and PJSIP), TLC checks them on small instances,
and TLAPS proves every invariant that the runs check for every instance.

## The system

| Part | State | Operations |
|---|---|---|
| `TCPServer` (`src/tcp`) | `serverSocket`, `clientSocket` under `clientMutex`, `running`, the receive buffer | the server thread (accept, receive, cut into lines), `sendMessage` and `stop` on the main thread |
| `Json` (`src/utils`) | none | `parse` cuts the known keys out of a line |
| `SIPCore` (`src/SIPCore.cpp`) | `accounts`, `calls`, `deviceStates`, the queues `pendingCommands`, `pendingStates`, `pendingCallRemove`, `initialized`, `nullDev`, `nextPort` | `handleTcpMessage` on the TCP thread; the main loop `libHandleEvents`, `processPendingCommands`, `processPendingStates`, `processPendingCallRemove`; `destroy` |
| `SIPAccount` (`src/sip`) | its callbacks | `onRegState`, `onIncomingCall` |
| `SIPCall` (`src/sip`) | `currentState`, `currentMediaState`, the media pointer, the microphone and speaker flags | `onCallState`, `onCallMediaState`, `setMicrophoneState`, `setSpeakerState`, `playAudio` |
| `RTPPlayer` (`src/utils`) | `playing`, `currentTarget`, `player`, `finishedCallback` | `play`, `stop`, the player's `onEof2` |
| `InfoModule` | none | answers every INFO with 200 |
| Python SDK (`python/netsip`) | `clients`, `reg_events`, `socket_queue`, the audio manager's flags | asyncio calls of the application, `tcp_thread`, `audio_manager_thread` |

How they interact:

- **Application to engine**: a line arrives on the TCP thread, is parsed and
  appended to `pendingCommands`; the main loop takes the whole queue and works
  it off, one command at a time.
- **Library to engine**: PJSIP's worker thread and the main thread (inside
  `libHandleEvents`) call back `onRegState`, `onIncomingCall`, `onCallState` and
  `onCallMediaState`; PJMEDIA's event thread calls `onEof2`. All of them append
  to `pendingStates` under `pendingMutex`; the end of a call also appends its
  username to `pendingCallRemove`.
- **Engine to application**: the main loop takes `pendingStates` and sends each
  state as a line; afterwards it takes `pendingCallRemove` and erases the calls.

What is hard about it: three queues that are swapped at different moments of the
loop and must still tell one story; a table of calls keyed by username, into
which the library's threads write while the main thread works on a copy of an
entry; players and media pointers shared by three threads, partly without
locks; locks held while the library is called; a client socket closed by two
threads; a shutdown in the middle of all that. `PROJECT.json` lists each hazard
with its line, and the property that watches it or why there is none yet.

What makes each part correct:

- *Core*: no live call loses its place in `calls`; a "disconnected" the client
  has seen leaves the account free; reports arrive in order, one call at a time;
  every end is told; a hung-up call goes.
- *TCP server*: commands whole and in order; a lost client makes room for the
  next one; `stop` ends.
- *Call media*: a device's state, as last commanded, is what the call does; a
  call has devices that work; what the client hears of the media is true.
- *Playback*: one file at a time, its end reported, no call held up.
- *SDK*: its view of a client agrees with what the engine last said, and its
  clients with the engine's accounts; commands arrive once and in order.
- *Texts*: the other side reads what was meant, whatever characters are in it.

## The modules

### SIPCore, CallSlot

`SIPCore` models the core. Its variables have the names of the code's members.
`pc` is where the main thread is in an iteration:

| `pc` | code |
|---|---|
| `commands`, `dispatch` | `processPendingCommands` before and inside its loop |
| `shutdown` | `disconnectAccount` after the hangup |
| `makecall` | `makeCall` between `setupCall` and `Call::makeCall` |
| `calling` | inside `Call::makeCall`, which holds PJSUA's lock, up to its callback |
| `send`, `erase` | the loops of `processPendingStates` and `processPendingCallRemove` |
| `hangup_all`, `draining`, `cleared`, `destroyed` | `destroy` |

One action is one critical section, or one stretch of a handler that other
threads cannot see into. The library's callbacks (`OnRegState` ...
`PushRemove`) are enabled at any moment, also between two steps of a command.
`stateCallback` at the end of a call is two actions, `OnDisconnected` and
`PushRemove`: the state is visible before the removal is, though not before
`pendingMutex` is released, which the variable of that name represents. The lambda
that `send_audio` leaves for the end of a file is two actions as well, `OnEof` and
`Streamed`: it holds `pendingMutex` (as `Player`) while it asks the library for the
remote URI, which needs PJSUA's lock. `makeCall` and `onIncomingCall` hold that lock
when they call back and wait for `pendingMutex` (`LibraryLocked`): the two may wait for
each other for ever (`CircularWait`). `SendState` is the blocking `send` to the client.

Data is abstracted to what control depends on: a call is the identity of one
`SIPCall` object, used once; a command is its name, its user and whether a number
and a server are given; a state is its user, its name and, as a history, the
call it is about. What a message says besides (media state, remote number) does
not steer the core. The variables `told` and `toldDown` are histories of what the
client has been sent.

The library is assumed to behave as follows: a call's states only move forward,
its DISCONNECTED is reported once, callbacks of one call do not overlap, the
callback for CALLING comes inside `makeCall`, a `makeCall` that throws has
reported nothing, and no callback comes after `libDestroy`.

`CallSlot` is the abstract specification of the table: one slot per account, taken
only while empty and before the engine has gone, emptied only when its call is over,
could not be started or is swept away by the shutdown. It is a specification of
safety; that slots are emptied is `HangupFreesAccount`. `SIPCore` implements it
under the mapping at the end of the module (a call is *over* when it is
disconnected, rejected or failed, and *used* once it has been stored).

### TcpServer

The server thread (`serverPc`), the main thread (`mainPc`), the clients, and
the descriptors of the system, which are used again once closed: that is what
makes the copies of `clientSocket`, used after the unlock, dangerous. A command
travels in two fragments, and `recv` returns any number of those sent, so that
a command can be cut anywhere and several can arrive at once. `socket`, `bind`
and `listen` are one step that succeeds or fails. The histories `received` and
`handled` record what was read and which lines went to `onMessage`.

`full` names the connections whose buffers hold as much as they can, after any
number of sends: there `send` blocks until the client reads (`Read`) or is gone. Then
the main loop stands still, SIP and all, for as long as the client pleases; what the
code does guarantee is that nothing else does. `sendMessage` sends after it has
unlocked `clientMutex`, so the server thread still receives (`CommandsAreReceived`),
and a client that sends and does not read, as the SDK's `tcp_thread` while it is in
`sendall`, never waits for an engine that waits for it. `SendReturns`: no send
outlives its connection. A client accepted while `stop` runs is left open, as `stop`
has closed the last one already; the process is about to end.

### CallMedia

One account, its calls, the devices (microphone and speaker, handled alike) and
the sound devices behind them. A `mute` or `unmute` is four steps on the main
thread, each under another lock: `deviceStates`, the lookup, the call's flag with
the copy of the media pointer, and the connection. The worker's callbacks are
lists of steps (`workerTodo`). `port` and `connected` are the conference bridge.

`device_on`, `device_off` and `ensureAudioDevice` (`SetAudioDevice`,
`SetNullAudio`, and the first half of `AnswerCall`) choose between the real sound
devices and PJSIP's null device; `nullDev` is what the code believes, `selected`
what the library uses, `present` what is plugged in, and `listed` what the library
has in the list that it makes at its start and in `refreshDevs`, which only
`device_on` calls. `ensureAudioDevice` looks at the list (`DeviceIsFine`): a device
that has gone since is found there, but does not open (`Usable`). Every call into the
library may fail, half-way too. `deviceLost` is a history: a device in use was pulled
out, during a call or before it (the code watches for neither), or the null device
itself could not be set; it is over when the devices are selected while no call is
up. What is claimed of devices is claimed while it is false.

`MediaState`, `SendState`, `PublishMediaState` and `ReportMedia` are the way of a
media state to the client. It is written on the worker without a lock, pushed as
a report, and read again when the report is sent, unless the report is a
"disconnected", which goes out with the "inactive" it was pushed with; a read during
the write may see anything ("torn"). All reports of the account are there: of a
change of the media, of the call's states (`ReportCallState`), of its end
(`QueueRemoval`), of a registration or the end of a file, with an empty media state
(`ReportOther`), and the "disconnected" of `makeCall` without a number or a server and of
`disconnectAccount`, which are about no call (`ReportDisconnected`). Only the last one is
kept (`lastReport`), as what earlier ones say is soon overwritten at the client.

### Playback

One call, its player, and the four threads that meet there. The main thread
follows `RTPPlayer::play` statement by statement because nothing in it is locked;
the worker's callbacks are lists of steps (`Callback`); the event thread follows
`onEof2` and the lambda that `send_audio` gave it. `crashed` is the state after a
null target was dereferenced or an exception left the event thread. A player
destroyed while the event thread is inside its callback is undefined behaviour:
the model lets the process die or go on.

`pendingMutex` is held by the event thread exactly when `eventPc = "query"`, and
PJSUA's lock by the main thread exactly when `mainPc = "calling"`. That PJSUA holds
its lock over the CALLING callback of `makeCall`, and takes it to answer
`getInfo`, is an assumption about the library. It makes the state `CircularWait`
reachable, which the properties except by name.

### JsonCommand

`Json::parse`, and the text that `sendState` builds with `escapeJson`, as
operators on sequences of characters, in a machine that sends one text and reads
it. The other side is the SDK's `json.dumps` and `json.loads`, modelled by what
they do to a character. A key's name, `sip:` and four hexadecimal digits count as
one character each; one letter stands for all that is not ASCII. Of the control
characters the line feed stands for those whose escapes both sides know (`\n`, `\r`,
`\t`), the form feed for those with a letter that `extract` does not decode (`\f`,
`\b`), and one more for those that are written as `\u` and four digits. `FieldsAsSent`
excepts values with a character that `extract` misreads (`Misread`) and values that look
like a key (`LooksLikeKey`); the SDK reads every state as it was meant.

The order of the tests in the two loops is the point of `ReadChar` and `LoadChar`:
a character after a backslash is taken before it is looked at, whatever it is. Of a
remote URI the state has what is between the first `sip:` and the next `@`.

### SdkSession

The Python SDK and the engine it controls, for one number. The application's
coroutines run on the asyncio loop, one action up to each real suspension: a
registration is `Register`, then `RegistrationReturns` or, after ten seconds,
`RegistrationTimesOut`; `mute` and its like change the client's dict at once and
leave the sending to a task (`Switch`, `RunTask`). Registrations may overlap: the
timeout of one pops whatever client the number has by then. A command carries, as a
history, the number of the application's call that asked for it (`id`, counted when
the call is made, not when a task gets to put it into the queue) and which of the two
queued it (`by`).

`tcp_thread` is `Connect`, `Receive`, `SendOne` and their failures. A connection may
break at any point in both directions, in the middle of a line too (`Break`). The
half of a line stays in `recv_buffer` (`halfLine`) and makes the next connection's first
line unreadable; whole lines that `recv` had returned behind that one are kept (`kept`)
and looked at when the next line comes. Each `registration` puts a new dict into
`clients`; the dict's number tells whose data the engine's account was made from.

Of the engine only what decides about its account and its reports is kept: its queues
and calls are `SIPCore`, its sockets `TcpServer`. It may say any state the code has a
word for (`Words`): of the registration while there is an account, of a call even after
the account has gone (`disconnectAccount` does not end it), of the end of a file even
after the call.

`mishaps` is a history of what goes wrong without the code noticing. The
properties hold but for these six, which the model reaches:

| Mishap | What happens |
|---|---|
| `forgotten` | a registration times out in the SDK, the engine keeps the account |
| `overwritten` | a task sends another command than its own |
| `lost` | a command is taken from the queue and does not reach the engine |
| `refused` | `Account::create` throws in the engine, and nobody is told |
| `missed` | a state is sent while no client is connected, or is lost on the way; it is over once the next state that is not "registered" is sent to a client |
| `stray` | a call or a file reports after its account has gone, and the next account of that name hears it; over like "missed" |

## The runs

Every passing run ends without an error and covers all reachable states of its
instance. A run marked *finding* shows that the code does not keep a statement of
the documentation, which `PROJECT.json` quotes.

| Run | Instance | Shows |
|---|---|---|
| `core_one` | 1 account, 2 calls, batches of 2 commands, without `hangup` | `EraseFindsEndedCall`, `FreeOnceDisconnectedIsTold`, `OneCallInClientView`, `ReportsInOrder`, `OneRemovalEach`, `EndIsOnItsWay`; `CallSlot` is implemented |
| `core_two` | 2 accounts, 2 calls, `registration` and `call` | the first and the fourth of them, of two accounts at work at once |
| `core_live` | 1 account, 1 call, 2 reports, with `hangup`, fair | `HangupFreesAccount`, `EndIsTold`, unless the main thread stops for good (`MainStops`) |
| `core_failure` | 1 account, fair | *finding*: a call that cannot be started is not reported |
| `tcp_server` | 2 connections, 2 descriptors, 2 commands each, fair | `AcceptFindsNoClient`, `CommandsWholeAndInOrder`, `OpenDescriptorsAreKnown`, `StopLeavesNoWait`, `WaitingClientIsServed`, `StopEnds`, `CommandsAreReceived`, `SendReturns` |
| `tcp_lost` | 2 connections | *finding*: a failing send closes the next client |
| `media_mute` | 2 calls, 3 events: media or sound devices come or go | `CallFollowsAccount`, `UnmutedIsConnected`, `CallHasDevices`, `ToldMediaIsTrue` |
| `media_race` | 1 call | *finding*: muted, yet connected |
| `play_files` | 3 files, 4 media changes, other accounts' calls, fair | `NotCutOff`, `EndOfFileIsTold`, `CallbackEnds` |
| `json` | all values up to 3 characters of an alphabet of 10, commands of 1 or 2 fields | `OneLine`, `FieldsAsSent`, `StateAsSent` |
| `sdk` | 2 registrations, 1 other request, 2 free reports of 3 kinds, 1 broken connection, fair | `CommandsOnceInOrder`, `AccountsMatch`, `ViewIsLastWord`, `CloseIsOnItsWay`, `CloseEnds` |
| `sdk_mute` | 1 registration, 2 other requests | *finding*: a mute is sent as another command |

More disagreements between code and documentation, or within the code, showed
while modelling. They can be followed in the models; no run is kept for them.

In the core and its calls:

- "disconnected" is pushed although the account is still busy. `SIPCore`:
  `disconnectAccount` reports it before the call that it hung up has left the
  table (`src/SIPCore.cpp:358`), and `makeCall` for an empty number while another
  call is up (`:462`, `:483`); the next "call" is then refused without a word.
  `docs/STATE_MACHINE.md:153` says the account can be used again.
- A `mute` stays in `deviceStates` and is applied to every later call of the
  account, while `docs/API.md:136` speaks of "the current call" (`CallMedia`).
- The end of a file that has been read just before the call ended is pushed as
  "streaming" after the call's "disconnected" (`Playback`: `EofReport` after the
  callback's report).
- When a short file ends between `startTransmit` and `playing = true`, `playing`
  stays set with no file being read, and every `send_audio` is refused until a
  callback stops the player (`Playback`: `SetPlaying` after `EofPlaying`). For this
  reason no property says that a call that is not playing accepts a file.
- `stop` on one thread resets `currentTarget` between the two statements of `play`
  on another that set and dereference it: the process dies (`Playback`:
  `crashed`).
- The lambda at a file's end asks the library with `pendingMutex` held, while
  `makeCall` holds the library's lock and waits for `pendingMutex` (`Playback`:
  `CircularWait`).
- A sound device is pulled out, then a call is answered: `ensureAudioDevice` finds it in
  the library's list, so the null device is not chosen and the call has no sound until
  `device_on` (`CallMedia`: `Plug`, `AnswerCall`, `FindMedia`).
- `nullDev` stays TRUE when `setAudioDevice` has set one of the two real devices
  and fails at the other, and `setNullDev` then fails too (`CallMedia`:
  `SetAudioDevice`, third alternative).

In the SDK (`SdkSession`):

- A second attempt after a timeout: `Register`, `RegistrationTimesOut`,
  `Register`, and the engine's `HandleRegistration` twice. The second one is
  refused as "already registered" without a word, so the new client stays at
  "registering" until the registrar's answer to the first happens to come.
- Of two registrations of a number that overlap, the timeout of the first pops the
  client of the second: `Register`, `Register`, `RegistrationTimesOut(1)`.
- A registration that is refreshed while a call is "calling" or "connecting" makes the
  client look "registered" in the middle of its call: the tuple at `netsip.py:352` has
  neither. `ViewIsLastWord` names the two.
- A call goes on after `disconnectAccount` and is reported under its number, which may
  have been registered anew: `Register`, `Report("incoming")`, `Disconnect`, `Register`,
  `Report("confirmed")` before the engine has the second registration (mishap `stray`).
- A "registered" of an earlier registration that is still on its way sets the
  event of the new one (`netsip.py:361`): `Register`, the registrar's answer,
  `Register` again, `Receive`, `RegistrationReturns`, and the registrar has not
  seen the new one.
- A task that runs late can send "disconnect" a second time, after the number was
  registered anew: `Register`, `Switch`, `Register`, `RunTask`. The engine drops
  the account that the client has just been given.
- A "destroy" that is lost with a connection leaves `close_sipcore` waiting for a
  process that does not end: `Close`, `Break`, `SendFails`.

In the texts (`JsonCommand`):

- `docs/API.md:11` promises UTF-8, which a client need not write as it is:
  `json.dumps` writes a character that is not ASCII as `\u` and four digits, and
  `extract` reads them as the letter u and the digits (`src/utils/Json.cpp:75`).
  `\b` and `\f` are read as b and f, and the other control characters like what is not
  ASCII.
- A value that is the name of a key, or ends in a quote and one, is taken for the
  key.
- Text that is no JSON is accepted as long as the keys can be found in it, while
  `docs/JSON.md:126` says that malformed JSON is ignored. The model has no such
  texts.

### Bounds

- *Calls* bounds the calls ever made; an account needs two of them for the
  interesting cases (a late removal of the first meets the second). With two
  accounts and two calls the calls can belong to different accounts.
- *MaxCommands* = 2 (`core_one`) lets one batch hold a command that acts on what the
  previous one did. `core_live` has one call, whose end and removal are all that its two
  properties are about. `CommandsArriveInTime` (an action constraint of `core_one`,
  `core_two` and `core_live`) lets commands arrive only right before they are taken; nothing
  looks at `pendingCommands` earlier, so no behaviour of the rest is lost.
- *MaxStates* bounds only the reports a call or an account may give freely; ends
  of calls, "ringing" and the main thread's own reports are never held back.
- *Conns*: the second connection is the one a late error may hit, the one that
  waits meanwhile, and the one that must not see what is left of the first one's
  bytes. Two commands in four fragments can be cut in every way.
- *MaxMedia* = 3 (CallMedia) or 4 (Playback) allows a hold and its end, and the
  end of the call. *MaxPlugs* = 2 lets a device be pulled out and plugged in again.
  `FewEvents` (an action constraint of `media_mute`) allows three events of the two
  kinds together; two changes of the devices only while all devices are on; no command
  and no media while `deviceLost` lasts, as no property says anything of devices then;
  and where devices change, only reports of the call, since what is told of the media
  does not depend on the devices. The proofs have none of these limits.
- *MaxRegs* = 2 and *MaxBreaks* = 1 (SdkSession): the registration that timed out,
  or whose connection broke, and the next one. *MaxReports* = 2 bounds what the
  engine says by itself, not its answers. *Reports* has three of the states: one of the
  registration, one of a call and the end of a file; the theorems are about all of
  them.
- *JsonCommand*: what one character does to the parsers depends on its neighbours;
  three characters hold an escape and what follows it, two fields a key and a value
  that looks like it. The alphabet has each character that either side treats in a
  way of its own. Longer values add no case that the code tells apart.
- *MaxFiles* = 3: the old file whose end is late, the new one, and one more.
- Symmetry is used for users, calls and devices, in runs of safety properties
  only.

Deadlock is checked except where everything may come to rest for good. In
JsonCommand the one text has been read; in SdkSession the process has ended after
`close_sipcore`. In Playback the call has ended, the process has died, or the locks
are taken crosswise; `EndOfFileIsTold` and `CallbackEnds` except the last two by
name (`crashed`, `CircularWait`).

### Fairness

- `SIPCore`: nothing is assumed of `SendState`, which waits for the client to read. The
  rest of the main loop (`MainWork`) and the end of `onIncomingCall` have strong fairness:
  they wait for `pendingMutex`, which others take again and again, but with the seconds of
  a file or of signalling in between. Who holds `pendingMutex` goes on (weak fairness of
  `PushRemove` and `Streamed`), the lambda only while PJSUA's lock is free. A call that was
  hung up ends, by SIP's timers: strong fairness, as its callback waits for the mutex,
  too. Commands and other callbacks need never come. `HangupFreesAccount` and `EndIsTold`
  say "or the main thread stops for good" (`MainStops`): for ever in `send`, or for ever in
  the circular wait.
- `TcpServer`: weak fairness of the server thread, whose calls return once they
  can, and of a send (while there is room for it) or a stop the main thread has begun.
  Clients owe nothing, not even to read.
- `Playback`: the threads go on, a file that is read ends, and its end reaches
  the event thread.
- `SdkSession`: weak fairness of `tcp_thread` (it connects again, reads, and takes
  commands from its queue) and of the engine, which handles what it has received.
  That assumes an engine that listens (its `bind` succeeded) and whose main loop is not
  stopped as above; the SDK reads while it is connected, so no `send` blocks for good.
  The application, the registrar and the event loop's tasks owe nothing.

## Proofs

`SIPCoreProofs`, `SIPCoreOrderProofs`, `TcpServerProofs`, `CallMediaProofs`,
`PlaybackProofs`, `SdkSessionProofs`, `SdkViewProofs` and `JsonCommandProofs` prove
every invariant that a passing run checks, and the action properties among their
properties, for all users, calls, files, connections, texts and bounds. The
assumptions are named in the modules:

- the absent values differ from the present ones (`NoneAssumption`);
- the known command names (`CommandAssumption`), what states there are
  (`ReportAssumption`), and that the SDK's mutes and `device_off` are not its other
  commands (`SwitchAssumption`);
- there are two devices at most (`DevicesAssumption`), bounds are numbers
  (`BoundAssumption`);
- the texts' characters include those that the code writes and looks for
  (`CharsAssumption`), no key's name is a bracket, a quote, a colon, a comma or a
  backslash (`KeysAssumption`), a command is a dict, so that it has no key twice
  (`CommandsAssumption`), and a state has the five fields of `sendState`
  (`StatesAssumption`).

**SIPCore.** `Invariance` proves an inductive invariant `IInv`; the others follow:

- `TypeCorrect`: the types.
- `EraseIsSafe`: a removal always finds an ended call of its user.
- `FreeWhenTold`: no command meets a call whose end the client has been sent.
- `OneRemovalPerEnd`: a user whose call in the table has ended has exactly one
  removal on the way, and any other user none. This is what makes
  `HangupFreesAccount` true, as far as no fairness is needed.
- `TableIsCallSlots`: `SIPCore` implements `CallSlot`.

None of the properties is inductive. What has to be added is where a call that
has ended can be: as long as it is in the table, exactly one removal of its user
is on the way (in `pendingCallRemove`, in `localRemove`, or about to be pushed by
the holder of `pendingMutex`), all removals on the way are of different users,
and a removal on the way means the user's call has ended. For `FreeWhenTold` it
is added that an end waiting in `pendingStates` or `localStates` has its removal
queued no later than the states are taken: a state that is sent was taken under
`pendingMutex`, so the callback had already pushed the removal, and the main loop
takes the removals after the states. The proof goes action by action; the
lemmas about sequences say which entries an append or a tail leaves.

**SIPCore, the order of reports.** `OneCallIsSeen` and `ReportsMoveForward` speak of
what the client is told, one report after the other. `SIPCoreOrderProofs` looks at
the two state queues as one, `localStates` followed by `pendingStates`, and gives
each report of a call a rank. The invariant (`OrderInv`) says that what was told has
no higher rank than what waits, and that no higher rank than the call's status
(`RankInv`); that the end of an ended call waits there or was told (`EndInv`); that
before a report about a call comes the end of every call of its user that was
reported earlier, until the shutdown (`TurnInv`); and that states are in `localStates`
only while they are being sent (`BatchInv`). `TurnInv` is what a swap of the queues
at the wrong moment, or a state pushed before its time, would break.
`EndsAreNotDropped` is the safety half of `EndIsTold`: until the end of a call has
been told it waits in one of the queues.

**TcpServer.** `AcceptWithoutClient`: `accept` is only called while there is no
client, so the branch of `run` that turns a second client away is dead code; a
second client waits in the backlog. The invariant adds that at the loop's
condition a client may still be stored, but only when `running` is already false.

`TypeCorrect` and `CommandsArriveWhole` need to know what the receive buffer holds.
In the inner loop there is a connection and a number n such that the first n
commands of the connection have been handled and no others of it, and the buffer
holds exactly what it sent after them (`BufferHolds`, `HandledUpTo` in `SessionInv`).
The descriptor the server thread works on is that connection's until it is closed,
by either thread, and is not another's while the thread is in the loop, as only this
thread accepts. A connection that waits in the backlog is unknown to the server
(`BacklogInv`, `HandledInv`), so a new session begins with n = 0 and an empty buffer.

`NoDescriptorLeaks` and `StopFreesServerThread` are about who closes what. A
descriptor is open exactly if it is `clientSocket` or the one just accepted
(`DescriptorInv`): whichever thread closes the client's also forgets it, and `Store`
finds nothing to overwrite because of `AcceptWithoutClient`. `stop` sets `running` to
false and closes both sockets before it waits in `join`, so the server thread is then
in `accept` only with a closed socket, and in `recv` only with no client left
(`StopInv`). A client accepted after that is stored, but the thread looks at `running`
before it receives anything from it.

**CallMedia.** `Invariance` proves the inductive invariant `IInv`, and from it come
all five invariants that `media_mute` checks: `TypeCorrect`, `CallFollows`,
`UnmutedIsHeard`, `DevicesAreThere` and `TruthIsTold`.

Three of them only speak of moments of rest, and say nothing of what is going on
between; the invariant has to.

- *What the worker has left to do* (`WorkerInv`) is one of a dozen lists (`Shape`),
  the rests of the few lists it can begin with. Each decides what the call's status
  and the table may be.
- *A device that is on* (`HeardInv`): in a call with media it is connected, or a
  thread is about to see to it. `MainWill` and `WorkerWill` say which: the main
  thread holds the media pointer and the order to connect, or the worker has yet to
  apply the account's states, or to check that very device, or has checked it and
  found it on. The mute that comes between check and connection is the finding of
  `media_race`; it leaves a device connected that is off, never the other way.
- *A call follows its account* (`FollowInv`): the flags are those of `deviceStates`,
  or the worker has yet to apply them, or the difference is the one device of the
  command that the main thread is at.
- *What the client was told* (`ToldInv`) is true, or a report is still to come, or a
  command's "disconnected" was the last one.
- *Devices* (`DeviceInv`): unless one was lost, a real device that is selected and in the
  list is there, `nullDev` says that the null device is selected, and during a call all
  devices open.

The exceptions are part of what is proved: `UnmutedIsHeard` and `DevicesAreThere` say
nothing once a device in use was pulled out, before the call or during it, and
`TruthIsTold` nothing after a "call" without a number or a "disconnect" has told the client
"inactive", until the next report.

**Playback.** `FilesAreNotCutOff`: one `send_audio` never cuts off the file of another.
`playing` alone does not say that a file is being sent: it is set after the
transmission has begun and cleared by the event thread some time after the end. So
the invariant (`OneFileLive` in `LiveInv`) counts a file as live from the start of its
transmission until `onEof2` has cleared `playing` (`Live`). A callback that stops the
player clears `playing` under the files that are live then: they become `unguarded`, a
history. When the end of such a file is handled late it clears `playing` once more, now
under the file that is live by then, which becomes `unguarded` in its turn. Of the other
live files there is one at most, there is none while the main thread prepares another,
and `playing` is set for it whenever the main thread could begin to. What the event
thread is busy with has been read (`EventInv`); a player that is not yet told to
transmit is idle (`MainInv`). So the theorem holds again for the files that are played
after a callback has stopped the player, once the ends of the earlier ones are through.

**SdkSession.** The commands that `tcp_thread` has yet to send and those on their way
are seen as one sequence, `Pending`: sending moves a command within it and changes
nothing.

- `CommandsComeInOrder`: of the commands that the application's calls put into the queue
  the ids grow along `Pending`, beginning above that of the one the engine worked on last;
  so do those of the tasks' commands. Only a task's command may come behind one that was
  asked for later (`IdInv`). A send that fails or a connection that
  breaks takes a piece out of the middle, which keeps the order. What a late task sends
  is what the dict says by then: the finding of `sdk_mute`.
- `AccountsAgree`: what the SDK believes is what the last pending "registration" or
  "disconnect" says or, if none is pending, the engine's account (`LastDecides`). This
  alone is not inductive, as the engine refuses a registration silently when it has
  an account: `NoSecondAccount` adds that of these commands the one before a
  registration is a "disconnect", or that there is none before it and no account.
  `subscriber_registration` sees to it by disconnecting the client it replaces. Both
  hold while the engine runs and nothing but "missed" and "stray" is among the mishaps.
- `ClientsShowLastWord` (`SdkViewProofs`): the SDK shows what the engine said
  last. `Leads(v, states, w)` says that a client that shows v shows w when the
  states have been read: the last one that is not "registered", or "registered" if
  one follows it and the client is not in a call. The invariant (`ViewInv`) is that
  the states on their way lead the client to the engine's last word or, as long as
  nothing has been said of its account, to that or to "registering"; and that
  whatever is on its way about an account that has been deleted is followed by its
  "disconnected" (`Farewells`), so that it cannot make a new client look registered
  for good; what a call says after that is the mishap "stray". The word may be any
  state that the engine reports: where it is "calling" or "connecting", a
  "registered" that follows is shown instead, which the property says. `KeptInv`
  adds that lines kept in `recv_buffer` are followed by others unless a state was
  missed. The proof also needs that commands and tasks are about registrations that
  have been made (`KnownInv`). What is lost with a connection is the mishap
  "missed"; the next state that is not "registered" leads to the same word from
  wherever the client is, and heals it.
- `CloseStaysOnItsWay` (`SdkViewProofs`): once `close_sipcore` has been called, its
  "destroy" is in the socket queue while `tcp_thread` goes on, and with the engine
  when it does not, unless a broken connection took it, with the mishap "lost".
  `CloseInv` adds that nobody else asks for the end, and that it ends the loop of
  `tcp_thread` to send it.

**JsonCommand.** `LinesAreWhole`, `StatesArriveAsSent` and `CommandsArriveAsSent`: what
the two sides write and read, for texts of any length. The state machine's part is
small (`PhaseInv`: the text is that of what was sent, what was read was read from the
text); the rest is about its operators, which fold over texts.

- *Induction.* The library's theorems of induction take an operator. `Induction` is the
  same of sets of numbers, from the well-foundedness of `<`; a fact about all lengths
  is proved of the set of the lengths that have it.
- *Folds.* `FoldExists` and the lemmas after it show once what `FoldLeft` is: there is a
  sequence of states, a `Run`, each the step of the one before. Two runs that meet are a
  run over both texts (`RunGlued`).
- *Values.* `Reading(a, s, b)` says that `json.loads` gets from a to b over s, and
  `Extracting` says it of `extract`. `Spells(e, v)` says that e is how the characters v
  are written: both readers get v from it, and there is no line feed in it.
  `EscapeJsonSpells` proves it of `escapeJson`, character by character. For
  `json.dumps` v is what `extract` reads: of a character that is not ASCII, u and its
  digits, of a form feed f.
- *Objects.* `ObjectReads`: `json.loads` reads from the text of an object the keys and
  values of its fields in their order (`Told`), and is inside a string wherever the
  text has anything but brackets, colons, commas and quotes.
- *Keys.* `extract` looks for a key in its quotes anywhere. `KeyInStrings` tells where
  that can be: it begins a string that is the key alone, or its first quote is an
  escaped one and the key ends the string. A value like that is what `LooksLikeKey`
  names and `FieldsAsSent` excepts. So the place found is the field's, and the colon
  and the quote after it, and what `Spells` says of the value, give the rest
  (`ExtractNamed`).

The proof found that `ReadChar` and `LoadChar` had been written with guards that
overlap, where TLA+ leaves open which alternative is taken and TLC takes the first;
they now test in the order of the code.

Only model-checked: everything about liveness (fairness and ENABLED are outside the
prover), which is `HangupFreesAccount`, `EndIsTold`, `WaitingClientIsServed`,
`StopEnds`, `CommandsAreReceived`, `SendReturns`, `EndOfFileIsTold`, `CallbackEnds`
and `CloseEnds`. Of four of them the safety half is
proved, that what must come is on its way: `OneRemovalEach`, `EndIsOnItsWay`,
`StopLeavesNoWait` and `CloseIsOnItsWay`.

## What is not modelled

- Of the SDK: the automatic conversation (`audio_manager_thread`, `send_audio`).
  Its rhythm is the application's, and the engine's side of `send_audio` is
  Playback.
- The port numbers for RTP: `nextPort` is a counter that only the main thread
  changes and nothing else reads.
- `InfoModule` (stateless), the start-up of PJSIP, codecs, the wording of logs.
- `accept` failing for other reasons than the closed socket, a `send` that takes
  only a part of the data, several audio streams in one call.
- The life of C++ objects: reference counts, and pointers into the library after
  the library has deleted the object.

## Plan

Done: SIPCore with CallSlot, TcpServer, CallMedia with the sound devices, Playback,
JsonCommand and SdkSession, all with proofs. Left:

1. Proofs: safety halves of the remaining liveness properties (what a client that
   waits, or a file that ends, can count on).
2. The composition of TcpServer and the main loop: how long a client that reads
   slowly holds up SIP's own timers.
3. The SDK's automatic conversation on top of SdkSession and Playback: what a
   refused `send_audio` does to the flags that wait for its end.
