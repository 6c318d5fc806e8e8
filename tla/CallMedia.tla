------------------------------ MODULE CallMedia ------------------------------
(***************************************************************************)
(* Which device is connected to which call, and what the client is told    *)
(* of the media: "mute", "unmute", "device_on", "device_off",              *)
(* ensureAudioDevice, the device states setupCall gives to a new call and  *)
(* sendState in src/SIPCore.cpp; setMicrophoneState, setSpeakerState,      *)
(* onCallMediaState and the end of onCallState in src/sip/Call.cpp; for    *)
(* one account and its calls.                                              *)
(*                                                                         *)
(* The main thread carries a command through deviceStates, the call table, *)
(* the call's flag and the conference bridge, under a different lock each  *)
(* time or none; PJSIP's worker stores incoming calls and runs callbacks.  *)
(* Microphone and speaker are handled alike, so a device is an element of  *)
(* Devices.  Connecting a device that is connected, or disconnecting one   *)
(* that is not, changes nothing.  A call has one audio stream.  An outgoing*)
(* call is set up by the main thread itself, between two commands: one of  *)
(* the orders the model allows.  A sound device is the real one ("default")*)
(* or PJSIP's null device.  The library finds real ones in a list, made at *)
(* its start and by refreshDevs; one that has gone since is found, but does*)
(* not open.                                                               *)
(*                                                                         *)
(* An operator whose comment starts with "Fault:" is the operator after it *)
(* with a programming mistake; no action uses it.                          *)
(***************************************************************************)
EXTENDS Integers, Sequences

CONSTANTS
    Devices,   \* the microphone and the speaker
    Calls,     \* identities of SIPCall objects of the account
    NoCall,    \* no entry in calls
    NoDevice,  \* no command under way
    MaxMedia,  \* bound: times media comes or goes
    MaxPlugs   \* bound: times a sound device is plugged in or out, or selected

ASSUME NoneAssumption == NoCall \notin Calls /\ NoDevice \notin Devices
ASSUME DevicesAssumption ==
    \A mic, speaker \in Devices : mic # speaker => Devices = {mic, speaker}
ASSUME BoundAssumption == MaxMedia \in Nat /\ MaxPlugs \in Nat

VARIABLES
    deviceStates,      \* SIPCore::deviceStates, TRUE for a device that is on
    call,              \* SIPCore::calls for the account
    enabled,           \* microphoneEnabled and speakerEnabled
    currentAudioMedia, \* calls whose pointer is not null
    port,              \* the library: calls with a media port
    connected,         \* the library: devices connected to a call's port
    status,            \* the call: "new", "ringing", "up", "ending" or "over"
    present,           \* real sound devices that are there
    listed,            \* the library: real devices it has in its list
    selected,          \* the library: the device in use, "default" or "null"
    nullDev,           \* SIPCore::nullDev
    currentMediaState, \* calls whose media state is "connected", not "inactive"
    lastReport,        \* the last report of the account, in pendingStates or sent
    mainPc,            \* where the main thread is with a command
    command,           \* its device and whether it is to be on
    found,             \* the call it found
    workerCall,        \* the call whose setup or callback the worker runs
    workerTodo,        \* the steps left of it
    decided,           \* the device onCallMediaState is about to connect
    deviceLost,        \* history: a device in use was pulled out, or the null
                       \* device could not be set, since the devices were
                       \* last selected without a call
    changes, plugs     \* the bounds' counters

mainVars   == <<mainPc, command, found>>
workerVars == <<workerCall, workerTodo, decided>>
libVars    == <<port, connected, status, changes>>
deviceVars == <<present, listed, selected, nullDev, deviceLost, plugs>>
reportVars == <<currentMediaState, lastReport>>
otherVars  == <<deviceVars, reportVars>>
vars == <<deviceStates, call, enabled, currentAudioMedia, libVars, mainVars,
          workerVars, deviceVars, reportVars>>

Step == {"store", "apply", "use", "check", "connect", "publish", "report", "forget",
         "remove", "release"}
Do(step)      == [step |-> step, device |-> NoDevice]
DoFor(step, d) == [step |-> step, device |-> d]

\* What was pushed ("disconnected" or a media state, "none" if it is empty), or
\* the media state sent; and whether a command pushed it, not the call.
Report ==
    [sent : {FALSE}, says : {"disconnected", "none", "inactive", "connected"},
     byCommand : BOOLEAN]
        \cup [sent : {TRUE}, says : {"none", "inactive", "connected", "torn"},
              byCommand : BOOLEAN]

Pushed(says, byCommand) == [sent |-> FALSE, says |-> says, byCommand |-> byCommand]
Sent(says, byCommand)   == [sent |-> TRUE, says |-> says, byCommand |-> byCommand]

TypeOK ==
    /\ deviceStates \in [Devices -> BOOLEAN]
    /\ call \in Calls \cup {NoCall}
    /\ enabled \in [Calls -> [Devices -> BOOLEAN]]
    /\ currentAudioMedia \subseteq Calls
    /\ port \subseteq Calls
    /\ connected \in [Calls -> SUBSET Devices]
    /\ \A c \in Calls \ port : connected[c] = {}
    /\ status \in [Calls -> {"new", "ringing", "up", "ending", "over"}]
    /\ present \subseteq Devices /\ listed \subseteq Devices
    /\ selected \in [Devices -> {"default", "null"}]
    /\ nullDev \in BOOLEAN /\ deviceLost \in BOOLEAN
    /\ currentMediaState \subseteq Calls
    /\ lastReport \in Report
    /\ mainPc \in {"idle", "lookup", "flag", "bridge"}
    /\ command \in [device : Devices \cup {NoDevice}, on : BOOLEAN]
    /\ found \in Calls \cup {NoCall}
    /\ workerCall \in Calls \cup {NoCall}
    /\ workerTodo \in Seq([step : Step, device : Devices \cup {NoDevice}])
    /\ decided \in BOOLEAN
    /\ changes \in 0 .. MaxMedia /\ plugs \in 0 .. MaxPlugs

Init ==
    /\ deviceStates = [d \in Devices |-> TRUE]
    /\ call = NoCall
    /\ enabled = [c \in Calls |-> [d \in Devices |-> TRUE]]
    /\ currentAudioMedia = {} /\ port = {}
    /\ connected = [c \in Calls |-> {}]
    /\ status = [c \in Calls |-> "new"]
    /\ mainPc = "idle" /\ command = [device |-> NoDevice, on |-> TRUE]
    /\ found = NoCall
    /\ workerCall = NoCall /\ workerTodo = << >> /\ decided = FALSE
    /\ present \in SUBSET Devices /\ listed = present
    /\ selected = [d \in Devices |-> "default"]
    /\ nullDev = FALSE /\ deviceLost = FALSE
    /\ currentMediaState = {} /\ lastReport = Sent("none", FALSE)
    /\ changes = 0 /\ plugs = 0

-----------------------------------------------------------------------------
(* The main thread: "mute" (on = FALSE) and "unmute" (on = TRUE) *)

\* Under deviceStateMutex.
SetDeviceState(d, on) ==
    /\ mainPc = "idle"
    /\ deviceStates' = [deviceStates EXCEPT ![d] = on]
    /\ command' = [device |-> d, on |-> on]
    /\ mainPc' = "lookup"
    /\ UNCHANGED <<call, enabled, currentAudioMedia, libVars, found, workerVars, otherVars>>

\* Under callsMutex.
LookUpCall ==
    /\ mainPc = "lookup"
    /\ found' = call
    /\ mainPc' = IF call = NoCall THEN "idle" ELSE "flag"
    /\ UNCHANGED <<deviceStates, call, enabled, currentAudioMedia, libVars, command,
                   workerVars, otherVars>>

\* setMicrophoneState, under mediaMutex: the flag, and whether there is media.
SetFlag ==
    /\ mainPc = "flag"
    /\ enabled' = [enabled EXCEPT ![found][command.device] = command.on]
    /\ mainPc' = IF enabled[found][command.device] # command.on
                    /\ found \in currentAudioMedia
                 THEN "bridge" ELSE "idle"
    /\ UNCHANGED <<deviceStates, call, currentAudioMedia, libVars, command, found,
                   workerVars, otherVars>>

\* Fault: a call without media is connected, too.
SwitchedAnyway(c, d, on) ==
    [connected EXCEPT ![c] = IF on THEN @ \cup {d} ELSE @ \ {d}]

\* The device that is selected for d can be opened.
Usable(d) == selected[d] = "null" \/ d \in present \cap listed

\* Connect or disconnect device d and call c; it throws without a port, and
\* when the device to connect cannot be opened.
Switched(c, d, on) ==
    [connected EXCEPT ![c] =
        IF c \notin port \/ (on /\ ~Usable(d)) THEN @
        ELSE IF on THEN @ \cup {d} ELSE @ \ {d}]

\* setMicrophoneState after the unlock, with the copy of the media.
SwitchDevice ==
    /\ mainPc = "bridge"
    /\ connected' = Switched(found, command.device, enabled[found][command.device])
    /\ mainPc' = "idle"
    /\ UNCHANGED <<deviceStates, call, enabled, currentAudioMedia, port, status, changes,
                   command, found, workerVars, otherVars>>

\* processPendingCallRemove, between two batches of commands.
RemoveCall ==
    /\ mainPc = "idle"
    /\ call # NoCall /\ status[call] = "over"
    /\ call' = NoCall
    /\ UNCHANGED <<deviceStates, enabled, currentAudioMedia, libVars, mainVars, workerVars,
                   otherVars>>

\* getMediaState
MediaState(c) == IF c \in currentMediaState THEN "connected" ELSE "inactive"

\* processPendingStates, between two batches of commands: the media state is
\* read again when a report is sent.  While it is being assigned to, without a
\* lock, anything may be read.  What earlier reports say is soon overwritten:
\* they are left out.
SendState ==
    /\ mainPc = "idle" /\ ~lastReport.sent
    /\ LET writing == workerTodo # << >> /\ Head(workerTodo) = Do("publish") /\ workerCall = call
       IN  \E says \in IF lastReport.says = "disconnected" THEN {"inactive"}
                       ELSE IF call = NoCall THEN {lastReport.says}
                       ELSE IF writing THEN {"inactive", "connected", "torn"}
                       ELSE {MediaState(call)} :
             lastReport' = Sent(says, lastReport.byCommand)
    /\ UNCHANGED <<deviceStates, call, enabled, currentAudioMedia, libVars, mainVars,
                   workerVars, deviceVars, currentMediaState>>

\* "call" without a number or a server, or "disconnect", says "disconnected",
\* whatever the account's call does.
ReportDisconnected ==
    /\ mainPc = "idle"
    /\ lastReport' = Pushed("disconnected", TRUE)
    /\ UNCHANGED <<deviceStates, call, enabled, currentAudioMedia, libVars, mainVars,
                   workerVars, deviceVars, currentMediaState>>

-----------------------------------------------------------------------------
(* The main thread: sound devices *)

NullDevices == [d \in Devices |-> "null"]

\* What was lost before the devices are selected concerns a call that is up.
StillLost == deviceLost /\ \E c \in Calls : status[c] = "up"

\* setNullDev, which may throw.
SetNullDev ==
    \/ selected' = NullDevices /\ nullDev' = TRUE /\ deviceLost' = StillLost
    \/ deviceLost' = TRUE /\ UNCHANGED <<selected, nullDev>>

\* "device_off"
SetNullAudio ==
    /\ mainPc = "idle" /\ plugs < MaxPlugs
    /\ plugs' = plugs + 1
    /\ SetNullDev
    /\ UNCHANGED <<deviceStates, call, enabled, currentAudioMedia, libVars, mainVars,
                   workerVars, present, listed, reportVars>>

\* "device_on": refreshDevs makes the list anew, unless it throws; then the
\* default devices, or the null device if one of them cannot be set or is not
\* in the list.
SetAudioDevice ==
    /\ mainPc = "idle" /\ plugs < MaxPlugs
    /\ plugs' = plugs + 1
    /\ listed' \in {listed, present}
    /\ \/ /\ listed' = present /\ Devices \subseteq listed'
          /\ selected' = [d \in Devices |-> "default"]
          /\ nullDev' = FALSE
          /\ deviceLost' = StillLost
       \/ selected' = NullDevices /\ nullDev' = TRUE /\ deviceLost' = StillLost
       \/ /\ \E set \in SUBSET Devices :
                selected' = [d \in Devices |-> IF d \in set THEN "default" ELSE selected[d]]
          /\ deviceLost' = TRUE
          /\ UNCHANGED nullDev
    /\ UNCHANGED <<deviceStates, call, enabled, currentAudioMedia, libVars, mainVars,
                   workerVars, present, reportVars>>

\* Fault: the null device is never fallen back to.
NeverSwitches == TRUE

\* What ensureAudioDevice takes for devices that can be used: the list is not
\* made anew, so one that has gone is still found.
DeviceIsFine == nullDev \/ \A d \in Devices : selected[d] = "null" \/ d \in listed

\* answerCall, and the end of makeCall: ensureAudioDevice, then the library
\* may bring up media.
AnswerCall ==
    /\ mainPc = "idle"
    /\ call # NoCall /\ status[call] = "ringing"
    /\ IF DeviceIsFine THEN UNCHANGED <<selected, nullDev, deviceLost>> ELSE SetNullDev
    /\ status' = [status EXCEPT ![call] = "up"]
    /\ UNCHANGED <<deviceStates, call, enabled, currentAudioMedia, port, connected, changes,
                   mainVars, workerVars, present, listed, plugs, reportVars>>

\* A real device is plugged in or pulled out.
Plug(d) ==
    /\ plugs < MaxPlugs
    /\ plugs' = plugs + 1
    /\ present' = IF d \in present THEN present \ {d} ELSE present \cup {d}
    /\ deviceLost' = (deviceLost \/ (selected[d] = "default" /\ d \in present \cap listed))
    /\ UNCHANGED <<deviceStates, call, enabled, currentAudioMedia, libVars, mainVars,
                   workerVars, listed, selected, nullDev, reportVars>>

-----------------------------------------------------------------------------
(* The worker *)

Doing(item) ==
    /\ workerTodo # << >> /\ Head(workerTodo) = item
    /\ workerTodo' = Tail(workerTodo)

Begin(c, todo) ==
    /\ workerTodo = << >>
    /\ workerCall' = c
    /\ workerTodo' = todo

\* Fault: the new call is given the device states before it can be found.
ApplyFirst == <<Do("apply"), Do("store")>>

\* setupCall: the call is stored, then given the device states.
SetupCall == <<Do("store"), Do("apply")>>

\* Fault: a flag is read before the media is published.
CheckFirst(mic, speaker) ==
    <<DoFor("check", mic), Do("use"), DoFor("connect", mic),
      DoFor("check", speaker), DoFor("connect", speaker), Do("publish"), Do("report")>>

\* onCallMediaState with active media: it is published under mediaMutex,
\* then each device's flag is read and the device connected, without a lock,
\* and the media state is set, without a lock either, and reported.
MediaActive(mic, speaker) ==
    <<Do("use"), DoFor("check", mic), DoFor("connect", mic),
      DoFor("check", speaker), DoFor("connect", speaker), Do("publish"), Do("report")>>

\* Fault: the client is not told that the media is gone.
MediaLostSilently == <<Do("forget")>>

\* onCallMediaState without active media.
MediaLost == <<Do("forget"), Do("report")>>

\* A call comes in, or is made: setupCall refuses it if there is one.
NewCall(c) ==
    /\ status[c] = "new"
    /\ call = NoCall
    /\ status' = [status EXCEPT ![c] = "ringing"]
    /\ Begin(c, SetupCall)
    /\ UNCHANGED <<deviceStates, call, enabled, currentAudioMedia, port, connected, changes,
                   mainVars, decided, otherVars>>

StoreCall ==
    /\ Doing(Do("store"))
    /\ call' = workerCall
    /\ UNCHANGED <<deviceStates, enabled, currentAudioMedia, libVars, mainVars, workerCall,
                   decided, otherVars>>

\* Under deviceStateMutex; a new call has no media yet.
ApplyDeviceStates ==
    /\ Doing(Do("apply"))
    /\ enabled' = [enabled EXCEPT ![workerCall] = deviceStates]
    /\ UNCHANGED <<deviceStates, call, currentAudioMedia, libVars, mainVars, workerCall,
                   decided, otherVars>>

\* The library brings media up and calls onCallMediaState, where getMedia may
\* throw: then nothing is done.
FindMedia(c) ==
    /\ status[c] = "up" /\ changes < MaxMedia
    /\ changes' = changes + 1
    /\ port' = port \cup {c}
    /\ \/ Begin(c, << >>)
       \/ \E mic, speaker \in Devices :
            mic # speaker /\ Begin(c, MediaActive(mic, speaker))
    /\ UNCHANGED <<deviceStates, call, enabled, currentAudioMedia, connected, status,
                   mainVars, decided, otherVars>>

\* The library takes the port away, with its connections (a hold).
LoseMedia(c) ==
    /\ status[c] = "up" /\ changes < MaxMedia
    /\ changes' = changes + 1
    /\ port' = port \ {c}
    /\ connected' = [connected EXCEPT ![c] = {}]
    /\ Begin(c, MediaLost)
    /\ UNCHANGED <<deviceStates, call, enabled, currentAudioMedia, status, mainVars, decided,
                   otherVars>>

\* The dialog ends: onCallState forgets the media and queues the removal of
\* the call, then the library drops the port.
EndCall(c) ==
    /\ status[c] \in {"ringing", "up"}
    /\ status' = [status EXCEPT ![c] = "ending"]
    /\ Begin(c, <<Do("forget"), Do("remove"), Do("release")>>)
    /\ UNCHANGED <<deviceStates, call, enabled, currentAudioMedia, port, connected, changes,
                   mainVars, decided, otherVars>>

UseMedia ==
    /\ Doing(Do("use"))
    /\ currentAudioMedia' = currentAudioMedia \cup {workerCall}
    /\ UNCHANGED <<deviceStates, call, enabled, libVars, mainVars, workerCall, decided,
                   otherVars>>

CheckFlag(d) ==
    /\ Doing(DoFor("check", d))
    /\ decided' = enabled[workerCall][d]
    /\ UNCHANGED <<deviceStates, call, enabled, currentAudioMedia, libVars, mainVars,
                   workerCall, otherVars>>

ConnectDevice(d) ==
    /\ Doing(DoFor("connect", d))
    /\ connected' = IF decided THEN Switched(workerCall, d, TRUE) ELSE connected
    /\ UNCHANGED <<deviceStates, call, enabled, currentAudioMedia, port, status, changes,
                   mainVars, workerCall, decided, otherVars>>

ForgetMedia ==
    /\ Doing(Do("forget"))
    /\ currentAudioMedia' = currentAudioMedia \ {workerCall}
    /\ currentMediaState' = currentMediaState \ {workerCall}
    /\ UNCHANGED <<deviceStates, call, enabled, libVars, mainVars, workerCall, decided,
                   deviceVars, lastReport>>

PublishMediaState ==
    /\ Doing(Do("publish"))
    /\ currentMediaState' = currentMediaState \cup {workerCall}
    /\ UNCHANGED <<deviceStates, call, enabled, currentAudioMedia, libVars, mainVars,
                   workerCall, decided, deviceVars, lastReport>>

\* stateCallback
ReportMedia ==
    /\ Doing(Do("report"))
    /\ lastReport' = Pushed(MediaState(workerCall), FALSE)
    /\ UNCHANGED <<deviceStates, call, enabled, currentAudioMedia, libVars, mainVars,
                   workerCall, decided, deviceVars, currentMediaState>>

\* stateCallback with "disconnected"
QueueRemoval ==
    /\ Doing(Do("remove"))
    /\ status' = [status EXCEPT ![workerCall] = "over"]
    /\ lastReport' = Pushed("disconnected", FALSE)
    /\ UNCHANGED <<deviceStates, call, enabled, currentAudioMedia, port, connected, changes,
                   mainVars, workerCall, decided, deviceVars, currentMediaState>>

ReleaseCall ==
    /\ Doing(Do("release"))
    /\ port' = port \ {workerCall}
    /\ connected' = [connected EXCEPT ![workerCall] = {}]
    /\ UNCHANGED <<deviceStates, call, enabled, currentAudioMedia, status, changes, mainVars,
                   workerCall, decided, otherVars>>

\* onCallState while the call lives: its state, with the media state it has.
ReportCallState(c) ==
    /\ workerTodo = << >>
    /\ status[c] \in {"ringing", "up"}
    /\ lastReport' = Pushed(MediaState(c), FALSE)
    /\ UNCHANGED <<deviceStates, call, enabled, currentAudioMedia, libVars, mainVars,
                   workerVars, deviceVars, currentMediaState>>

\* A change of the registration, or the end of a file, told by another thread of
\* the library with an empty media state.
ReportOther ==
    /\ lastReport' = Pushed("none", FALSE)
    /\ UNCHANGED <<deviceStates, call, enabled, currentAudioMedia, libVars, mainVars,
                   workerVars, deviceVars, currentMediaState>>

-----------------------------------------------------------------------------

MainThread ==
    \/ \E d \in Devices, on \in BOOLEAN : SetDeviceState(d, on)
    \/ LookUpCall \/ SetFlag \/ SwitchDevice \/ RemoveCall \/ SendState
    \/ ReportDisconnected \/ SetNullAudio \/ SetAudioDevice \/ AnswerCall

Worker ==
    \/ \E c \in Calls : NewCall(c) \/ FindMedia(c) \/ LoseMedia(c) \/ EndCall(c)
                      \/ ReportCallState(c)
    \/ StoreCall \/ ApplyDeviceStates \/ UseMedia \/ PublishMediaState \/ ReportMedia
    \/ ForgetMedia \/ QueueRemoval \/ ReleaseCall
    \/ \E d \in Devices : CheckFlag(d) \/ ConnectDevice(d)

Next == MainThread \/ Worker \/ ReportOther \/ \E d \in Devices : Plug(d)

Spec == Init /\ [][Next]_vars

-----------------------------------------------------------------------------
(* Properties *)

AtRest == mainPc = "idle" /\ workerTodo = << >>

\* When no command and no setup is under way, the call in the table has the
\* device states of its account: a "mute" that meets a new call half set up
\* is not lost.
CallFollowsAccount ==
    AtRest /\ call # NoCall => enabled[call] = deviceStates

\* A device that is on is heard: when both threads rest, it is connected to
\* every call that has media, however "unmute" met onCallMediaState and whatever
\* devices were missing or came before the call.  The exceptions: a device in use
\* was pulled out, during the call or before it (ensureAudioDevice does not see
\* that), or the null device could not be set, since the devices were last
\* selected without a call.
UnmutedIsConnected ==
    AtRest /\ ~deviceLost => \A c \in currentAudioMedia, d \in Devices :
                enabled[c][d] => d \in connected[c]

\* During a call every sound device can be opened, after "device_on" and
\* "device_off" in any order with the calls, with the same exceptions.
CallHasDevices ==
    (\E c \in Calls : status[c] = "up") /\ ~deviceLost => \A d \in Devices : Usable(d)

\* When the worker rests and no report waits, the client was last told
\* "connected" if the account has a call whose media is, and only then: although
\* a report is sent with the state of a later moment, of a later call even, and
\* the state is read while it is written.  The exception: a command was the last
\* to say "disconnected" ("call" without a number or a server, "disconnect");
\* that the client hears as "inactive" while the call goes on.
ToldMediaIsTrue ==
    workerTodo = << >> /\ lastReport.sent /\ ~lastReport.byCommand =>
        /\ lastReport.says # "torn"
        /\ lastReport.says = "connected" <=> call # NoCall /\ call \in currentMediaState

(* A statement of the documentation that the code does not keep *)

\* API.md: "mute" disables audio input or output for the current call.  Here:
\* when both threads rest, a device that is off is connected to no call.
MutedIsDisconnected ==
    AtRest => \A c \in currentAudioMedia, d \in Devices :
                d \in connected[c] => enabled[c][d]

=============================================================================
