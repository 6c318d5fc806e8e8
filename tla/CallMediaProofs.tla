--------------------------- MODULE CallMediaProofs ---------------------------
(***************************************************************************)
(* Theorems about CallMedia for all calls and bounds, and for the two      *)
(* devices whatever they are.                                              *)
(***************************************************************************)
EXTENDS CallMedia, TLAPS

-----------------------------------------------------------------------------
(* What the worker may have left to do *)

Applying   == <<Do("apply")>>
Reporting  == <<Do("report")>>
Publishing == <<Do("publish"), Do("report")>>
Ending     == <<Do("forget"), Do("remove"), Do("release")>>
Removing   == <<Do("remove"), Do("release")>>
Releasing  == <<Do("release")>>

\* What is left of MediaActive(m, s), from each of its steps on.
FirstCheck(m, s) ==
    <<DoFor("check", m), DoFor("connect", m), DoFor("check", s), DoFor("connect", s),
      Do("publish"), Do("report")>>
FirstConnect(m, s) ==
    <<DoFor("connect", m), DoFor("check", s), DoFor("connect", s), Do("publish"), Do("report")>>
LastCheck(s) ==
    <<DoFor("check", s), DoFor("connect", s), Do("publish"), Do("report")>>
LastConnect(s) ==
    <<DoFor("connect", s), Do("publish"), Do("report")>>

\* The steps of MediaActive(m, s) once the media has been published.
InUse(m, s) ==
    \/ workerTodo = FirstCheck(m, s)
    \/ workerTodo = FirstConnect(m, s)
    \/ workerTodo = LastCheck(s)
    \/ workerTodo = LastConnect(s)

Shape ==
    \/ workerTodo = << >>
    \/ workerTodo = SetupCall \/ workerTodo = Applying
    \/ workerTodo = MediaLost \/ workerTodo = Reporting \/ workerTodo = Publishing
    \/ workerTodo = Ending \/ workerTodo = Removing \/ workerTodo = Releasing
    \/ \E m, s \in Devices : m # s /\ (workerTodo = MediaActive(m, s) \/ InUse(m, s))

\* The worker is at none of the steps that come before a report.
Quiet == \/ workerTodo = << >> \/ workerTodo = SetupCall \/ workerTodo = Applying
         \/ workerTodo = Releasing

-----------------------------------------------------------------------------
(* The inductive invariant *)

Types ==
    /\ deviceStates \in [Devices -> BOOLEAN]
    /\ call \in Calls \cup {NoCall}
    /\ enabled \in [Calls -> [Devices -> BOOLEAN]]
    /\ currentAudioMedia \subseteq Calls
    /\ port \subseteq Calls
    /\ connected \in [Calls -> SUBSET Devices]
    /\ status \in [Calls -> {"new", "ringing", "up", "ending", "over"}]
    /\ present \subseteq Devices /\ listed \subseteq Devices
    /\ selected \in [Devices -> {"default", "null"}]
    /\ nullDev \in BOOLEAN /\ deviceLost \in BOOLEAN
    /\ currentMediaState \subseteq Calls
    /\ lastReport \in Report
    /\ mainPc \in {"idle", "lookup", "flag", "bridge"}
    /\ command \in [device : Devices \cup {NoDevice}, on : BOOLEAN]
    /\ found \in Calls \cup {NoCall}
    /\ workerCall \in Calls \cup {NoCall}
    /\ decided \in BOOLEAN
    /\ changes \in 0 .. MaxMedia /\ plugs \in 0 .. MaxPlugs

\* Only a port carries connections.
PortInv == \A c \in Calls \ port : connected[c] = {}

\* The worker is at a list it may be at, and the call it is busy with is the
\* one the list needs.
WorkerInv ==
    \/ workerTodo = << >>
    \/ /\ workerCall \in Calls
       /\ \/ /\ workerTodo = SetupCall
             /\ call = NoCall /\ status[workerCall] = "ringing" /\ workerCall \notin port
          \/ /\ workerTodo = Applying
             /\ call = workerCall /\ status[workerCall] \in {"ringing", "up"}
             /\ workerCall \notin port
          \/ /\ workerTodo = MediaLost \/ workerTodo = Publishing \/ workerTodo = Reporting
             /\ status[workerCall] = "up"
          \/ /\ workerTodo = Ending \/ workerTodo = Removing
             /\ status[workerCall] = "ending"
          \/ workerTodo = Releasing /\ status[workerCall] = "over"
          \/ /\ \E m, s \in Devices : m # s /\ (workerTodo = MediaActive(m, s) \/ InUse(m, s))
             /\ status[workerCall] = "up" /\ workerCall \in port

\* A call that lives is the account's, or is about to be stored; what it has
\* of media is there while it is up, or about to be forgotten.
CallInv ==
    /\ \A c \in Calls : status[c] \in {"ringing", "up", "ending"} =>
          c = call \/ (workerTodo = SetupCall /\ c = workerCall)
    /\ \A c \in port : status[c] \notin {"new", "ringing"}
    /\ \A c \in currentAudioMedia :
          \/ status[c] = "up" /\ c \in port
          \/ workerCall = c /\ (workerTodo = MediaLost \/ workerTodo = Ending)
    /\ \A c \in currentMediaState :
          status[c] = "up" \/ (workerCall = c /\ workerTodo = Ending)

\* A command's device has the state commanded, and the call it found stays.
MainInv ==
    /\ mainPc # "idle" =>
          command.device \in Devices /\ deviceStates[command.device] = command.on
    /\ mainPc \in {"flag", "bridge"} => found = call /\ call # NoCall

\* The call follows the account, but for the device of a command on its way.
FollowInv ==
    call # NoCall /\ workerTodo # Applying =>
        \A d \in Devices :
            \/ enabled[call][d] = deviceStates[d]
            \/ mainPc \in {"lookup", "flag"} /\ command.device = d

\* nullDev says nothing wrong, a device in use that is in the list is there, and a
\* call that is up has its devices.
DeviceInv ==
    ~deviceLost =>
        /\ nullDev => \A d \in Devices : selected[d] = "null"
        /\ \A d \in Devices : selected[d] = "default" /\ d \in listed => d \in present
        /\ (\E c \in Calls : status[c] = "up") => \A d \in Devices : Usable(d)

\* The worker is going to connect d to c, or to forget c's media.
WorkerWill(c, d) ==
    /\ workerCall = c
    /\ \/ workerTodo = MediaLost \/ workerTodo = Ending
       \/ \E m, s \in Devices :
             /\ m # s
             /\ \/ workerTodo = FirstCheck(m, s)
                \/ workerTodo = FirstConnect(m, s) /\ (d = s \/ decided)
                \/ workerTodo = LastCheck(s) /\ d = s
                \/ workerTodo = LastConnect(s) /\ d = s /\ decided

MainWill(c, d) == mainPc = "bridge" /\ found = c /\ command.device = d

\* A device that is on is connected, or one of the threads will see to it.
HeardInv ==
    ~deviceLost => \A c \in currentAudioMedia, d \in Devices :
        enabled[c][d] => d \in connected[c] \/ MainWill(c, d) \/ WorkerWill(c, d)

Connected == call # NoCall /\ call \in currentMediaState

\* A report tells the truth about a call that is connected or not.
Truthful(says, on) == says # "torn" /\ (says = "connected" <=> on)

\* When no report is about to come, the last one sent is true, and the last one
\* that waits will be when it is sent; a command's "disconnected" is left out.
ToldInv ==
    /\ Quiet /\ ~lastReport.byCommand =>
          /\ lastReport.sent => Truthful(lastReport.says, Connected)
          /\ ~lastReport.sent =>
                /\ lastReport.says = "disconnected" => ~Connected
                /\ call = NoCall => lastReport.says # "connected"
    /\ call # NoCall /\ status[call] = "over" /\ ~lastReport.sent =>
          lastReport.says # "connected"

IInv ==
    /\ Types /\ PortInv /\ WorkerInv /\ CallInv /\ MainInv
    /\ FollowInv /\ DeviceInv /\ HeardInv /\ ToldInv


-----------------------------------------------------------------------------
(* The worker's lists *)

\* An item is told from another by its step and its device.
LEMMA Items ==
    /\ \A step : Do(step).step = step
    /\ \A step, d : DoFor(step, d).step = step /\ DoFor(step, d).device = d
  BY DEF Do, DoFor

\* A list is told from another by its length and its first item.
LEMMA Lists ==
    /\ Len(SetupCall) = 2 /\ Head(SetupCall) = Do("store")
    /\ Len(Applying) = 1 /\ Head(Applying) = Do("apply")
    /\ Len(MediaLost) = 2 /\ Head(MediaLost) = Do("forget")
    /\ Len(Reporting) = 1 /\ Head(Reporting) = Do("report")
    /\ Len(Publishing) = 2 /\ Head(Publishing) = Do("publish")
    /\ Len(Ending) = 3 /\ Head(Ending) = Do("forget")
    /\ Len(Removing) = 2 /\ Head(Removing) = Do("remove")
    /\ Len(Releasing) = 1 /\ Head(Releasing) = Do("release")
  BY DEF SetupCall, Applying, MediaLost, Reporting, Publishing, Ending, Removing, Releasing

\* The same of the lists of onCallMediaState.
LEMMA MediaLists ==
    ASSUME NEW m, NEW s
    PROVE  /\ Len(MediaActive(m, s)) = 7 /\ Head(MediaActive(m, s)) = Do("use")
           /\ Len(FirstCheck(m, s)) = 6 /\ Head(FirstCheck(m, s)) = DoFor("check", m)
           /\ Len(FirstConnect(m, s)) = 5 /\ Head(FirstConnect(m, s)) = DoFor("connect", m)
           /\ Len(LastCheck(s)) = 4 /\ Head(LastCheck(s)) = DoFor("check", s)
           /\ Len(LastConnect(s)) = 3 /\ Head(LastConnect(s)) = DoFor("connect", s)
  BY DEF MediaActive, FirstCheck, FirstConnect, LastCheck, LastConnect

\* What is left of a list when its first item is done.
LEMMA Rests ==
    /\ Tail(SetupCall) = Applying /\ Tail(Applying) = << >>
    /\ Tail(MediaLost) = Reporting /\ Tail(Publishing) = Reporting
    /\ Tail(Reporting) = << >>
    /\ Tail(Ending) = Removing /\ Tail(Removing) = Releasing /\ Tail(Releasing) = << >>
  BY DEF SetupCall, Applying, MediaLost, Reporting, Publishing, Ending, Removing, Releasing

\* The same of the lists of onCallMediaState.
LEMMA MediaRests ==
    ASSUME NEW m, NEW s
    PROVE  /\ Tail(MediaActive(m, s)) = FirstCheck(m, s)
           /\ Tail(FirstCheck(m, s)) = FirstConnect(m, s)
           /\ Tail(FirstConnect(m, s)) = LastCheck(s)
           /\ Tail(LastCheck(s)) = LastConnect(s)
           /\ Tail(LastConnect(s)) = Publishing
  BY DEF MediaActive, FirstCheck, FirstConnect, LastCheck, LastConnect, Publishing

\* A step through the lists of onCallMediaState.
MediaStep(item, m, s) ==
    \/ /\ item.step = "use"
       /\ workerTodo = MediaActive(m, s) /\ workerTodo' = FirstCheck(m, s)
    \/ /\ item.step = "check" /\ item.device = m
       /\ workerTodo = FirstCheck(m, s) /\ workerTodo' = FirstConnect(m, s)
    \/ /\ item.step = "connect" /\ item.device = m
       /\ workerTodo = FirstConnect(m, s) /\ workerTodo' = LastCheck(s)
    \/ /\ item.step = "check" /\ item.device = s
       /\ workerTodo = LastCheck(s) /\ workerTodo' = LastConnect(s)
    \/ /\ item.step = "connect" /\ item.device = s
       /\ workerTodo = LastConnect(s) /\ workerTodo' = Publishing

\* Every step the worker takes leaves one of its lists.
LEMMA Progress ==
    ASSUME Shape, NEW item, Doing(item)
    PROVE  \/ item.step = "store" /\ workerTodo = SetupCall /\ workerTodo' = Applying
           \/ item.step = "apply" /\ workerTodo = Applying /\ workerTodo' = << >>
           \/ item.step = "forget" /\ workerTodo = MediaLost /\ workerTodo' = Reporting
           \/ item.step = "forget" /\ workerTodo = Ending /\ workerTodo' = Removing
           \/ item.step = "remove" /\ workerTodo = Removing /\ workerTodo' = Releasing
           \/ item.step = "release" /\ workerTodo = Releasing /\ workerTodo' = << >>
           \/ item.step = "publish" /\ workerTodo = Publishing /\ workerTodo' = Reporting
           \/ item.step = "report" /\ workerTodo = Reporting /\ workerTodo' = << >>
           \/ \E m, s \in Devices : m # s /\ MediaStep(item, m, s)
<1>1. workerTodo # << >> /\ Head(workerTodo) = item /\ workerTodo' = Tail(workerTodo)
  BY DEF Doing
<1>2. CASE \E m, s \in Devices : m # s /\ (workerTodo = MediaActive(m, s) \/ InUse(m, s))
  <2>1. PICK m \in Devices, s \in Devices :
            m # s /\ (workerTodo = MediaActive(m, s) \/ InUse(m, s))
    BY <1>2
  <2>2. MediaStep(item, m, s)
    BY <1>1, <2>1, Items, MediaLists, MediaRests DEF InUse, MediaStep
  <2>3. QED BY <2>1, <2>2
<1>3. CASE ~(\E m, s \in Devices : m # s /\ (workerTodo = MediaActive(m, s) \/ InUse(m, s)))
  BY <1>1, <1>3, Items, Lists, Rests DEF Shape
<1>4. QED BY <1>2, <1>3

-----------------------------------------------------------------------------
(* Which actions change what *)

\* The tables.
LEMMA TablesChange ==
    ASSUME [Next]_vars
    PROVE  /\ deviceStates' = deviceStates
                \/ \E d \in Devices, on \in BOOLEAN : SetDeviceState(d, on)
           /\ call' = call \/ RemoveCall \/ StoreCall
           /\ enabled' = enabled \/ SetFlag \/ ApplyDeviceStates
           /\ status' = status \/ AnswerCall \/ QueueRemoval
                \/ \E c \in Calls : NewCall(c) \/ EndCall(c)
  BY DEF Next, vars, mainVars, workerVars, libVars, deviceVars, reportVars, otherVars,
         MainThread, Worker, SetDeviceState, LookUpCall, SetFlag, SwitchDevice, RemoveCall,
         SendState, ReportDisconnected, ReportCallState, ReportOther,
         SetNullAudio, SetAudioDevice, AnswerCall, NewCall, FindMedia, LoseMedia,
         EndCall, StoreCall, ApplyDeviceStates, UseMedia, PublishMediaState, ReportMedia,
         ForgetMedia, QueueRemoval, ReleaseCall, CheckFlag, ConnectDevice, Plug

\* Media, and what the client is told of it.
LEMMA MediaChange ==
    ASSUME [Next]_vars
    PROVE  /\ currentAudioMedia' = currentAudioMedia \/ UseMedia \/ ForgetMedia
           /\ port' = port \/ ReleaseCall \/ \E c \in Calls : FindMedia(c) \/ LoseMedia(c)
           /\ connected' = connected \/ SwitchDevice \/ ReleaseCall
                \/ (\E c \in Calls : LoseMedia(c)) \/ \E d \in Devices : ConnectDevice(d)
           /\ currentMediaState' = currentMediaState \/ ForgetMedia \/ PublishMediaState
           /\ lastReport' = lastReport \/ SendState \/ ReportMedia \/ QueueRemoval
                \/ ReportDisconnected \/ ReportOther \/ \E c \in Calls : ReportCallState(c)
  BY DEF Next, vars, mainVars, workerVars, libVars, deviceVars, reportVars, otherVars,
         MainThread, Worker, SetDeviceState, LookUpCall, SetFlag, SwitchDevice, RemoveCall,
         SendState, ReportDisconnected, ReportCallState, ReportOther,
         SetNullAudio, SetAudioDevice, AnswerCall, NewCall, FindMedia, LoseMedia,
         EndCall, StoreCall, ApplyDeviceStates, UseMedia, PublishMediaState, ReportMedia,
         ForgetMedia, QueueRemoval, ReleaseCall, CheckFlag, ConnectDevice, Plug

\* Sound devices.
LEMMA DevicesChange ==
    ASSUME [Next]_vars
    PROVE  (UNCHANGED <<present, listed, selected, nullDev, deviceLost>>)
             \/ SetNullAudio \/ SetAudioDevice \/ AnswerCall \/ \E d \in Devices : Plug(d)
  BY DEF Next, vars, mainVars, workerVars, libVars, deviceVars, reportVars, otherVars,
         MainThread, Worker, SetDeviceState, LookUpCall, SetFlag, SwitchDevice, RemoveCall,
         SendState, ReportDisconnected, ReportCallState, ReportOther,
         SetNullAudio, SetAudioDevice, AnswerCall, NewCall, FindMedia, LoseMedia,
         EndCall, StoreCall, ApplyDeviceStates, UseMedia, PublishMediaState, ReportMedia,
         ForgetMedia, QueueRemoval, ReleaseCall, CheckFlag, ConnectDevice, Plug

\* The threads.
LEMMA ThreadsChange ==
    ASSUME [Next]_vars
    PROVE  /\ (UNCHANGED mainVars) \/ LookUpCall \/ SetFlag \/ SwitchDevice
                \/ \E d \in Devices, on \in BOOLEAN : SetDeviceState(d, on)
           /\ (UNCHANGED workerVars) \/ StoreCall \/ ApplyDeviceStates \/ UseMedia
                \/ PublishMediaState \/ ReportMedia \/ ForgetMedia \/ QueueRemoval \/ ReleaseCall
                \/ (\E c \in Calls : NewCall(c) \/ FindMedia(c) \/ LoseMedia(c) \/ EndCall(c))
                \/ \E d \in Devices : CheckFlag(d) \/ ConnectDevice(d)
  BY DEF Next, vars, mainVars, workerVars, libVars, deviceVars, reportVars, otherVars,
         MainThread, Worker, SetDeviceState, LookUpCall, SetFlag, SwitchDevice, RemoveCall,
         SendState, ReportDisconnected, ReportCallState, ReportOther,
         SetNullAudio, SetAudioDevice, AnswerCall, NewCall, FindMedia, LoseMedia,
         EndCall, StoreCall, ApplyDeviceStates, UseMedia, PublishMediaState, ReportMedia,
         ForgetMedia, QueueRemoval, ReleaseCall, CheckFlag, ConnectDevice, Plug

\* The bounds' counters.
LEMMA BoundsChange ==
    ASSUME [Next]_vars
    PROVE  /\ changes' = changes \/ \E c \in Calls : FindMedia(c) \/ LoseMedia(c)
           /\ plugs' = plugs \/ SetNullAudio \/ SetAudioDevice \/ \E d \in Devices : Plug(d)
  BY DEF Next, vars, mainVars, workerVars, libVars, deviceVars, reportVars, otherVars,
         MainThread, Worker, SetDeviceState, LookUpCall, SetFlag, SwitchDevice, RemoveCall,
         SendState, ReportDisconnected, ReportCallState, ReportOther,
         SetNullAudio, SetAudioDevice, AnswerCall, NewCall, FindMedia, LoseMedia,
         EndCall, StoreCall, ApplyDeviceStates, UseMedia, PublishMediaState, ReportMedia,
         ForgetMedia, QueueRemoval, ReleaseCall, CheckFlag, ConnectDevice, Plug

-----------------------------------------------------------------------------
(* The invariant is inductive *)

\* Every step keeps the types.
LEMMA TypesKept ==
    ASSUME Types, WorkerInv, MainInv, [Next]_vars
    PROVE  Types'
<1>1. deviceStates' \in [Devices -> BOOLEAN] /\ call' \in Calls \cup {NoCall}
  BY TablesChange DEF Types, WorkerInv, SetDeviceState, RemoveCall, StoreCall
<1>2. enabled' \in [Calls -> [Devices -> BOOLEAN]]
  <2>1. CASE SetFlag
    <3>1. found \in Calls /\ command.device \in Devices /\ command.on \in BOOLEAN
      BY <2>1 DEF SetFlag, Types, MainInv
    <3>2. QED BY <2>1, <3>1 DEF SetFlag, Types
  <2>2. CASE ApplyDeviceStates
    BY <2>2 DEF ApplyDeviceStates, Types
  <2>3. QED BY <2>1, <2>2, TablesChange DEF Types
<1>3. status' \in [Calls -> {"new", "ringing", "up", "ending", "over"}]
  BY TablesChange DEF Types, AnswerCall, QueueRemoval, NewCall, EndCall
<1>4. currentAudioMedia' \subseteq Calls /\ port' \subseteq Calls /\ currentMediaState' \subseteq Calls
  <2>1. UseMedia \/ PublishMediaState => workerCall \in Calls
    BY DEF UseMedia, PublishMediaState, Doing, WorkerInv
  <2>2. QED BY <2>1, MediaChange DEF Types, UseMedia, ForgetMedia, PublishMediaState, ReleaseCall,
                FindMedia, LoseMedia
<1>5. connected' \in [Calls -> SUBSET Devices]
  <2>1. ASSUME NEW c \in Calls, NEW d \in Devices, NEW on \in BOOLEAN
        PROVE  Switched(c, d, on) \in [Calls -> SUBSET Devices]
    BY <2>1 DEF Types, Switched
  <2>2. CASE SwitchDevice
    <3>1. found \in Calls /\ command.device \in Devices
      BY <2>2 DEF SwitchDevice, Types, MainInv
    <3>2. enabled[found][command.device] \in BOOLEAN
      BY <3>1 DEF Types
    <3>3. QED BY <2>1, <2>2, <3>1, <3>2 DEF SwitchDevice
  <2>3. ASSUME NEW d \in Devices, ConnectDevice(d) PROVE connected' \in [Calls -> SUBSET Devices]
    <3>1. workerCall \in Calls
      BY <2>3 DEF ConnectDevice, Doing, WorkerInv
    <3>2. QED BY <2>1, <2>3, <3>1 DEF ConnectDevice, Types
  <2>4. CASE ReleaseCall \/ \E c \in Calls : LoseMedia(c)
    BY <2>4 DEF ReleaseCall, LoseMedia, Types
  <2>5. QED BY <2>2, <2>3, <2>4, MediaChange DEF Types
<1>6. /\ present' \subseteq Devices /\ listed' \subseteq Devices
      /\ selected' \in [Devices -> {"default", "null"}]
      /\ nullDev' \in BOOLEAN /\ deviceLost' \in BOOLEAN
  BY DevicesChange DEF Types, SetNullAudio, SetNullDev, NullDevices, StillLost, SetAudioDevice,
         AnswerCall, Plug
<1>7. lastReport' \in Report
  <2>0. \A c : MediaState(c) \in {"inactive", "connected"}
    BY DEF MediaState
  <2>1. CASE SendState
    <3>1. /\ lastReport.says \in {"disconnected", "none", "inactive", "connected"}
          /\ lastReport.byCommand \in BOOLEAN
      BY <2>1 DEF SendState, Types, Report
    <3>2. PICK says \in {"none", "inactive", "connected", "torn"} :
              lastReport' = Sent(says, lastReport.byCommand)
      BY <2>0, <2>1, <3>1 DEF SendState
    <3>3. QED BY <3>1, <3>2 DEF Report, Sent
  <2>2. CASE \/ ReportMedia \/ QueueRemoval \/ ReportDisconnected \/ ReportOther
             \/ \E c \in Calls : ReportCallState(c)
    <3>1. PICK says \in {"disconnected", "none", "inactive", "connected"}, by \in BOOLEAN :
              lastReport' = Pushed(says, by)
      BY <2>0, <2>2 DEF ReportMedia, QueueRemoval, ReportDisconnected, ReportOther, ReportCallState
    <3>2. QED BY <3>1 DEF Report, Pushed
  <2>3. QED BY <2>1, <2>2, MediaChange DEF Types
<1>8. /\ mainPc' \in {"idle", "lookup", "flag", "bridge"}
      /\ command' \in [device : Devices \cup {NoDevice}, on : BOOLEAN]
      /\ found' \in Calls \cup {NoCall}
  BY ThreadsChange DEF Types, mainVars, SetDeviceState, LookUpCall, SetFlag, SwitchDevice
<1>9. workerCall' \in Calls \cup {NoCall}
  BY ThreadsChange DEF Types, workerVars, StoreCall, ApplyDeviceStates, UseMedia,
         PublishMediaState, ReportMedia, ForgetMedia, QueueRemoval, ReleaseCall, NewCall,
         FindMedia, LoseMedia, EndCall, Begin, CheckFlag, ConnectDevice
<1>10. decided' \in BOOLEAN
  <2>1. ASSUME NEW d \in Devices, CheckFlag(d) PROVE decided' \in BOOLEAN
    <3>1. workerCall \in Calls
      BY <2>1 DEF CheckFlag, Doing, WorkerInv
    <3>2. QED BY <2>1, <3>1 DEF CheckFlag, Types
  <2>2. QED BY <2>1, ThreadsChange DEF Types, workerVars, StoreCall, ApplyDeviceStates, UseMedia,
         PublishMediaState, ReportMedia, ForgetMedia, QueueRemoval, ReleaseCall, NewCall,
         FindMedia, LoseMedia, EndCall, ConnectDevice
<1>11. changes' \in 0 .. MaxMedia /\ plugs' \in 0 .. MaxPlugs
  <2>1. changes' = changes \/ (changes < MaxMedia /\ changes' = changes + 1)
    BY BoundsChange DEF FindMedia, LoseMedia
  <2>2. plugs' = plugs \/ (plugs < MaxPlugs /\ plugs' = plugs + 1)
    BY BoundsChange DEF SetNullAudio, SetAudioDevice, Plug
  <2>3. QED BY <2>1, <2>2, BoundAssumption DEF Types
<1>12. QED BY <1>1, <1>2, <1>3, <1>4, <1>5, <1>6, <1>7, <1>8, <1>9, <1>10, <1>11 DEF Types

\* Which list each of the worker's steps leaves, and what it leaves of it.
LEMMA WorkerSteps ==
    ASSUME Shape
    PROVE  /\ StoreCall => workerTodo = SetupCall /\ workerTodo' = Applying
           /\ ApplyDeviceStates => workerTodo = Applying /\ workerTodo' = << >>
           /\ ForgetMedia => \/ workerTodo = MediaLost /\ workerTodo' = Reporting
                             \/ workerTodo = Ending /\ workerTodo' = Removing
           /\ QueueRemoval => workerTodo = Removing /\ workerTodo' = Releasing
           /\ ReleaseCall => workerTodo = Releasing /\ workerTodo' = << >>
           /\ PublishMediaState => workerTodo = Publishing /\ workerTodo' = Reporting
           /\ ReportMedia => workerTodo = Reporting /\ workerTodo' = << >>
           /\ UseMedia => \E m, s \in Devices :
                m # s /\ workerTodo = MediaActive(m, s) /\ workerTodo' = FirstCheck(m, s)
           /\ \A d \in Devices : CheckFlag(d) => \E m, s \in Devices :
                /\ m # s
                /\ \/ d = m /\ workerTodo = FirstCheck(m, s) /\ workerTodo' = FirstConnect(m, s)
                   \/ d = s /\ workerTodo = LastCheck(s) /\ workerTodo' = LastConnect(s)
           /\ \A d \in Devices : ConnectDevice(d) => \E m, s \in Devices :
                /\ m # s
                /\ \/ d = m /\ workerTodo = FirstConnect(m, s) /\ workerTodo' = LastCheck(s)
                   \/ d = s /\ workerTodo = LastConnect(s) /\ workerTodo' = Publishing
<1>1. StoreCall => workerTodo = SetupCall /\ workerTodo' = Applying
  BY Progress, Items DEF StoreCall, MediaStep
<1>2. ApplyDeviceStates => workerTodo = Applying /\ workerTodo' = << >>
  BY Progress, Items DEF ApplyDeviceStates, MediaStep
<1>3. ForgetMedia => \/ workerTodo = MediaLost /\ workerTodo' = Reporting
                     \/ workerTodo = Ending /\ workerTodo' = Removing
  BY Progress, Items DEF ForgetMedia, MediaStep
<1>4. QueueRemoval => workerTodo = Removing /\ workerTodo' = Releasing
  BY Progress, Items DEF QueueRemoval, MediaStep
<1>5. ReleaseCall => workerTodo = Releasing /\ workerTodo' = << >>
  BY Progress, Items DEF ReleaseCall, MediaStep
<1>6. PublishMediaState => workerTodo = Publishing /\ workerTodo' = Reporting
  BY Progress, Items DEF PublishMediaState, MediaStep
<1>7. ReportMedia => workerTodo = Reporting /\ workerTodo' = << >>
  BY Progress, Items DEF ReportMedia, MediaStep
<1>8. UseMedia => \E m, s \in Devices :
          m # s /\ workerTodo = MediaActive(m, s) /\ workerTodo' = FirstCheck(m, s)
  BY Progress, Items DEF UseMedia, MediaStep
<1>9. ASSUME NEW d \in Devices, CheckFlag(d)
      PROVE  \E m, s \in Devices :
                /\ m # s
                /\ \/ d = m /\ workerTodo = FirstCheck(m, s) /\ workerTodo' = FirstConnect(m, s)
                   \/ d = s /\ workerTodo = LastCheck(s) /\ workerTodo' = LastConnect(s)
  BY <1>9, Progress, Items DEF CheckFlag, MediaStep
<1>10. ASSUME NEW d \in Devices, ConnectDevice(d)
       PROVE  \E m, s \in Devices :
                /\ m # s
                /\ \/ d = m /\ workerTodo = FirstConnect(m, s) /\ workerTodo' = LastCheck(s)
                   \/ d = s /\ workerTodo = LastConnect(s) /\ workerTodo' = Publishing
  BY <1>10, Progress, Items DEF ConnectDevice, MediaStep
<1>11. QED BY <1>1, <1>2, <1>3, <1>4, <1>5, <1>6, <1>7, <1>8, <1>9, <1>10

\* What WorkerInv says of each list.
LEMMA WorkerAt ==
    ASSUME WorkerInv
    PROVE  /\ Shape
           /\ workerTodo # << >> => workerCall \in Calls
           /\ workerTodo = SetupCall =>
                call = NoCall /\ status[workerCall] = "ringing" /\ workerCall \notin port
           /\ workerTodo = Applying =>
                /\ call = workerCall /\ status[workerCall] \in {"ringing", "up"}
                /\ workerCall \notin port
           /\ workerTodo = MediaLost \/ workerTodo = Publishing \/ workerTodo = Reporting =>
                status[workerCall] = "up"
           /\ workerTodo = Ending \/ workerTodo = Removing => status[workerCall] = "ending"
           /\ workerTodo = Releasing => status[workerCall] = "over"
           /\ \A m, s \in Devices : workerTodo = MediaActive(m, s) \/ InUse(m, s) =>
                status[workerCall] = "up" /\ workerCall \in port
<1>1. Shape
  BY DEF WorkerInv, Shape
<1>2. CASE \E m, s \in Devices : workerTodo = MediaActive(m, s) \/ InUse(m, s)
  BY <1>1, <1>2, Lists, MediaLists, Items DEF WorkerInv, InUse
<1>3. CASE ~(\E m, s \in Devices : workerTodo = MediaActive(m, s) \/ InUse(m, s))
  BY <1>1, <1>3, Lists, Items DEF WorkerInv
<1>4. QED BY <1>2, <1>3

\* The worker's list and its call stay in step with the state of the call.
LEMMA WorkerKept ==
    ASSUME Types, WorkerInv, CallInv, [Next]_vars
    PROVE  WorkerInv'
<1>1. CASE UNCHANGED <<workerVars, call, status, port>>
  BY <1>1 DEF WorkerInv, InUse, workerVars
<1>2. ASSUME NEW c \in Calls, NewCall(c) PROVE WorkerInv'
  BY <1>2 DEF NewCall, Begin, WorkerInv, CallInv, Types
<1>3. ASSUME NEW c \in Calls, FindMedia(c) PROVE WorkerInv'
  BY <1>3 DEF FindMedia, Begin, WorkerInv, Types
<1>4. ASSUME NEW c \in Calls, LoseMedia(c) PROVE WorkerInv'
  BY <1>4 DEF LoseMedia, Begin, WorkerInv, Types
<1>5. ASSUME NEW c \in Calls, EndCall(c) PROVE WorkerInv'
  BY <1>5 DEF EndCall, Begin, Ending, WorkerInv, Types
<1>6. CASE StoreCall
  <2>1. workerTodo = SetupCall /\ workerTodo' = Applying /\ workerCall \in Calls
    BY <1>6, WorkerSteps, WorkerAt DEF StoreCall, Doing
  <2>2. QED BY <1>6, <2>1, WorkerAt DEF StoreCall, WorkerInv, libVars
<1>7. CASE ApplyDeviceStates
  BY <1>7, WorkerSteps, WorkerAt DEF WorkerInv
<1>8. CASE UseMedia
  BY <1>8, WorkerSteps, WorkerAt DEF UseMedia, WorkerInv, InUse, libVars, Types
<1>9. CASE PublishMediaState
  <2>1. workerTodo = Publishing /\ workerTodo' = Reporting /\ workerCall \in Calls
    BY <1>9, WorkerSteps, WorkerAt DEF PublishMediaState, Doing
  <2>2. QED BY <1>9, <2>1, WorkerAt DEF PublishMediaState, WorkerInv, libVars
<1>10. CASE ReportMedia \/ ReleaseCall
  BY <1>10, WorkerSteps, WorkerAt DEF WorkerInv
<1>11. CASE ForgetMedia
  <2>1. /\ \/ workerTodo = MediaLost /\ workerTodo' = Reporting
           \/ workerTodo = Ending /\ workerTodo' = Removing
        /\ workerCall \in Calls
    BY <1>11, WorkerSteps, WorkerAt DEF ForgetMedia, Doing
  <2>2. QED BY <1>11, <2>1, WorkerAt DEF ForgetMedia, WorkerInv, libVars
<1>12. CASE QueueRemoval
  <2>1. workerTodo' = Releasing /\ workerCall \in Calls
    BY <1>12, WorkerSteps, WorkerAt DEF QueueRemoval, Doing
  <2>2. QED BY <1>12, <2>1 DEF QueueRemoval, WorkerInv, Types
<1>13. ASSUME NEW d \in Devices, CheckFlag(d) PROVE WorkerInv'
  <2>1. PICK m \in Devices, s \in Devices :
            /\ m # s
            /\ \/ workerTodo = FirstCheck(m, s) /\ workerTodo' = FirstConnect(m, s)
               \/ workerTodo = LastCheck(s) /\ workerTodo' = LastConnect(s)
    BY <1>13, WorkerSteps, WorkerAt
  <2>2. InUse(m, s) /\ InUse(m, s)' /\ workerCall \in Calls
    BY <1>13, <2>1, WorkerAt DEF InUse, CheckFlag, Doing
  <2>3. status[workerCall] = "up" /\ workerCall \in port
    BY <2>2, WorkerAt
  <2>4. QED BY <1>13, <2>1, <2>2, <2>3 DEF CheckFlag, WorkerInv, libVars
<1>14. ASSUME NEW d \in Devices, ConnectDevice(d) PROVE WorkerInv'
  <2>1. PICK m \in Devices, s \in Devices :
            /\ m # s
            /\ \/ workerTodo = FirstConnect(m, s) /\ workerTodo' = LastCheck(s)
               \/ workerTodo = LastConnect(s) /\ workerTodo' = Publishing
    BY <1>14, WorkerSteps, WorkerAt
  <2>2. InUse(m, s) /\ (InUse(m, s)' \/ workerTodo' = Publishing) /\ workerCall \in Calls
    BY <1>14, <2>1, WorkerAt DEF InUse, ConnectDevice, Doing
  <2>3. status[workerCall] = "up" /\ workerCall \in port
    BY <2>2, WorkerAt
  <2>4. QED BY <1>14, <2>1, <2>2, <2>3 DEF ConnectDevice, WorkerInv
<1>15. CASE RemoveCall
  BY <1>15, WorkerAt DEF WorkerInv, InUse, RemoveCall, workerVars, libVars, Types
<1>16. CASE AnswerCall
  BY <1>16 DEF WorkerInv, InUse, AnswerCall, workerVars, Types
<1>17. QED BY <1>1, <1>2, <1>3, <1>4, <1>5, <1>6, <1>7, <1>8, <1>9, <1>10, <1>11, <1>12,
               <1>13, <1>14, <1>15, <1>16, ThreadsChange, TablesChange, MediaChange

\* A port taken away takes its connections along.
LEMMA PortKept ==
    ASSUME Types, WorkerInv, MainInv, CallInv, PortInv, [Next]_vars
    PROVE  PortInv'
<1>1. CASE UNCHANGED <<port, connected>>
  BY <1>1 DEF PortInv
<1>2. ASSUME NEW c \in Calls, FindMedia(c) PROVE PortInv'
  BY <1>2 DEF FindMedia, PortInv
<1>3. ASSUME NEW c \in Calls, LoseMedia(c) PROVE PortInv'
  BY <1>3 DEF LoseMedia, PortInv, Types
<1>4. CASE ReleaseCall
  BY <1>4 DEF ReleaseCall, PortInv, Types
<1>5. CASE SwitchDevice
  BY <1>5 DEF SwitchDevice, Switched, PortInv, Types
<1>6. ASSUME NEW d \in Devices, ConnectDevice(d) PROVE PortInv'
  BY <1>6 DEF ConnectDevice, Switched, PortInv, Types
<1>7. QED BY <1>1, <1>2, <1>3, <1>4, <1>5, <1>6, MediaChange

\* Every step keeps a command's device and the call it found.
LEMMA MainKept ==
    ASSUME Types, WorkerInv, MainInv, [Next]_vars
    PROVE  MainInv'
<1>1. CASE UNCHANGED <<mainVars, deviceStates, call>>
  BY <1>1 DEF MainInv, mainVars
<1>2. ASSUME NEW d \in Devices, NEW on \in BOOLEAN, SetDeviceState(d, on) PROVE MainInv'
  BY <1>2 DEF SetDeviceState, MainInv, Types
<1>3. CASE LookUpCall
  BY <1>3 DEF LookUpCall, MainInv
<1>4. CASE SetFlag
  BY <1>4 DEF SetFlag, MainInv
<1>5. CASE SwitchDevice
  BY <1>5 DEF SwitchDevice, MainInv
<1>6. CASE RemoveCall
  BY <1>6 DEF RemoveCall, MainInv, mainVars
<1>7. CASE StoreCall
  <2>1. call = NoCall
    BY <1>7, WorkerSteps, WorkerAt
  <2>2. QED BY <1>7, <2>1 DEF StoreCall, MainInv, mainVars
<1>8. QED BY <1>1, <1>2, <1>3, <1>4, <1>5, <1>6, <1>7, ThreadsChange, TablesChange

\* Every step leaves a call that is up its devices.
LEMMA DeviceKept ==
    ASSUME Types, DeviceInv, [Next]_vars
    PROVE  DeviceInv'
<1>1. CASE UNCHANGED <<present, listed, selected, nullDev, deviceLost, status>>
  BY <1>1 DEF DeviceInv, Usable
<1>2. CASE SetNullAudio
  BY <1>2 DEF SetNullAudio, SetNullDev, NullDevices, StillLost, DeviceInv, Usable, libVars
<1>3. CASE SetAudioDevice
  <2>1. UNCHANGED <<present, status>>
    BY <1>3 DEF SetAudioDevice, libVars
  <2>2. CASE listed' = present /\ Devices \subseteq listed' /\ nullDev' = FALSE
    BY <2>1, <2>2 DEF DeviceInv, Usable
  <2>3. CASE selected' = NullDevices
    BY <2>1, <2>3 DEF NullDevices, DeviceInv, Usable
  <2>4. CASE deviceLost' = TRUE
    BY <2>4 DEF DeviceInv
  <2>5. QED BY <1>3, <2>2, <2>3, <2>4 DEF SetAudioDevice
<1>4. CASE AnswerCall
  <2>1. UNCHANGED <<present, listed>>
    BY <1>4 DEF AnswerCall
  <2>2. CASE DeviceIsFine /\ UNCHANGED <<selected, nullDev, deviceLost>>
    BY <2>1, <2>2 DEF DeviceIsFine, DeviceInv, Usable, Types
  <2>3. CASE selected' = NullDevices
    BY <2>1, <2>3 DEF NullDevices, DeviceInv, Usable
  <2>4. CASE deviceLost' = TRUE
    BY <2>4 DEF DeviceInv
  <2>5. QED BY <1>4, <2>2, <2>3, <2>4 DEF AnswerCall, SetNullDev
<1>5. ASSUME NEW d \in Devices, Plug(d) PROVE DeviceInv'
  <2>1. UNCHANGED <<listed, selected, nullDev, status>>
    BY <1>5 DEF Plug, libVars
  <2>2. SUFFICES ASSUME ~deviceLost' PROVE DeviceInv'
    BY DEF DeviceInv
  <2>3. ~deviceLost /\ ~(selected[d] = "default" /\ d \in present \cap listed)
    BY <1>5, <2>2 DEF Plug
  <2>4. \A e \in Devices : selected[e] = "default" /\ e \in listed /\ e \in present => e \in present'
    BY <1>5, <2>3 DEF Plug
  <2>5. \A e \in Devices : Usable(e) => Usable(e)'
    BY <2>1, <2>4 DEF Usable, Types
  <2>6. QED BY <2>1, <2>3, <2>4, <2>5 DEF DeviceInv
<1>6. ASSUME NEW c \in Calls, NewCall(c) \/ EndCall(c) PROVE DeviceInv'
  BY <1>6 DEF NewCall, EndCall, DeviceInv, Usable, otherVars, deviceVars, Types
<1>7. CASE QueueRemoval
  BY <1>7 DEF QueueRemoval, DeviceInv, Usable, deviceVars, Types
<1>8. QED BY <1>1, <1>2, <1>3, <1>4, <1>5, <1>6, <1>7, DevicesChange, TablesChange

\* The account's call follows the account, whichever of a command and a setup
\* comes first.
LEMMA FollowKept ==
    ASSUME Types, WorkerInv, MainInv, FollowInv, [Next]_vars
    PROVE  FollowInv'
<1>1. CASE UNCHANGED <<call, enabled, deviceStates, mainVars, workerTodo>>
  BY <1>1 DEF FollowInv, mainVars
<1>2. ASSUME NEW d \in Devices, NEW on \in BOOLEAN, SetDeviceState(d, on) PROVE FollowInv'
  BY <1>2 DEF SetDeviceState, FollowInv, Types, workerVars
<1>3. CASE LookUpCall
  BY <1>3 DEF LookUpCall, FollowInv, workerVars
<1>4. CASE SetFlag
  BY <1>4 DEF SetFlag, FollowInv, MainInv, Types, workerVars
<1>5. CASE SwitchDevice
  BY <1>5 DEF SwitchDevice, FollowInv, workerVars
<1>6. CASE RemoveCall
  BY <1>6 DEF RemoveCall, FollowInv
<1>7. CASE StoreCall
  BY <1>7, WorkerSteps, WorkerAt DEF FollowInv
<1>8. CASE ApplyDeviceStates
  <2>1. call = workerCall /\ workerCall \in Calls
    BY <1>8, WorkerSteps, WorkerAt DEF ApplyDeviceStates, Doing
  <2>2. QED BY <1>8, <2>1 DEF ApplyDeviceStates, FollowInv, Types
<1>9. ASSUME workerTodo # Applying, UNCHANGED <<call, enabled, deviceStates, mainVars>>
      PROVE  FollowInv'
  BY <1>9 DEF FollowInv, mainVars
<1>10. workerTodo # Applying \/ ApplyDeviceStates \/ workerTodo' = workerTodo
  <2>1. workerTodo = Applying =>
            ~(\E d \in Devices : CheckFlag(d) \/ ConnectDevice(d)) /\ ~UseMedia /\ ~ForgetMedia
    BY WorkerSteps, WorkerAt, Lists, MediaLists, Items
  <2>2. workerTodo = Applying =>
            /\ ~StoreCall /\ ~PublishMediaState /\ ~ReportMedia /\ ~QueueRemoval /\ ~ReleaseCall
    BY WorkerSteps, WorkerAt, Lists, Items
  <2>3. workerTodo = Applying =>
            ~(\E c \in Calls : NewCall(c) \/ FindMedia(c) \/ LoseMedia(c) \/ EndCall(c))
    BY Lists DEF NewCall, FindMedia, LoseMedia, EndCall, Begin
  <2>4. QED BY <2>1, <2>2, <2>3, ThreadsChange DEF workerVars
<1>11. QED BY <1>1, <1>2, <1>3, <1>4, <1>5, <1>6, <1>7, <1>8, <1>9, <1>10, ThreadsChange,
               TablesChange DEF mainVars

\* A call that is alive is in the table or about to be, one with a port has
\* been answered, and only a call that is up keeps media or its state.
LEMMA CallKept ==
    ASSUME Types, WorkerInv, CallInv, [Next]_vars
    PROVE  CallInv'
<1>1. CASE UNCHANGED <<status, call, port, currentAudioMedia, currentMediaState, workerTodo,
                       workerCall>>
  BY <1>1 DEF CallInv
<1>2. ASSUME NEW c \in Calls, NewCall(c) PROVE CallInv'
  <2>1. workerTodo # SetupCall /\ workerTodo # MediaLost /\ workerTodo # Ending
    BY <1>2, Lists DEF NewCall, Begin
  <2>2. QED BY <1>2, <2>1, NoneAssumption DEF NewCall, Begin, CallInv, Types, otherVars, reportVars
<1>3. ASSUME NEW c \in Calls, FindMedia(c) PROVE CallInv'
  <2>1. workerTodo # SetupCall /\ workerTodo # MediaLost /\ workerTodo # Ending
    BY <1>3, Lists DEF FindMedia, Begin
  <2>2. QED BY <1>3, <2>1 DEF FindMedia, Begin, CallInv, otherVars, reportVars
<1>4. ASSUME NEW c \in Calls, LoseMedia(c) PROVE CallInv'
  <2>1. workerTodo # SetupCall /\ workerTodo # MediaLost /\ workerTodo # Ending
    BY <1>4, Lists DEF LoseMedia, Begin
  <2>2. QED BY <1>4, <2>1 DEF LoseMedia, Begin, CallInv, otherVars, reportVars
<1>5. ASSUME NEW c \in Calls, EndCall(c) PROVE CallInv'
  <2>1. workerTodo # SetupCall /\ workerTodo # MediaLost /\ workerTodo # Ending
    BY <1>5, Lists DEF EndCall, Begin
  <2>2. QED BY <1>5, <2>1 DEF EndCall, Begin, Ending, CallInv, Types, otherVars, reportVars
<1>6. CASE StoreCall
  <2>1. workerTodo = SetupCall /\ workerTodo' = Applying /\ workerCall' = workerCall
    BY <1>6, WorkerSteps, WorkerAt DEF StoreCall
  <2>2. call = NoCall /\ workerTodo # MediaLost /\ workerTodo # Ending
    BY <2>1, WorkerAt, Lists, Items
  <2>3. QED BY <1>6, <2>1, <2>2, NoneAssumption DEF StoreCall, CallInv, libVars, otherVars,
            reportVars
<1>7. CASE ApplyDeviceStates
  <2>1. workerTodo = Applying /\ workerTodo' = << >> /\ workerCall' = workerCall
    BY <1>7, WorkerSteps, WorkerAt DEF ApplyDeviceStates
  <2>2. QED BY <1>7, <2>1, Lists, Items DEF ApplyDeviceStates, CallInv, libVars, otherVars, reportVars
<1>8. CASE UseMedia
  <2>1. PICK m \in Devices, s \in Devices :
            m # s /\ workerTodo = MediaActive(m, s) /\ workerTodo' = FirstCheck(m, s)
    BY <1>8, WorkerSteps, WorkerAt
  <2>2. status[workerCall] = "up" /\ workerCall \in port
    BY <2>1, WorkerAt
  <2>3. QED BY <1>8, <2>1, <2>2, Lists, MediaLists, Items DEF UseMedia, CallInv, libVars, otherVars, reportVars
<1>9. CASE PublishMediaState
  <2>1. workerTodo = Publishing /\ workerTodo' = Reporting /\ status[workerCall] = "up"
    BY <1>9, WorkerSteps, WorkerAt
  <2>2. QED BY <1>9, <2>1, Lists, Items DEF PublishMediaState, CallInv, libVars
<1>10. CASE ReportMedia
  <2>1. workerTodo = Reporting /\ workerTodo' = << >>
    BY <1>10, WorkerSteps, WorkerAt
  <2>2. QED BY <1>10, <2>1, Lists, Items DEF ReportMedia, CallInv, libVars
<1>11. CASE ForgetMedia
  <2>1. /\ \/ workerTodo = MediaLost /\ workerTodo' = Reporting
           \/ workerTodo = Ending /\ workerTodo' = Removing
        /\ workerCall' = workerCall
    BY <1>11, WorkerSteps, WorkerAt DEF ForgetMedia
  <2>2. QED BY <1>11, <2>1, Lists, Items DEF ForgetMedia, CallInv, libVars
<1>12. CASE QueueRemoval
  <2>1. workerTodo = Removing /\ workerTodo' = Releasing /\ status[workerCall] = "ending"
    BY <1>12, WorkerSteps, WorkerAt
  <2>2. QED BY <1>12, <2>1, Lists, Items DEF QueueRemoval, CallInv, Types
<1>13. CASE ReleaseCall
  <2>1. workerTodo = Releasing /\ workerTodo' = << >> /\ status[workerCall] = "over"
    BY <1>13, WorkerSteps, WorkerAt
  <2>2. QED BY <1>13, <2>1, Lists, Items DEF ReleaseCall, CallInv, otherVars, reportVars
<1>14. ASSUME NEW d \in Devices, CheckFlag(d) \/ ConnectDevice(d) PROVE CallInv'
  <2>1. PICK m \in Devices, s \in Devices :
            \/ workerTodo = FirstCheck(m, s) /\ workerTodo' = FirstConnect(m, s)
            \/ workerTodo = LastCheck(s) /\ workerTodo' = LastConnect(s)
            \/ workerTodo = FirstConnect(m, s) /\ workerTodo' = LastCheck(s)
            \/ workerTodo = LastConnect(s) /\ workerTodo' = Publishing
    BY <1>14, WorkerSteps, WorkerAt
  <2>2. workerTodo # SetupCall /\ workerTodo # MediaLost /\ workerTodo # Ending
    BY <2>1, Lists, MediaLists, Items
  <2>3. QED BY <1>14, <2>2 DEF CheckFlag, ConnectDevice, CallInv, libVars, otherVars, reportVars
<1>15. CASE RemoveCall
  BY <1>15, WorkerAt DEF RemoveCall, CallInv, libVars, workerVars, otherVars, reportVars
<1>16. CASE AnswerCall
  BY <1>16, WorkerAt DEF AnswerCall, CallInv, Types, workerVars, reportVars
<1>17. QED BY <1>1, <1>2, <1>3, <1>4, <1>5, <1>6, <1>7, <1>8, <1>9, <1>10, <1>11, <1>12,
               <1>13, <1>14, <1>15, <1>16, ThreadsChange, TablesChange, MediaChange DEF workerVars

\* A worker that has nothing to do is not going to do anything for a call.
LEMMA Unready == ASSUME workerTodo = << >>, NEW c, NEW d PROVE ~WorkerWill(c, d)
<1>1. \A m, s \in Devices :
          /\ workerTodo # FirstCheck(m, s) /\ workerTodo # FirstConnect(m, s)
          /\ workerTodo # LastCheck(s) /\ workerTodo # LastConnect(s)
  BY DEF FirstCheck, FirstConnect, LastCheck, LastConnect
<1>2. workerTodo # MediaLost /\ workerTodo # Ending
  BY Lists
<1>3. QED BY <1>1, <1>2 DEF WorkerWill

\* From each of its lists on, the worker sees to no other devices than these.
LEMMA WillOnly ==
    ASSUME NEW c, NEW d, WorkerWill(c, d), NEW m, NEW s
    PROVE  /\ workerTodo = FirstConnect(m, s) => d # m \/ decided
           /\ workerTodo = LastCheck(s) => d = s
           /\ workerTodo = LastConnect(s) => d = s /\ decided
           /\ workerTodo # Publishing /\ workerTodo # Reporting /\ workerTodo # Removing
           /\ workerTodo # SetupCall
<1>1. CASE workerTodo = MediaLost \/ workerTodo = Ending
  BY <1>1, Lists, MediaLists, Items
<1>2. ASSUME NEW m2 \in Devices, NEW s2 \in Devices, m2 # s2, workerTodo = FirstCheck(m2, s2)
      PROVE  /\ workerTodo # FirstConnect(m, s)
             /\ workerTodo # LastCheck(s) /\ workerTodo # LastConnect(s)
             /\ workerTodo # Publishing /\ workerTodo # Reporting /\ workerTodo # Removing
             /\ workerTodo # SetupCall
  <2>1. Len(workerTodo) = 6
    BY <1>2, MediaLists
  <2>2. QED BY <2>1, Lists, MediaLists
<1>3. ASSUME NEW m2 \in Devices, NEW s2 \in Devices, m2 # s2, workerTodo = FirstConnect(m2, s2),
             d = s2 \/ decided
      PROVE  /\ workerTodo = FirstConnect(m, s) => d # m \/ decided
             /\ workerTodo # LastCheck(s) /\ workerTodo # LastConnect(s)
             /\ workerTodo # Publishing /\ workerTodo # Reporting /\ workerTodo # Removing
             /\ workerTodo # SetupCall
  <2>1. Len(workerTodo) = 5 /\ Head(workerTodo).device = m2
    BY <1>3, MediaLists, Items
  <2>2. workerTodo = FirstConnect(m, s) => m = m2
    BY <2>1, MediaLists, Items
  <2>3. QED BY <1>3, <2>1, <2>2, Lists, MediaLists
<1>4. ASSUME NEW s2 \in Devices, workerTodo = LastCheck(s2), d = s2
      PROVE  /\ workerTodo = LastCheck(s) => d = s
             /\ workerTodo # FirstConnect(m, s) /\ workerTodo # LastConnect(s)
             /\ workerTodo # Publishing /\ workerTodo # Reporting /\ workerTodo # Removing
             /\ workerTodo # SetupCall
  BY <1>4, Lists, MediaLists, Items
<1>5. ASSUME NEW s2 \in Devices, workerTodo = LastConnect(s2), d = s2, decided
      PROVE  /\ workerTodo = LastConnect(s) => d = s
             /\ workerTodo # FirstConnect(m, s) /\ workerTodo # LastCheck(s)
             /\ workerTodo # Publishing /\ workerTodo # Reporting /\ workerTodo # Removing
             /\ workerTodo # SetupCall
  BY <1>5, Lists, MediaLists, Items
<1>6. QED BY <1>1, <1>2, <1>3, <1>4, <1>5 DEF WorkerWill

\* A device that is on is connected, or will be by the thread that is at it.
LEMMA HeardKept ==
    ASSUME Types, WorkerInv, CallInv, MainInv, DeviceInv, HeardInv, [Next]_vars
    PROVE  HeardInv'
<1>0. SUFFICES ASSUME ~deviceLost', NEW c \in currentAudioMedia', NEW d \in Devices, enabled'[c][d]
               PROVE  d \in connected'[c] \/ MainWill(c, d)' \/ WorkerWill(c, d)'
  BY DEF HeardInv
<1>1. SUFFICES ASSUME ~deviceLost
               PROVE  d \in connected'[c] \/ MainWill(c, d)' \/ WorkerWill(c, d)'
  <2>1. SUFFICES ASSUME deviceLost PROVE WorkerWill(c, d)'
    OBVIOUS
  <2>2. SetNullAudio \/ SetAudioDevice \/ AnswerCall
    BY <1>0, <2>1, DevicesChange DEF Plug
  <2>3. ~StillLost /\ UNCHANGED <<currentAudioMedia, workerVars>>
    BY <1>0, <2>1, <2>2 DEF SetNullAudio, SetNullDev, SetAudioDevice, AnswerCall
  <2>4. c \in Calls /\ status[c] # "up"
    BY <2>1, <2>3 DEF StillLost, Types
  <2>5. workerCall = c /\ (workerTodo = MediaLost \/ workerTodo = Ending)
    BY <2>3, <2>4 DEF CallInv
  <2>6. QED BY <2>3, <2>5 DEF WorkerWill, workerVars
<1>2. CASE UNCHANGED <<currentAudioMedia, enabled, connected, mainVars, workerVars>>
  BY <1>0, <1>1, <1>2 DEF HeardInv, MainWill, WorkerWill, mainVars, workerVars
<1>3. ASSUME NEW d2 \in Devices, NEW on \in BOOLEAN, SetDeviceState(d2, on)
      PROVE  d \in connected'[c] \/ MainWill(c, d)' \/ WorkerWill(c, d)'
  BY <1>0, <1>1, <1>3 DEF SetDeviceState, HeardInv, MainWill, WorkerWill, libVars, workerVars
<1>4. CASE LookUpCall
  BY <1>0, <1>1, <1>4 DEF LookUpCall, HeardInv, MainWill, WorkerWill, libVars, workerVars
<1>5. CASE SetFlag
  BY <1>0, <1>1, <1>5 DEF SetFlag, HeardInv, MainInv, MainWill, WorkerWill, libVars, workerVars, Types
<1>6. CASE SwitchDevice
  <2>1. UNCHANGED <<currentAudioMedia, enabled, workerVars>>
    BY <1>6 DEF SwitchDevice
  <2>2. c \in Calls /\ (WorkerWill(c, d)' <=> WorkerWill(c, d))
    BY <2>1 DEF WorkerWill, workerVars, Types
  <2>3. CASE c = found /\ d = command.device
    <3>1. CASE c \in port /\ status[c] = "up"
      <4>1. Usable(d)
        BY <1>1, <2>2, <3>1 DEF DeviceInv
      <4>2. QED BY <1>0, <1>6, <2>1, <2>2, <2>3, <3>1, <4>1 DEF SwitchDevice, Switched, Types
    <3>2. CASE ~(c \in port /\ status[c] = "up")
      BY <1>0, <2>1, <2>2, <3>2 DEF CallInv, WorkerWill
    <3>3. QED BY <3>1, <3>2
  <2>4. CASE ~(c = found /\ d = command.device)
    <3>1. d \in connected[c] => d \in connected'[c]
      BY <1>6, <2>2, <2>4 DEF SwitchDevice, Switched, Types
    <3>2. QED BY <1>0, <1>1, <2>1, <2>2, <2>4, <3>1 DEF HeardInv, MainWill
  <2>5. QED BY <2>3, <2>4
<1>7. ASSUME NEW c2 \in Calls, NewCall(c2) \/ FindMedia(c2)
      PROVE  d \in connected'[c] \/ MainWill(c, d)' \/ WorkerWill(c, d)'
  <2>1. ~WorkerWill(c, d)
    BY <1>7, Unready DEF NewCall, FindMedia, Begin
  <2>2. QED BY <1>0, <1>1, <1>7, <2>1 DEF NewCall, FindMedia, HeardInv, MainWill, mainVars, libVars
<1>8. ASSUME NEW c2 \in Calls, LoseMedia(c2) \/ EndCall(c2)
      PROVE  d \in connected'[c] \/ MainWill(c, d)' \/ WorkerWill(c, d)'
  <2>1. ~WorkerWill(c, d)
    BY <1>8, Unready DEF LoseMedia, EndCall, Begin
  <2>2. CASE c = c2
    BY <1>8, <2>2 DEF LoseMedia, EndCall, Begin, Ending, WorkerWill
  <2>3. CASE c # c2
    BY <1>0, <1>1, <1>8, <2>1, <2>3 DEF LoseMedia, EndCall, HeardInv, MainWill, mainVars, libVars, Types
  <2>4. QED BY <2>2, <2>3
<1>9. CASE ApplyDeviceStates
  <2>1. workerTodo = Applying /\ workerCall \notin port
    BY <1>9, WorkerSteps, WorkerAt
  <2>2. c # workerCall /\ ~WorkerWill(c, d)
    <3>1. workerTodo # MediaLost /\ workerTodo # Ending
      BY <2>1, Lists, Items
    <3>2. \A m, s \in Devices :
              /\ workerTodo # FirstCheck(m, s) /\ workerTodo # FirstConnect(m, s)
              /\ workerTodo # LastCheck(s) /\ workerTodo # LastConnect(s)
      BY <2>1, Lists, MediaLists
    <3>3. c # workerCall
      BY <1>0, <1>9, <2>1, <3>1 DEF ApplyDeviceStates, CallInv
    <3>4. QED BY <3>1, <3>2, <3>3 DEF WorkerWill
  <2>3. enabled[c][d]
    BY <1>0, <1>9, <2>2 DEF ApplyDeviceStates, Types
  <2>4. QED BY <1>0, <1>1, <1>9, <2>2, <2>3 DEF ApplyDeviceStates, HeardInv, MainWill, libVars, mainVars
<1>10. CASE ForgetMedia
  <2>1. c # workerCall
    BY <1>0, <1>10 DEF ForgetMedia
  <2>2. QED BY <1>0, <1>1, <1>10, <2>1 DEF ForgetMedia, HeardInv, MainWill, WorkerWill, libVars, mainVars
<1>11. CASE ReleaseCall
  <2>1. workerTodo = Releasing /\ status[workerCall] = "over"
    BY <1>11, WorkerSteps, WorkerAt
  <2>2. workerTodo # MediaLost /\ workerTodo # Ending
    BY <2>1, Lists, Items
  <2>3. c # workerCall
    BY <1>0, <1>11, <2>1, <2>2 DEF ReleaseCall, CallInv
  <2>4. QED BY <1>0, <1>1, <1>11, <2>3 DEF ReleaseCall, HeardInv, MainWill, WorkerWill, mainVars, Types
<1>12. CASE UseMedia
  <2>1. PICK m \in Devices, s \in Devices :
            m # s /\ workerTodo = MediaActive(m, s) /\ workerTodo' = FirstCheck(m, s)
    BY <1>12, WorkerSteps, WorkerAt
  <2>2. CASE c = workerCall
    BY <1>12, <2>1, <2>2 DEF UseMedia, WorkerWill
  <2>3. CASE c # workerCall
    BY <1>0, <1>1, <1>12, <2>3 DEF UseMedia, HeardInv, MainWill, WorkerWill, libVars, mainVars
  <2>4. QED BY <2>2, <2>3
<1>13. ASSUME NEW d2 \in Devices, CheckFlag(d2)
       PROVE  d \in connected'[c] \/ MainWill(c, d)' \/ WorkerWill(c, d)'
  <2>1. CASE c = workerCall
    <3>1. PICK m \in Devices, s \in Devices :
              /\ m # s
              /\ \/ d2 = m /\ workerTodo = FirstCheck(m, s) /\ workerTodo' = FirstConnect(m, s)
                 \/ d2 = s /\ workerTodo = LastCheck(s) /\ workerTodo' = LastConnect(s)
      BY <1>13, WorkerSteps, WorkerAt
    <3>2. CASE d2 = m /\ workerTodo = FirstCheck(m, s) /\ workerTodo' = FirstConnect(m, s)
      <4>1. d = m \/ d = s
        BY <3>1, DevicesAssumption
      <4>2. QED BY <1>0, <1>13, <2>1, <3>1, <3>2, <4>1 DEF CheckFlag, WorkerWill
    <3>3. CASE d2 = s /\ workerTodo = LastCheck(s) /\ workerTodo' = LastConnect(s)
      <4>1. CASE d = s
        BY <1>0, <1>13, <2>1, <3>1, <3>3, <4>1 DEF CheckFlag, WorkerWill
      <4>2. CASE d # s
        <5>1. ~WorkerWill(c, d)
          BY <3>3, <4>2, WillOnly
        <5>2. QED BY <1>0, <1>1, <1>13, <5>1 DEF CheckFlag, HeardInv, MainWill, libVars, mainVars
      <4>3. QED BY <4>1, <4>2
    <3>4. QED BY <3>1, <3>2, <3>3
  <2>2. CASE c # workerCall
    BY <1>0, <1>1, <1>13, <2>2 DEF CheckFlag, HeardInv, MainWill, WorkerWill, libVars, mainVars
  <2>3. QED BY <2>1, <2>2
<1>14. ASSUME NEW d2 \in Devices, ConnectDevice(d2)
       PROVE  d \in connected'[c] \/ MainWill(c, d)' \/ WorkerWill(c, d)'
  <2>0. c \in currentAudioMedia /\ c \in Calls /\ enabled[c][d] /\ (MainWill(c, d)' <=> MainWill(c, d))
    BY <1>0, <1>14 DEF ConnectDevice, MainWill, mainVars, Types
  <2>1. d \in connected[c] => d \in connected'[c]
    BY <2>0, <1>14 DEF ConnectDevice, Switched, Types
  <2>2. CASE c = workerCall
    <3>1. PICK m \in Devices, s \in Devices :
              /\ m # s
              /\ \/ d2 = m /\ workerTodo = FirstConnect(m, s) /\ workerTodo' = LastCheck(s)
                 \/ d2 = s /\ workerTodo = LastConnect(s) /\ workerTodo' = Publishing
      BY <1>14, WorkerSteps, WorkerAt
    <3>2. CASE d = d2 /\ decided
      <4>1. InUse(m, s)
        BY <3>1 DEF InUse
      <4>2. status[c] = "up" /\ c \in port
        BY <2>2, <4>1, WorkerAt
      <4>3. Usable(d)
        BY <1>1, <2>0, <4>2 DEF DeviceInv
      <4>4. QED BY <1>14, <2>0, <2>2, <3>2, <4>2, <4>3 DEF ConnectDevice, Switched, Types
    <3>3. CASE d = d2 /\ ~decided
      <4>1. ~WorkerWill(c, d)
        BY <3>1, <3>3, WillOnly
      <4>2. QED BY <1>1, <2>0, <2>1, <4>1 DEF HeardInv
    <3>4. CASE d # d2
      <4>1. d = m \/ d = s
        BY <3>1, DevicesAssumption
      <4>2. CASE d = s
        BY <1>14, <2>2, <3>1, <3>4, <4>2 DEF ConnectDevice, WorkerWill
      <4>3. CASE d = m /\ d2 = s /\ workerTodo = LastConnect(s)
        <5>1. ~WorkerWill(c, d)
          BY <3>1, <4>3, WillOnly
        <5>2. QED BY <1>1, <2>0, <2>1, <5>1 DEF HeardInv
      <4>4. QED BY <3>1, <3>4, <4>1, <4>2, <4>3
    <3>5. QED BY <3>2, <3>3, <3>4
  <2>3. CASE c # workerCall
    BY <1>1, <2>0, <2>1, <2>3 DEF HeardInv, WorkerWill
  <2>4. QED BY <2>2, <2>3
<1>15. CASE PublishMediaState \/ ReportMedia \/ QueueRemoval \/ StoreCall
  <2>1. \/ workerTodo = Publishing \/ workerTodo = Reporting \/ workerTodo = Removing
        \/ workerTodo = SetupCall
    BY <1>15, WorkerSteps, WorkerAt
  <2>2. ~WorkerWill(c, d)
    BY <2>1, WillOnly
  <2>3. QED BY <1>0, <1>1, <1>15, <2>2 DEF PublishMediaState, ReportMedia, QueueRemoval, StoreCall,
            HeardInv, MainWill, libVars, mainVars
<1>16. QED BY <1>2, <1>3, <1>4, <1>5, <1>6, <1>7, <1>8, <1>9, <1>10, <1>11, <1>12, <1>13, <1>14,
               <1>15, ThreadsChange, TablesChange, MediaChange

\* At these lists a report is still to come.
LEMMA NotQuietNext ==
    ASSUME NEW m, NEW s,
           \/ workerTodo' = MediaLost \/ workerTodo' = Publishing \/ workerTodo' = Reporting
           \/ workerTodo' = Ending \/ workerTodo' = Removing
           \/ workerTodo' = MediaActive(m, s) \/ InUse(m, s)'
    PROVE  ~Quiet'
<1>1. CASE workerTodo' = MediaActive(m, s) \/ InUse(m, s)'
  <2>1. Head(workerTodo').step \in {"use", "check", "connect"}
    BY <1>1, MediaLists, Items DEF InUse
  <2>2. workerTodo' # << >>
    BY <1>1 DEF InUse, MediaActive, FirstCheck, FirstConnect, LastCheck, LastConnect
  <2>3. QED BY <2>1, <2>2, Lists, Items DEF Quiet
<1>2. CASE \/ workerTodo' = MediaLost \/ workerTodo' = Publishing \/ workerTodo' = Reporting
           \/ workerTodo' = Ending \/ workerTodo' = Removing
  BY <1>2, Lists, Items DEF Quiet
<1>3. QED BY <1>1, <1>2

\* The client is told the truth, or a report is still to come.
LEMMA ToldKept ==
    ASSUME Types, WorkerInv, CallInv, ToldInv, [Next]_vars
    PROVE  ToldInv'
<1>1. CASE UNCHANGED <<lastReport, workerTodo, call, status, currentMediaState>>
  BY <1>1 DEF ToldInv, Quiet, Connected, Truthful
<1>2. CASE SendState
  <2>1. /\ UNCHANGED <<workerTodo, call, status, currentMediaState>>
        /\ lastReport'.sent /\ lastReport'.byCommand = lastReport.byCommand
    BY <1>2 DEF SendState, Sent, libVars, workerVars
  <2>2. CASE Quiet /\ ~lastReport.byCommand
    <3>1. ~(workerTodo # << >> /\ Head(workerTodo) = Do("publish"))
      BY <2>2, Lists, Items DEF Quiet
    <3>2. lastReport'.says = IF lastReport.says = "disconnected" THEN "inactive"
                             ELSE IF call = NoCall THEN lastReport.says ELSE MediaState(call)
      BY <1>2, <3>1 DEF SendState, Sent
    <3>3. /\ lastReport.says \in {"disconnected", "none", "inactive", "connected"}
          /\ ~lastReport.sent
      BY <1>2 DEF SendState, Types, Report
    <3>4. Truthful(lastReport'.says, Connected)
      BY <2>2, <3>2, <3>3 DEF ToldInv, Connected, Truthful, MediaState
    <3>5. QED BY <2>1, <3>4 DEF ToldInv, Connected, Truthful
  <2>3. CASE ~(Quiet /\ ~lastReport.byCommand)
    BY <2>1, <2>3 DEF ToldInv, Quiet
  <2>4. QED BY <2>2, <2>3
<1>3. ASSUME NEW c \in Calls, NewCall(c) PROVE ToldInv'
  <2>1. Quiet /\ call = NoCall /\ UNCHANGED <<call, lastReport>>
    BY <1>3 DEF NewCall, Begin, Quiet, otherVars, reportVars
  <2>2. QED BY <2>1 DEF ToldInv, Connected, Truthful
<1>4. ASSUME NEW c \in Calls, FindMedia(c) PROVE ToldInv'
  <2>1. UNCHANGED <<call, status, lastReport, currentMediaState>>
    BY <1>4 DEF FindMedia, otherVars, reportVars
  <2>2. CASE workerTodo' = workerTodo
    BY <2>1, <2>2 DEF ToldInv, Quiet, Connected, Truthful
  <2>3. CASE \E m, s \in Devices : workerTodo' = MediaActive(m, s)
    BY <2>1, <2>3, NotQuietNext DEF ToldInv
  <2>4. QED BY <1>4, <2>2, <2>3 DEF FindMedia, Begin
<1>5. ASSUME NEW c \in Calls, LoseMedia(c) PROVE ToldInv'
  <2>1. UNCHANGED <<call, status, lastReport>> /\ workerTodo' = MediaLost
    BY <1>5 DEF LoseMedia, Begin, otherVars, reportVars
  <2>2. QED BY <2>1, NotQuietNext DEF ToldInv
<1>6. ASSUME NEW c \in Calls, EndCall(c) PROVE ToldInv'
  <2>1. UNCHANGED <<call, lastReport>> /\ workerTodo' = Ending
    BY <1>6 DEF EndCall, Begin, Ending, otherVars, reportVars
  <2>2. call # NoCall /\ status'[call] = "over" => status[call] = "over"
    BY <1>6 DEF EndCall, Types
  <2>3. QED BY <2>1, <2>2, NotQuietNext DEF ToldInv
<1>7. CASE StoreCall
  <2>1. workerTodo = SetupCall /\ workerTodo' = Applying /\ workerCall \in Calls
    BY <1>7, WorkerSteps, WorkerAt DEF StoreCall, Doing
  <2>2. call = NoCall /\ status[workerCall] = "ringing" /\ workerTodo # Ending
    BY <2>1, WorkerAt, Lists, Items
  <2>3. workerCall \notin currentMediaState
    BY <2>2 DEF CallInv
  <2>4. call' = workerCall /\ UNCHANGED <<status, currentMediaState, lastReport>>
    BY <1>7 DEF StoreCall, libVars, otherVars, reportVars
  <2>5. ~Connected /\ ~Connected'
    BY <2>2, <2>3, <2>4 DEF Connected
  <2>6. QED BY <2>1, <2>2, <2>4, <2>5, NoneAssumption DEF ToldInv, Quiet, Truthful
<1>8. CASE ApplyDeviceStates \/ ReleaseCall
  <2>1. (workerTodo = Applying \/ workerTodo = Releasing) /\ workerTodo' = << >>
    BY <1>8, WorkerSteps, WorkerAt
  <2>2. UNCHANGED <<call, status, currentMediaState, lastReport>>
    BY <1>8 DEF ApplyDeviceStates, ReleaseCall, libVars, otherVars, reportVars
  <2>3. QED BY <2>1, <2>2 DEF ToldInv, Quiet, Connected, Truthful
<1>9. CASE UseMedia \/ \E d \in Devices : CheckFlag(d) \/ ConnectDevice(d)
  <2>1. \E m, s \in Devices : InUse(m, s)' \/ workerTodo' = Publishing
    BY <1>9, WorkerSteps, WorkerAt DEF InUse
  <2>2. UNCHANGED <<call, status, lastReport>>
    BY <1>9 DEF UseMedia, CheckFlag, ConnectDevice, libVars, otherVars, reportVars
  <2>3. QED BY <2>1, <2>2, NotQuietNext DEF ToldInv
<1>10. CASE ForgetMedia \/ PublishMediaState
  <2>1. workerTodo' = Reporting \/ workerTodo' = Removing
    BY <1>10, WorkerSteps, WorkerAt
  <2>2. UNCHANGED <<call, status, lastReport>>
    BY <1>10 DEF ForgetMedia, PublishMediaState, libVars
  <2>3. QED BY <2>1, <2>2, NotQuietNext DEF ToldInv
<1>11. CASE ReportMedia
  <2>1. workerTodo = Reporting /\ workerCall \in Calls /\ status[workerCall] = "up"
    BY <1>11, WorkerSteps, WorkerAt DEF ReportMedia, Doing
  <2>2. workerCall = call /\ call # NoCall
    BY <2>1, Lists, Items, NoneAssumption DEF CallInv
  <2>3. UNCHANGED <<call, status, currentMediaState>> /\ lastReport' = Pushed(MediaState(call), FALSE)
    BY <1>11, <2>2 DEF ReportMedia, libVars
  <2>4. MediaState(call) # "disconnected"
    BY DEF MediaState
  <2>5. ~lastReport'.sent /\ lastReport'.says = MediaState(call)
    BY <2>3 DEF Pushed
  <2>6. QED BY <2>1, <2>2, <2>3, <2>4, <2>5 DEF ToldInv
<1>12. CASE QueueRemoval
  <2>1. workerTodo = Removing /\ workerCall \in Calls /\ status[workerCall] = "ending"
    BY <1>12, WorkerSteps, WorkerAt DEF QueueRemoval, Doing
  <2>2. workerTodo # SetupCall /\ workerTodo # Ending
    BY <2>1, Lists, Items
  <2>3. workerCall = call /\ workerCall \notin currentMediaState
    BY <2>1, <2>2 DEF CallInv
  <2>4. UNCHANGED <<call, currentMediaState>> /\ lastReport' = Pushed("disconnected", FALSE)
    BY <1>12 DEF QueueRemoval
  <2>5. ~Connected'
    BY <2>3, <2>4 DEF Connected
  <2>6. ~lastReport'.sent /\ lastReport'.says = "disconnected"
    BY <2>4 DEF Pushed
  <2>7. QED BY <2>5, <2>6 DEF ToldInv
<1>13. CASE RemoveCall
  <2>1. /\ call \in Calls /\ status[call] = "over" /\ call' = NoCall
        /\ UNCHANGED <<workerTodo, status, currentMediaState, lastReport>>
    BY <1>13 DEF RemoveCall, libVars, workerVars, otherVars, reportVars, Types
  <2>2. call \notin currentMediaState
    BY <2>1, WorkerAt DEF CallInv
  <2>3. ~Connected /\ ~Connected'
    BY <2>1, <2>2 DEF Connected
  <2>4. QED BY <2>1, <2>3 DEF ToldInv, Quiet, Truthful
<1>14. CASE AnswerCall
  <2>1. UNCHANGED <<workerTodo, call, currentMediaState, lastReport>>
    BY <1>14 DEF AnswerCall, workerVars, reportVars
  <2>2. call # NoCall /\ status'[call] = "over" => status[call] = "over"
    BY <1>14 DEF AnswerCall, Types
  <2>3. QED BY <2>1, <2>2 DEF ToldInv, Quiet, Connected, Truthful
<1>15. CASE ReportDisconnected \/ ReportOther
  <2>1. /\ UNCHANGED <<workerTodo, call, status, currentMediaState>>
        /\ lastReport' = Pushed("disconnected", TRUE) \/ lastReport' = Pushed("none", FALSE)
    BY <1>15 DEF ReportDisconnected, ReportOther, libVars, workerVars
  <2>2. /\ ~lastReport'.sent /\ lastReport'.says # "connected"
        /\ lastReport'.byCommand \/ lastReport'.says # "disconnected"
    BY <2>1 DEF Pushed
  <2>3. QED BY <2>2 DEF ToldInv
<1>16. ASSUME NEW c \in Calls, ReportCallState(c) PROVE ToldInv'
  <2>1. /\ UNCHANGED <<workerTodo, call, status, currentMediaState>>
        /\ lastReport' = Pushed(MediaState(c), FALSE) /\ workerTodo = << >>
        /\ status[c] \in {"ringing", "up"}
    BY <1>16 DEF ReportCallState, libVars, workerVars
  <2>2. c = call /\ call # NoCall
    BY <2>1, Lists, NoneAssumption DEF CallInv
  <2>3. ~lastReport'.sent /\ lastReport'.says # "disconnected"
    BY <2>1 DEF Pushed, MediaState
  <2>4. QED BY <2>1, <2>2, <2>3 DEF ToldInv
<1>17. QED BY <1>1, <1>2, <1>3, <1>4, <1>5, <1>6, <1>7, <1>8, <1>9, <1>10, <1>11, <1>12, <1>13,
               <1>14, <1>15, <1>16, ThreadsChange, TablesChange, MediaChange DEF workerVars

-----------------------------------------------------------------------------
(* The theorems *)

\* The initial states satisfy the invariant.
LEMMA Initially == ASSUME Init PROVE IInv
<1>1. Types
  <2>1. lastReport \in Report
    BY DEF Init, Report, Sent
  <2>2. changes \in 0 .. MaxMedia /\ plugs \in 0 .. MaxPlugs
    BY BoundAssumption DEF Init
  <2>3. /\ enabled \in [Calls -> [Devices -> BOOLEAN]] /\ deviceStates \in [Devices -> BOOLEAN]
        /\ connected \in [Calls -> SUBSET Devices] /\ selected \in [Devices -> {"default", "null"}]
        /\ status \in [Calls -> {"new", "ringing", "up", "ending", "over"}]
    BY DEF Init
  <2>4. command \in [device : Devices \cup {NoDevice}, on : BOOLEAN]
    BY DEF Init
  <2>5. QED BY <2>1, <2>2, <2>3, <2>4 DEF Init, Types
<1>2. PortInv /\ WorkerInv /\ MainInv /\ FollowInv
  BY DEF Init, PortInv, WorkerInv, MainInv, FollowInv
<1>3. CallInv /\ DeviceInv /\ HeardInv
  BY DEF Init, CallInv, DeviceInv, HeardInv
<1>4. ToldInv
  BY DEF Init, ToldInv, Connected, Truthful, Sent
<1>5. QED BY <1>1, <1>2, <1>3, <1>4 DEF IInv

\* The invariant holds in every reachable state.
THEOREM Invariance == Spec => []IInv
<1>1. Init => IInv
  BY Initially
<1>2. IInv /\ [Next]_vars => IInv'
  BY TypesKept, PortKept, WorkerKept, CallKept, MainKept, FollowKept, DeviceKept, HeardKept,
     ToldKept DEF IInv
<1>3. QED BY <1>1, <1>2, PTL DEF Spec

\* The variables have their types, and only a call with a port is connected.
THEOREM TypeCorrect == Spec => []TypeOK
<1>1. IInv => TypeOK
  <2> DEFINE Item == [step : Step, device : Devices \cup {NoDevice}]
  <2>1. /\ \A step \in Step : Do(step) \in Item
        /\ \A step \in Step, d \in Devices : DoFor(step, d) \in Item
    BY DEF Do, DoFor
  <2>2. /\ SetupCall \in Seq(Item) /\ Applying \in Seq(Item) /\ MediaLost \in Seq(Item)
        /\ Publishing \in Seq(Item) /\ Reporting \in Seq(Item) /\ Ending \in Seq(Item)
        /\ Removing \in Seq(Item) /\ Releasing \in Seq(Item)
    BY <2>1 DEF Step, SetupCall, Applying, MediaLost, Publishing, Reporting, Ending, Removing,
                Releasing
  <2>3. \A m, s \in Devices :
            /\ MediaActive(m, s) \in Seq(Item) /\ FirstCheck(m, s) \in Seq(Item)
            /\ FirstConnect(m, s) \in Seq(Item)
            /\ LastCheck(s) \in Seq(Item) /\ LastConnect(s) \in Seq(Item)
    BY <2>1 DEF Step, MediaActive, FirstCheck, FirstConnect, LastCheck, LastConnect
  <2>4. << >> \in Seq(Item)
    OBVIOUS
  <2>5. WorkerInv => workerTodo \in Seq(Item)
    <3> HIDE DEF Item
    <3>1. QED BY <2>2, <2>3, <2>4 DEF WorkerInv, InUse
  <2>6. QED BY <2>5 DEF IInv, Types, PortInv, TypeOK
<1>2. QED BY <1>1, Invariance, PTL

\* A "mute" or "unmute" reaches the account's call, also one that is set up
\* meanwhile by the other thread.
THEOREM CallFollows == Spec => []CallFollowsAccount
<1>1. IInv => CallFollowsAccount
  <2>1. SUFFICES ASSUME IInv, mainPc = "idle", workerTodo = << >>, call # NoCall
                 PROVE  enabled[call] = deviceStates
    BY DEF CallFollowsAccount, AtRest
  <2>2. \A d \in Devices : enabled[call][d] = deviceStates[d]
    <3>1. workerTodo # Applying
      BY <2>1 DEF Applying
    <3>2. QED BY <2>1, <3>1 DEF IInv, FollowInv
  <2>3. QED BY <2>1, <2>2 DEF IInv, Types
<1>2. QED BY <1>1, Invariance, PTL

\* A device that is on is heard, however "unmute" met onCallMediaState, while no
\* device in use has been pulled out that ensureAudioDevice's old list still has.
THEOREM UnmutedIsHeard == Spec => []UnmutedIsConnected
<1>1. IInv => UnmutedIsConnected
  BY Unready DEF IInv, HeardInv, MainWill, UnmutedIsConnected, AtRest
<1>2. QED BY <1>1, Invariance, PTL

\* ensureAudioDevice gives every call devices it can open, with the same exception.
THEOREM DevicesAreThere == Spec => []CallHasDevices
<1>1. IInv => CallHasDevices
  BY DEF IInv, DeviceInv, CallHasDevices
<1>2. QED BY <1>1, Invariance, PTL

\* The client was last told "connected" just when the call's media is, whatever
\* else is reported of the account, unless a command said "disconnected" last.
THEOREM TruthIsTold == Spec => []ToldMediaIsTrue
<1>1. IInv => ToldMediaIsTrue
  BY DEF IInv, ToldInv, Quiet, Connected, Truthful, ToldMediaIsTrue
<1>2. QED BY <1>1, Invariance, PTL

=============================================================================
