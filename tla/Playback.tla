------------------------------ MODULE Playback ------------------------------
(***************************************************************************)
(* Playing WAV files into one call: "send_audio" in src/SIPCore.cpp,       *)
(* SIPCall::playAudio, RTPPlayer (src/utils/RTP.cpp) and the parts of the  *)
(* call's callbacks that touch them.  Four threads meet here:              *)
(*   - the main thread runs playAudio and RTPPlayer::play;                 *)
(*   - PJSIP's worker runs the call's callbacks, which stop the player;    *)
(*   - PJMEDIA's event thread runs onEof2 when a file has been read;       *)
(*   - the main thread may also be inside another account's makeCall,      *)
(*     which holds PJSUA's lock while it reports "calling".                *)
(* playing, currentTarget and player are not protected by any lock.        *)
(***************************************************************************)
EXTENDS Integers, Sequences

CONSTANTS
    MaxFiles,    \* bound: files played into the call
    MaxMedia     \* bound: times the media is lost or found again

ASSUME BoundAssumption == MaxFiles \in Nat \ {0} /\ MaxMedia \in Nat

VARIABLES
    currentAudioMedia, \* SIPCall::currentAudioMedia is not null
    playing,           \* RTPPlayer::playing
    currentTarget,     \* RTPPlayer::currentTarget is not null
    player,            \* RTPPlayer::player: the number of its file, 0 for none
    mainPc,            \* where the main thread is
    workerTodo,        \* the steps left of the worker's callback
    stopTarget,        \* stop()'s copy of currentTarget on the worker
    unguarded,         \* history: files whose flag `playing` was cleared from under them
    eventPc,           \* where the event thread is
    eventFile,         \* the file whose end it handles
    portUp,            \* the library: the call's media port exists
    released,          \* the library: the call's id is no longer valid
    file,              \* the library: each file
    changes,           \* the bound's counter
    crashed            \* the process has died

playerVars == <<playing, currentTarget, player>>
mainVars   == <<mainPc>>
stopVars   == <<stopTarget, unguarded>>
workerVars == <<workerTodo, stopVars>>
eventVars  == <<eventPc, eventFile>>
libVars    == <<portUp, released, file, changes>>
vars == <<currentAudioMedia, playerVars, mainVars, workerVars, eventVars, libVars,
          crashed>>

Files == 1 .. MaxFiles

\* The callbacks of a call, step by step.
Callback == [
    found |-> <<"use", "report">>,
    lost  |-> <<"forget", "stop", "unplug", "report">>,
    ended |-> <<"stop", "unplug", "forget", "report", "release">>]

\* The types of all variables; and only the current player sends a file.
TypeOK ==
    /\ currentAudioMedia \in BOOLEAN
    /\ playing \in BOOLEAN /\ currentTarget \in BOOLEAN
    /\ player \in Files \cup {0}
    /\ mainPc \in {"idle", "prepare", "unplug", "create", "target", "transmit",
                  "set", "calling"}
    /\ workerTodo \in Seq({"use", "forget", "stop", "unplug", "report", "release"})
    /\ stopTarget \in BOOLEAN /\ unguarded \subseteq Files
    /\ eventPc \in {"idle", "playing", "target", "lock", "query"}
    /\ eventFile \in Files \cup {0}
    /\ portUp \in BOOLEAN /\ released \in BOOLEAN
    /\ file \in [Files -> {"new", "idle", "sending", "eof", "told", "gone"}]
    /\ \A f \in Files : file[f] = "sending" => f = player
    /\ changes \in 0 .. MaxMedia
    /\ crashed \in BOOLEAN

Init ==
    /\ currentAudioMedia = FALSE
    /\ playing = FALSE /\ currentTarget = FALSE
    /\ player = 0
    /\ mainPc = "idle"
    /\ workerTodo = << >> /\ stopTarget = FALSE /\ unguarded = {}
    /\ eventPc = "idle" /\ eventFile = 0
    /\ portUp = FALSE /\ released = FALSE
    /\ file = [f \in Files |-> "new"]
    /\ changes = 0
    /\ crashed = FALSE

\* The files that playing stands for: sent, or read and the flag not yet
\* cleared.
Live == {f \in Files :
            \/ file[f] = "sending"
            \/ file[f] = "eof" /\ (eventFile = f => eventPc = "playing")}

\* The event thread's lambda queries the library while it holds pendingMutex.
PendingMutexFree == eventPc # "query"

\* Fault: the query needs the lock of the call's dialog, too, which the
\* worker holds during a callback.
DialogLockFree == mainPc # "calling" /\ workerTodo = << >>

\* makeCall holds PJSUA's lock until its callback has pushed the state.
LibraryLockFree == mainPc # "calling"

\* stopTransmit: the player is no longer read, so it cannot reach the end.
Unplugged == [f \in Files |->
                IF f = player /\ file[f] = "sending" THEN "idle" ELSE file[f]]

-----------------------------------------------------------------------------
(* The main thread *)

\* An operator whose comment starts with "Fault:" is the operator after it
\* with a programming mistake; no action uses it.

\* Fault: playAudio does not ask whether a file is being played.
MayPlayOver == currentAudioMedia

\* playAudio's checks under mediaMutex.
MayPlay == currentAudioMedia /\ ~playing

PlayAudio ==
    /\ mainPc = "idle"
    /\ MayPlay
    /\ \E f \in Files : file[f] = "new"
    /\ mainPc' = "prepare"
    /\ UNCHANGED <<currentAudioMedia, playerVars, workerVars, eventVars,
                   libVars, crashed>>

\* play() stops what it finds left over.
Prepare ==
    /\ mainPc = "prepare"
    /\ mainPc' = IF currentTarget THEN "unplug" ELSE "create"
    /\ playing' = FALSE /\ currentTarget' = FALSE
    /\ UNCHANGED <<currentAudioMedia, player, workerVars, eventVars, libVars,
                   crashed>>

Unplug ==
    /\ mainPc = "unplug"
    /\ mainPc' = "create"
    /\ file' = Unplugged
    /\ UNCHANGED <<currentAudioMedia, playerVars, workerVars, eventVars, portUp,
                   released, changes, crashed>>

\* Fault: the old player lives on.
NoReset == file

\* player.reset() destroys the old player, even while the event thread is
\* inside its callback.
Reset == [f \in Files |-> IF f = player /\ f # eventFile THEN "gone" ELSE file[f]]

\* player.reset() and a new player for file f; createPlayer may throw.
CreatePlayer(f) ==
    /\ mainPc = "create"
    /\ file[f] = "new" /\ \A g \in Files : g < f => file[g] # "new"
    /\ player' = f
    /\ \E ok \in BOOLEAN :
        /\ file' = [Reset EXCEPT ![f] = IF ok THEN "idle" ELSE "gone"]
        /\ mainPc' = IF ok THEN "target" ELSE "idle"
        /\ playing' = IF ok THEN playing ELSE FALSE
    /\ crashed' \in IF eventPc = "idle" THEN {FALSE} ELSE BOOLEAN
    /\ UNCHANGED <<currentAudioMedia, currentTarget, workerVars, eventVars, portUp,
                   released, changes>>

SetTarget ==
    /\ mainPc = "target"
    /\ currentTarget' = TRUE
    /\ mainPc' = "transmit"
    /\ UNCHANGED <<currentAudioMedia, playing, player, workerVars, eventVars,
                   libVars, crashed>>

\* startTransmit(*currentTarget): it may throw when the port has gone, and
\* the program dies when stop() has reset currentTarget meanwhile.
StartTransmit ==
    /\ mainPc = "transmit"
    /\ crashed' = ~currentTarget
    /\ mainPc' = IF currentTarget /\ portUp THEN "set" ELSE "idle"
    /\ playing' = IF portUp THEN playing ELSE FALSE
    /\ file' = IF currentTarget /\ portUp THEN [file EXCEPT ![player] = "sending"]
               ELSE file
    /\ UNCHANGED <<currentAudioMedia, currentTarget, player, workerVars, eventVars,
                   portUp, released, changes>>

SetPlaying ==
    /\ mainPc = "set"
    /\ playing' = TRUE
    /\ mainPc' = "idle"
    /\ UNCHANGED <<currentAudioMedia, currentTarget, player, workerVars, eventVars,
                   libVars, crashed>>

\* Another account's makeCall takes PJSUA's lock and calls back "calling",
\* which pushes a state: not one of this call.
OtherMakeCall ==
    /\ mainPc = "idle"
    /\ mainPc' = "calling"
    /\ UNCHANGED <<currentAudioMedia, playerVars, workerVars, eventVars,
                   libVars, crashed>>

OtherCalling ==
    /\ mainPc = "calling"
    /\ PendingMutexFree
    /\ mainPc' = "idle"
    /\ UNCHANGED <<currentAudioMedia, playerVars, workerVars, eventVars,
                   libVars, crashed>>

-----------------------------------------------------------------------------
(* The worker: onCallMediaState and onCallState *)

\* The library has brought the media up, before it tells onCallMediaState.
FindMedia ==
    /\ workerTodo = << >> /\ ~released
    /\ changes < MaxMedia
    /\ changes' = changes + 1
    /\ portUp' = TRUE
    /\ workerTodo' = Callback.found
    /\ UNCHANGED <<currentAudioMedia, playerVars, mainVars, stopVars, eventVars,
                   released, file, crashed>>

\* The library has removed the port (a hold, for one): no file is read.
LoseMedia ==
    /\ workerTodo = << >> /\ ~released
    /\ changes < MaxMedia
    /\ changes' = changes + 1
    /\ portUp' = FALSE
    /\ file' = Unplugged
    /\ workerTodo' = Callback.lost
    /\ UNCHANGED <<currentAudioMedia, playerVars, mainVars, stopVars, eventVars,
                   released, crashed>>

\* The dialog ends; the port outlives onCallState.
EndCall ==
    /\ workerTodo = << >> /\ ~released
    /\ workerTodo' = Callback.ended
    /\ UNCHANGED <<currentAudioMedia, playerVars, mainVars, stopVars, eventVars,
                   libVars, crashed>>

Doing(step) ==
    /\ workerTodo # << >> /\ Head(workerTodo) = step
    /\ workerTodo' = Tail(workerTodo)

UseMedia ==
    /\ Doing("use")
    /\ currentAudioMedia' = TRUE
    /\ UNCHANGED <<playerVars, mainVars, stopVars, eventVars, libVars,
                   crashed>>

ForgetMedia ==
    /\ Doing("forget")
    /\ currentAudioMedia' = FALSE
    /\ UNCHANGED <<playerVars, mainVars, stopVars, eventVars, libVars,
                   crashed>>

\* RTPPlayer::stop().
StopPlayer ==
    /\ Doing("stop")
    /\ stopTarget' = currentTarget
    /\ playing' = FALSE /\ currentTarget' = FALSE
    /\ unguarded' = unguarded \cup Live
    /\ UNCHANGED <<currentAudioMedia, player, mainVars, eventVars, libVars,
                   crashed>>

StopTransmit ==
    /\ Doing("unplug")
    /\ file' = IF stopTarget THEN Unplugged ELSE file
    /\ UNCHANGED <<currentAudioMedia, playerVars, mainVars, stopVars, eventVars,
                   portUp, released, changes, crashed>>

ReportState ==
    /\ Doing("report")
    /\ PendingMutexFree
    /\ UNCHANGED <<currentAudioMedia, playerVars, mainVars, stopVars, eventVars,
                   libVars, crashed>>

\* The library drops the media and the call's id.
ReleaseCall ==
    /\ Doing("release")
    /\ released' = TRUE
    /\ portUp' = FALSE
    /\ file' = Unplugged
    /\ UNCHANGED <<currentAudioMedia, playerVars, mainVars, stopVars, eventVars,
                   changes, crashed>>

-----------------------------------------------------------------------------
(* The event thread *)

EndOfFile(f) ==
    /\ file[f] = "sending"
    /\ file' = [file EXCEPT ![f] = "eof"]
    /\ UNCHANGED <<currentAudioMedia, playerVars, mainVars, workerVars, eventVars,
                   portUp, released, changes, crashed>>

OnEof2(f) ==
    /\ eventPc = "idle"
    /\ file[f] = "eof"
    /\ eventFile' = f
    /\ eventPc' = "playing"
    /\ UNCHANGED <<currentAudioMedia, playerVars, mainVars, workerVars, libVars,
                   crashed>>

EofPlaying ==
    /\ eventPc = "playing"
    /\ playing' = FALSE
    /\ eventPc' = "target"
    /\ unguarded' = unguarded \cup IF eventFile \in unguarded THEN Live ELSE {}
    /\ UNCHANGED <<currentAudioMedia, currentTarget, player, mainVars, workerTodo,
                   stopTarget, eventFile, libVars, crashed>>

EofTarget ==
    /\ eventPc = "target"
    /\ currentTarget' = FALSE
    /\ eventPc' = "lock"
    /\ UNCHANGED <<currentAudioMedia, playing, player, mainVars, workerVars, eventFile,
                   libVars, crashed>>

\* finishedCallback locks pendingMutex ...
EofLock ==
    /\ eventPc = "lock"
    /\ eventPc' = "query"
    /\ UNCHANGED <<currentAudioMedia, playerVars, mainVars, workerVars, eventFile,
                   libVars, crashed>>

\* ... and asks the library for the remote URI.  That throws once the call's
\* id is invalid, and nothing on this thread catches it.
EofReport ==
    /\ eventPc = "query"
    /\ LibraryLockFree
    /\ crashed' = released
    /\ file' = IF released THEN file ELSE [file EXCEPT ![eventFile] = "told"]
    /\ eventPc' = "idle" /\ eventFile' = 0
    /\ UNCHANGED <<currentAudioMedia, playerVars, mainVars, workerVars, portUp,
                   released, changes>>

-----------------------------------------------------------------------------

Main ==
    /\ ~crashed
    /\ \/ Prepare \/ Unplug \/ (\E f \in Files : CreatePlayer(f)) \/ SetTarget
       \/ StartTransmit \/ SetPlaying \/ OtherCalling

Commands == ~crashed /\ (PlayAudio \/ OtherMakeCall)

Worker ==
    /\ ~crashed
    /\ \/ UseMedia \/ ForgetMedia \/ StopPlayer \/ StopTransmit
       \/ ReportState \/ ReleaseCall

Library == ~crashed /\ (FindMedia \/ LoseMedia \/ EndCall)

Event == ~crashed /\ (EofPlaying \/ EofTarget \/ EofLock \/ EofReport)

FileEnds   == ~crashed /\ \E f \in Files : EndOfFile(f)
EventComes == ~crashed /\ \E f \in Files : OnEof2(f)

Next == Main \/ Commands \/ Worker \/ Library \/ Event \/ FileEnds \/ EventComes

Spec == Init /\ [][Next]_vars

(* Threads keep running, a file that is read comes to its end, and the end  *)
(* is handed to the event thread.  No command and no call need ever come.   *)
Fairness ==
    /\ WF_vars(Main) /\ WF_vars(Worker) /\ WF_vars(Event)
    /\ WF_vars(FileEnds) /\ WF_vars(EventComes)

FairSpec == Spec /\ Fairness

-----------------------------------------------------------------------------
(* Properties *)

\* The finished lambda waits for PJSUA's lock with pendingMutex held, makeCall
\* for pendingMutex with PJSUA's lock held.
CircularWait == mainPc = "calling" /\ eventPc = "query"

\* "send_audio" cuts off no file that is being sent, although the main thread
\* and the event thread write the flags that guard it without a lock: a file
\* stops with its end, its media, or the callback that disconnects it.  Only
\* those are excepted whose flag was cleared from under them, by a callback's
\* stop(), or by the late end of such a file: the next one may cut them off.
NotCutOff ==
    [][\A f \in Files : file[f] = "sending" /\ file'[f] # "sending" =>
            file'[f] = "eof" \/ ~portUp' \/ StopTransmit \/ f \in unguarded]_vars

\* The end of every other file is reported, unless the process dies or the
\* locks are taken crosswise: no second "send_audio" swallows it.
EndOfFileIsTold ==
    \A f \in Files :
        file[f] = "eof" ~> file[f] = "told" \/ f \in unguarded \/ crashed \/ CircularWait

\* A callback of the call comes to its end, so the end of a call is reported
\* whatever the player is doing, unless the process dies or the locks are
\* taken crosswise.
CallbackEnds == workerTodo # << >> ~> workerTodo = << >> \/ crashed \/ CircularWait

=============================================================================
