--------------------------- MODULE PlaybackProofs ---------------------------
(* Theorems about Playback for any number of files and of changes of the    *)
(* media.                                                                   *)
EXTENDS Playback, TLAPS

-----------------------------------------------------------------------------
(* The inductive invariant *)

\* Until it is told to transmit, a new player is idle.
MainInv ==
    mainPc \in {"target", "transmit"} => player \in Files /\ file[player] = "idle"

\* The event thread is busy with a file that has been read.
EventInv ==
    /\ eventPc = "idle" => eventFile = 0
    /\ eventPc # "idle" => eventFile \in Files /\ file[eventFile] = "eof"

\* While the main thread prepares a file, every live one has had its flag
\* cleared; while it does not, playing is set for every other one, of which
\* there is one at most.
OneFileLive ==
    /\ \A f, g \in Live \ unguarded : f = g
    /\ mainPc \in {"prepare", "unplug", "create", "target", "transmit"} =>
          Live \subseteq unguarded
    /\ mainPc \in {"idle", "calling"} => Live \subseteq unguarded \/ playing

\* So it is until the process dies.
LiveInv == crashed \/ OneFileLive

\* What may be left of a callback.
Using == <<"use", "report">>
Reporting == <<"report">>
Losing == <<"forget", "stop", "unplug", "report">>
LosingStop == <<"stop", "unplug", "report">>
LosingUnplug == <<"unplug", "report">>
Ending == <<"stop", "unplug", "forget", "report", "release">>
EndingUnplug == <<"unplug", "forget", "report", "release">>
EndingForget == <<"forget", "report", "release">>
EndingReport == <<"report", "release">>
Releasing == <<"release">>

\* The worker is in a callback, at one of its steps, or at rest.
WorkerInv ==
    workerTodo \in {<< >>, Using, Reporting, Losing, LosingStop, LosingUnplug, Ending,
                    EndingUnplug, EndingForget, EndingReport, Releasing}

\* TypeOK without the worker's list, whose type WorkerInv gives.
Types ==
    /\ currentAudioMedia \in BOOLEAN
    /\ playing \in BOOLEAN /\ currentTarget \in BOOLEAN
    /\ player \in Files \cup {0}
    /\ mainPc \in {"idle", "prepare", "unplug", "create", "target", "transmit",
                  "set", "calling"}
    /\ stopTarget \in BOOLEAN /\ unguarded \subseteq Files
    /\ eventPc \in {"idle", "playing", "target", "lock", "query"}
    /\ eventFile \in Files \cup {0}
    /\ portUp \in BOOLEAN /\ released \in BOOLEAN
    /\ file \in [Files -> {"new", "idle", "sending", "eof", "told", "gone"}]
    /\ changes \in 0 .. MaxMedia
    /\ crashed \in BOOLEAN

\* Only the current player sends.
SenderInv == \A f \in Files : file[f] = "sending" => f = player

IInv == Types /\ SenderInv /\ MainInv /\ EventInv /\ LiveInv /\ WorkerInv

-----------------------------------------------------------------------------
(* The worker's lists *)

\* The callbacks, and what is left of each list after its first step.
LEMMA Rests ==
    /\ Callback.found = Using /\ Callback.lost = Losing /\ Callback.ended = Ending
    /\ Head(Using) = "use" /\ Tail(Using) = Reporting
    /\ Head(Reporting) = "report" /\ Tail(Reporting) = << >>
    /\ Head(Losing) = "forget" /\ Tail(Losing) = LosingStop
    /\ Head(LosingStop) = "stop" /\ Tail(LosingStop) = LosingUnplug
    /\ Head(LosingUnplug) = "unplug" /\ Tail(LosingUnplug) = Reporting
    /\ Head(Ending) = "stop" /\ Tail(Ending) = EndingUnplug
    /\ Head(EndingUnplug) = "unplug" /\ Tail(EndingUnplug) = EndingForget
    /\ Head(EndingForget) = "forget" /\ Tail(EndingForget) = EndingReport
    /\ Head(EndingReport) = "report" /\ Tail(EndingReport) = Releasing
    /\ Head(Releasing) = "release" /\ Tail(Releasing) = << >>
BY DEF Callback, Using, Reporting, Losing, LosingStop, LosingUnplug, Ending, EndingUnplug,
       EndingForget, EndingReport, Releasing

LEMMA ListTypes ==
    ASSUME WorkerInv
    PROVE  workerTodo \in Seq({"use", "forget", "stop", "unplug", "report", "release"})
<1> DEFINE Steps == {"use", "forget", "stop", "unplug", "report", "release"}
<1>1. << >> \in Seq(Steps) /\ Using \in Seq(Steps) /\ Reporting \in Seq(Steps)
  BY DEF Using, Reporting
<1>2. Losing \in Seq(Steps) /\ LosingStop \in Seq(Steps) /\ LosingUnplug \in Seq(Steps)
  BY DEF Losing, LosingStop, LosingUnplug
<1>3. Ending \in Seq(Steps) /\ EndingUnplug \in Seq(Steps) /\ EndingForget \in Seq(Steps)
  BY DEF Ending, EndingUnplug, EndingForget
<1>4. EndingReport \in Seq(Steps) /\ Releasing \in Seq(Steps)
  BY DEF EndingReport, Releasing
<1> HIDE DEF Steps
<1>5. workerTodo \in Seq(Steps)
  BY <1>1, <1>2, <1>3, <1>4 DEF WorkerInv
<1>6. QED BY <1>5 DEF Steps

\* A step of the worker.
LEMMA WorkerSteps ==
    ASSUME WorkerInv, NEW step, Doing(step)
    PROVE  WorkerInv'
<1>1. workerTodo # << >> /\ workerTodo' = Tail(workerTodo)
  BY DEF Doing
<1>2. CASE workerTodo \in {Using, Reporting, Losing, LosingStop, LosingUnplug}
  BY <1>1, <1>2, Rests DEF WorkerInv
<1>3. CASE workerTodo \in {Ending, EndingUnplug, EndingForget, EndingReport, Releasing}
  BY <1>1, <1>3, Rests DEF WorkerInv
<1>4. QED BY <1>1, <1>2, <1>3 DEF WorkerInv

-----------------------------------------------------------------------------
(* Files *)

USE DEF mainVars, playerVars, stopVars, workerVars, eventVars, libVars

\* Disconnecting the player: the file that was sent, and no other, is idle.
LEMMA Disconnecting ==
    ASSUME Types, SenderInv, MainInv, EventInv,
           file' = Unplugged, UNCHANGED <<player, eventPc, eventFile>>,
           mainPc' \notin {"target", "transmit"} \/ mainPc' = mainPc
    PROVE  /\ file' \in [Files -> {"new", "idle", "sending", "eof", "told", "gone"}]
           /\ \A f \in Files : /\ file'[f] # "sending"
                               /\ file'[f] = file[f] \/ (file[f] = "sending" /\ file'[f] = "idle")
           /\ Live' \subseteq Live
           /\ SenderInv' /\ MainInv' /\ EventInv'
<1>1. \A f \in Files :
         file'[f] = IF f = player /\ file[f] = "sending" THEN "idle" ELSE file[f]
  BY DEF Unplugged
<1>2. file' \in [Files -> {"new", "idle", "sending", "eof", "told", "gone"}]
  BY DEF Unplugged, Types
<1>3. \A f \in Files : /\ file'[f] # "sending"
                       /\ file'[f] = file[f] \/ (file[f] = "sending" /\ file'[f] = "idle")
  BY <1>1 DEF SenderInv
<1>4. Live' \subseteq Live
  BY <1>3 DEF Live
<1>5. SenderInv'
  BY <1>3 DEF SenderInv
<1>6. MainInv' /\ EventInv'
  BY <1>3 DEF MainInv, EventInv
<1>7. QED BY <1>2, <1>3, <1>4, <1>5, <1>6

\* A step that makes no file live.
LEMMA NoMoreLive ==
    ASSUME LiveInv, ~crashed, Live' \subseteq Live, unguarded \subseteq unguarded',
           playing' = playing,
           mainPc' = mainPc \/ (mainPc = "unplug" /\ mainPc' = "create")
    PROVE  LiveInv'
<1>1. OneFileLive
  BY DEF LiveInv
<1>2. \A f, g \in Live' \ unguarded' : f = g
  BY <1>1 DEF OneFileLive
<1>3. mainPc' \in {"prepare", "unplug", "create", "target", "transmit"} =>
         Live' \subseteq unguarded'
  BY <1>1 DEF OneFileLive
<1>4. mainPc' \in {"idle", "calling"} => Live' \subseteq unguarded' \/ playing'
  BY <1>1 DEF OneFileLive
<1>5. QED BY <1>2, <1>3, <1>4 DEF LiveInv, OneFileLive

-----------------------------------------------------------------------------
(* The steps of the main thread *)

\* The steps that leave the files alone.
LEMMA FlagSteps ==
    ASSUME IInv, ~crashed,
           PlayAudio \/ Prepare \/ SetTarget \/ SetPlaying \/ OtherMakeCall \/ OtherCalling
    PROVE  IInv'
<1> USE DEF IInv
<1>1. UNCHANGED <<player, file, eventPc, eventFile, workerTodo, unguarded, crashed>>
  BY DEF PlayAudio, Prepare, SetTarget, SetPlaying, OtherMakeCall, OtherCalling
<1>2. Types'
  <2>1. UNCHANGED <<currentAudioMedia, stopTarget, portUp, released, changes>>
    BY DEF PlayAudio, Prepare, SetTarget, SetPlaying, OtherMakeCall, OtherCalling
  <2>2. mainPc' \in {"idle", "prepare", "unplug", "create", "target", "transmit",
                     "set", "calling"}
    BY DEF PlayAudio, Prepare, SetTarget, SetPlaying, OtherMakeCall, OtherCalling
  <2>3. playing' \in {playing, TRUE, FALSE} /\ currentTarget' \in {currentTarget, TRUE, FALSE}
    BY DEF PlayAudio, Prepare, SetTarget, SetPlaying, OtherMakeCall, OtherCalling
  <2>4. playing' \in BOOLEAN /\ currentTarget' \in BOOLEAN
    BY <2>3 DEF Types
  <2>5. QED BY <1>1, <2>1, <2>2, <2>4 DEF Types
<1>3. SenderInv' /\ EventInv' /\ WorkerInv'
  BY <1>1 DEF SenderInv, EventInv, WorkerInv
<1>4. MainInv'
  BY <1>1 DEF MainInv, PlayAudio, Prepare, SetTarget, SetPlaying, OtherMakeCall, OtherCalling
<1>5. Live' = Live
  BY <1>1 DEF Live
<1>6. LiveInv'
  <2>1. OneFileLive
    BY DEF LiveInv
  <2>2. \A f, g \in Live' \ unguarded' : f = g
    BY <1>1, <1>5, <2>1 DEF OneFileLive
  <2>3. /\ mainPc' \in {"prepare", "unplug", "create", "target", "transmit"} =>
              Live' \subseteq unguarded'
        /\ mainPc' \in {"idle", "calling"} => Live' \subseteq unguarded' \/ playing'
    BY <1>1, <1>5, <2>1 DEF OneFileLive, PlayAudio, MayPlay, Prepare, SetTarget, SetPlaying,
                            OtherMakeCall, OtherCalling
  <2>4. QED BY <2>2, <2>3 DEF LiveInv, OneFileLive
<1>7. QED BY <1>2, <1>3, <1>4, <1>6

\* Disconnecting the old player: if its file is live, its flag was cleared.
LEMMA UnplugKeeps ==
    ASSUME IInv, ~crashed, Unplug
    PROVE  IInv'
<1> USE DEF IInv
<1>1. /\ mainPc = "unplug" /\ mainPc' = "create" /\ file' = Unplugged
      /\ UNCHANGED <<currentAudioMedia, playing, currentTarget, player, workerTodo, stopTarget,
                     unguarded, eventPc, eventFile, portUp, released, changes, crashed>>
  BY DEF Unplug
<1>2. mainPc' \notin {"target", "transmit"}
  BY <1>1
<1>3. /\ file' \in [Files -> {"new", "idle", "sending", "eof", "told", "gone"}]
      /\ Live' \subseteq Live
      /\ SenderInv' /\ MainInv' /\ EventInv'
  BY <1>1, <1>2, Disconnecting
<1>4. Types'
  BY <1>1, <1>3 DEF Types
<1>5. LiveInv'
  BY <1>1, <1>3, NoMoreLive
<1>6. WorkerInv'
  BY <1>1 DEF WorkerInv
<1>7. QED BY <1>3, <1>4, <1>5, <1>6

\* The old player is destroyed, the new one is there or could not be made.
LEMMA CreateKeeps ==
    ASSUME IInv, ~crashed, NEW f \in Files, CreatePlayer(f)
    PROVE  IInv'
<1> USE DEF IInv
<1>1. /\ mainPc = "create" /\ file[f] = "new" /\ player' = f
      /\ UNCHANGED <<currentAudioMedia, currentTarget, workerTodo, stopTarget, unguarded, eventPc,
                     eventFile, portUp, released, changes>>
  BY DEF CreatePlayer
<1>2. crashed' \in BOOLEAN
  BY DEF CreatePlayer
<1>3. PICK ok \in BOOLEAN :
         /\ file' = [Reset EXCEPT ![f] = IF ok THEN "idle" ELSE "gone"]
         /\ mainPc' = IF ok THEN "target" ELSE "idle"
         /\ playing' = IF ok THEN playing ELSE FALSE
  BY DEF CreatePlayer
<1>4. file' \in [Files -> {"new", "idle", "sending", "eof", "told", "gone"}]
  BY <1>3 DEF Types, Reset
<1>5. /\ file'[f] = IF ok THEN "idle" ELSE "gone"
      /\ \A g \in Files : g # f =>
            file'[g] = IF g = player /\ g # eventFile THEN "gone" ELSE file[g]
  BY <1>3 DEF Reset
<1>6. Types'
  BY <1>1, <1>2, <1>3, <1>4 DEF Types
<1>7. SenderInv'
  <2>1. 0 \notin Files
    BY DEF Files
  <2>2. QED BY <1>1, <1>5, <2>1 DEF SenderInv, EventInv
<1>8. MainInv' /\ EventInv'
  BY <1>1, <1>3, <1>5 DEF MainInv, EventInv
<1>9. Live' \subseteq Live
  BY <1>1, <1>5 DEF Live
<1>10. LiveInv'
  <2>1. Live \subseteq unguarded
    BY <1>1 DEF LiveInv, OneFileLive
  <2>2. Live' \subseteq unguarded'
    BY <1>1, <1>9, <2>1
  <2>3. QED BY <2>2 DEF LiveInv, OneFileLive
<1>11. WorkerInv'
  BY <1>1 DEF WorkerInv
<1>12. QED BY <1>6, <1>7, <1>8, <1>10, <1>11

\* The new file is the only live one with its flag, if it can be sent.
LEMMA TransmitKeeps ==
    ASSUME IInv, ~crashed, StartTransmit
    PROVE  IInv'
<1> USE DEF IInv
<1>1. /\ mainPc = "transmit" /\ player \in Files /\ file[player] = "idle"
      /\ crashed' = ~currentTarget
      /\ mainPc' = IF currentTarget /\ portUp THEN "set" ELSE "idle"
      /\ playing' = IF portUp THEN playing ELSE FALSE
      /\ UNCHANGED <<currentAudioMedia, currentTarget, player, workerTodo, stopTarget, unguarded,
                     eventPc, eventFile, portUp, released, changes>>
  BY DEF StartTransmit, MainInv
<1>2. CASE currentTarget /\ portUp
  <2>1. /\ file' \in [Files -> {"new", "idle", "sending", "eof", "told", "gone"}]
        /\ file'[player] = "sending" /\ \A g \in Files : g # player => file'[g] = file[g]
    BY <1>1, <1>2 DEF StartTransmit, Types
  <2>2. Types'
    BY <1>1, <1>2, <2>1 DEF Types
  <2>3. SenderInv' /\ MainInv' /\ EventInv' /\ WorkerInv'
    BY <1>1, <1>2, <2>1 DEF SenderInv, MainInv, EventInv, WorkerInv
  <2>4. Live' \subseteq Live \cup {player}
    BY <1>1, <2>1 DEF Live
  <2>5. Live \subseteq unguarded
    BY <1>1 DEF LiveInv, OneFileLive
  <2>6. LiveInv'
    BY <1>1, <1>2, <2>4, <2>5 DEF LiveInv, OneFileLive
  <2>7. QED BY <2>2, <2>3, <2>6
<1>3. CASE ~(currentTarget /\ portUp)
  <2>1. file' = file /\ mainPc' = "idle"
    BY <1>1, <1>3 DEF StartTransmit
  <2>2. Types'
    BY <1>1, <1>3, <2>1 DEF Types
  <2>3. SenderInv' /\ MainInv' /\ EventInv' /\ WorkerInv'
    BY <1>1, <2>1 DEF SenderInv, MainInv, EventInv, WorkerInv
  <2>4. Live' \subseteq Live
    BY <1>1, <2>1 DEF Live
  <2>5. Live \subseteq unguarded
    BY <1>1 DEF LiveInv, OneFileLive
  <2>6. LiveInv'
    BY <1>1, <2>1, <2>4, <2>5 DEF LiveInv, OneFileLive
  <2>7. QED BY <2>2, <2>3, <2>6
<1>4. QED BY <1>2, <1>3

-----------------------------------------------------------------------------
(* The steps of the library, the worker and the event thread *)

\* A callback begins; the port may come or go with it.
LEMMA LibraryKeeps ==
    ASSUME IInv, Library
    PROVE  IInv'
<1> USE DEF IInv
<1>1. /\ ~crashed
      /\ UNCHANGED <<currentAudioMedia, playing, currentTarget, player, mainPc, stopTarget,
                     unguarded, eventPc, eventFile, released, crashed>>
      /\ file' = file \/ file' = Unplugged
  BY DEF Library, FindMedia, LoseMedia, EndCall
<1>1a. changes' \in 0 .. MaxMedia /\ portUp' \in BOOLEAN
  <2>1. changes \in 0 .. MaxMedia /\ portUp \in BOOLEAN
    BY DEF Types
  <2>2. CASE changes' = changes
    BY <2>1, <2>2 DEF Library, FindMedia, LoseMedia, EndCall
  <2>3. CASE changes' # changes
    <3>1. changes < MaxMedia /\ changes' = changes + 1 /\ portUp' \in BOOLEAN
      BY <2>3 DEF Library, FindMedia, LoseMedia, EndCall
    <3>2. QED BY <2>1, <3>1, BoundAssumption
  <2>4. QED BY <2>2, <2>3
<1>2. workerTodo' \in {Using, Losing, Ending}
  BY Rests DEF Library, FindMedia, LoseMedia, EndCall
<1>3. WorkerInv'
  BY <1>2 DEF WorkerInv
<1>4. CASE file' = file
  <2>1. Types' /\ SenderInv' /\ MainInv' /\ EventInv'
    BY <1>1, <1>4, <1>1a DEF Types, SenderInv, MainInv, EventInv
  <2>2. Live' \subseteq Live
    BY <1>1, <1>4 DEF Live
  <2>3. LiveInv'
    BY <1>1, <2>2, NoMoreLive
  <2>4. QED BY <1>3, <2>1, <2>3
<1>5. CASE file' = Unplugged
  <2>1. /\ file' \in [Files -> {"new", "idle", "sending", "eof", "told", "gone"}]
        /\ Live' \subseteq Live
        /\ SenderInv' /\ MainInv' /\ EventInv'
    BY <1>1, <1>5, Disconnecting
  <2>2. Types'
    BY <1>1, <1>1a, <2>1 DEF Types
  <2>3. LiveInv'
    BY <1>1, <2>1, NoMoreLive
  <2>4. QED BY <1>3, <2>1, <2>2, <2>3
<1>6. QED BY <1>1, <1>4, <1>5

\* The steps of a callback.
LEMMA WorkerKeeps ==
    ASSUME IInv, Worker
    PROVE  IInv'
<1> USE DEF IInv
<1>1. /\ ~crashed
      /\ UNCHANGED <<player, mainPc, eventPc, eventFile, changes, crashed>>
      /\ currentAudioMedia' \in BOOLEAN /\ playing' \in BOOLEAN /\ currentTarget' \in BOOLEAN
      /\ stopTarget' \in BOOLEAN /\ portUp' \in BOOLEAN /\ released' \in BOOLEAN
      /\ file' = file \/ file' = Unplugged
  BY DEF Worker, UseMedia, ForgetMedia, StopPlayer, StopTransmit, ReportState, ReleaseCall, Types
<1>2. \/ playing' = playing /\ unguarded' = unguarded
      \/ unguarded' = unguarded \cup Live
  BY DEF Worker, UseMedia, ForgetMedia, StopPlayer, StopTransmit, ReportState, ReleaseCall
<1>2a. unguarded' \subseteq Files
  BY <1>2 DEF Live, Types
<1>3. \E step : Doing(step)
  <2>1. CASE StopPlayer
    BY <2>1 DEF StopPlayer, Types
  <2>2. CASE UseMedia
    BY <2>2 DEF UseMedia, Types
  <2>3. CASE ForgetMedia
    BY <2>3 DEF ForgetMedia, Types
  <2>4. CASE StopTransmit
    BY <2>4 DEF StopTransmit, Types
  <2>5. CASE ReportState
    BY <2>5 DEF ReportState, Types
  <2>6. CASE ReleaseCall
    BY <2>6 DEF ReleaseCall, Types
  <2>7. QED BY <2>1, <2>2, <2>3, <2>4, <2>5, <2>6 DEF Worker
<1>4. WorkerInv'
  BY <1>3, WorkerSteps
<1>5. /\ Types' /\ SenderInv' /\ MainInv' /\ EventInv'
      /\ Live' \subseteq Live
  <2>1. CASE file' = file
    BY <1>1, <1>2a, <2>1 DEF Types, SenderInv, MainInv, EventInv, Live
  <2>2. CASE file' = Unplugged
    <3>1. /\ file' \in [Files -> {"new", "idle", "sending", "eof", "told", "gone"}]
          /\ Live' \subseteq Live
          /\ SenderInv' /\ MainInv' /\ EventInv'
      BY <1>1, <2>2, Disconnecting
    <3>2. QED BY <1>1, <1>2a, <3>1 DEF Types
  <2>3. QED BY <1>1, <2>1, <2>2
<1>6. LiveInv'
  <2>1. CASE playing' = playing /\ unguarded' = unguarded
    BY <1>1, <1>5, <2>1, NoMoreLive
  <2>2. CASE unguarded' = unguarded \cup Live
    <3>1. Live' \subseteq unguarded'
      BY <1>5, <2>2
    <3>2. QED BY <3>1 DEF LiveInv, OneFileLive
  <2>3. QED BY <1>2, <2>1, <2>2
<1>7. QED BY <1>4, <1>5, <1>6

\* A file has been read.
LEMMA EndOfFileKeeps ==
    ASSUME IInv, ~crashed, NEW f \in Files, EndOfFile(f)
    PROVE  IInv'
<1> USE DEF IInv
<1>1. /\ file[f] = "sending"
      /\ file' = [file EXCEPT ![f] = "eof"]
      /\ UNCHANGED <<currentAudioMedia, playing, currentTarget, player, mainPc, workerTodo,
                     stopTarget, unguarded, eventPc, eventFile, portUp, released, changes, crashed>>
  BY DEF EndOfFile
<1>2. /\ file' \in [Files -> {"new", "idle", "sending", "eof", "told", "gone"}]
      /\ file'[f] = "eof" /\ \A g \in Files : g # f => file'[g] = file[g]
  BY <1>1 DEF Types
<1>3. Types' /\ WorkerInv'
  BY <1>1, <1>2 DEF Types, WorkerInv
<1>4. SenderInv' /\ MainInv' /\ EventInv'
  BY <1>1, <1>2 DEF SenderInv, MainInv, EventInv
<1>5. Live' \subseteq Live
  BY <1>1, <1>2 DEF Live
<1>6. LiveInv'
  BY <1>1, <1>5, NoMoreLive
<1>7. QED BY <1>3, <1>4, <1>6

\* The event thread hears of it.
LEMMA OnEofKeeps ==
    ASSUME IInv, ~crashed, NEW f \in Files, OnEof2(f)
    PROVE  IInv'
<1> USE DEF IInv
<1>1. /\ eventPc = "idle" /\ file[f] = "eof" /\ eventFile' = f /\ eventPc' = "playing"
      /\ UNCHANGED <<currentAudioMedia, playing, currentTarget, player, mainPc, workerTodo,
                     stopTarget, unguarded, file, portUp, released, changes, crashed>>
  BY DEF OnEof2
<1>2. Types' /\ SenderInv' /\ MainInv' /\ EventInv' /\ WorkerInv'
  BY <1>1 DEF Types, SenderInv, MainInv, EventInv, WorkerInv
<1>3. \A g \in Files : g # eventFile
  BY <1>1 DEF EventInv, Files
<1>4. Live' \subseteq Live
  BY <1>1, <1>3 DEF Live
<1>5. LiveInv'
  BY <1>1, <1>4, NoMoreLive
<1>6. QED BY <1>2, <1>5

\* Once playing is cleared, every file that is live has lost its flag: the
\* event thread's was the only other one, or it lost its own before.
LEMMA EofPlayingKeeps ==
    ASSUME IInv, ~crashed, EofPlaying
    PROVE  IInv'
<1> USE DEF IInv
<1>1. /\ eventPc = "playing" /\ eventPc' = "target" /\ playing' = FALSE
      /\ unguarded' = unguarded \cup IF eventFile \in unguarded THEN Live ELSE {}
      /\ UNCHANGED <<currentAudioMedia, currentTarget, player, mainPc, workerTodo, stopTarget,
                     eventFile, file, portUp, released, changes, crashed>>
  BY DEF EofPlaying
<1>2. Live \subseteq Files
  BY DEF Live
<1>3. Types'
  <2>1. unguarded' \subseteq Files
    BY <1>1, <1>2 DEF Types
  <2>2. QED BY <1>1, <2>1 DEF Types
<1>4. SenderInv' /\ MainInv' /\ EventInv'
  BY <1>1 DEF SenderInv, MainInv, EventInv
<1>5. WorkerInv'
  BY <1>1 DEF WorkerInv
<1>6. eventFile \in Live /\ eventFile \notin Live' /\ Live' \subseteq Live
  BY <1>1 DEF EventInv, Live
<1>7. Live' \subseteq unguarded'
  <2>1. CASE eventFile \in unguarded
    BY <1>1, <1>6, <2>1
  <2>2. CASE eventFile \notin unguarded
    <3>1. \A f \in Live : f \in unguarded \/ f = eventFile
      BY <1>6, <2>2 DEF LiveInv, OneFileLive
    <3>2. QED BY <1>1, <1>6, <3>1
  <2>3. QED BY <2>1, <2>2
<1>8. LiveInv'
  BY <1>7 DEF LiveInv, OneFileLive
<1>9. QED BY <1>3, <1>4, <1>5, <1>8

\* The rest of onEof2.
LEMMA EofKeeps ==
    ASSUME IInv, ~crashed, EofTarget \/ EofLock
    PROVE  IInv'
<1> USE DEF IInv
<1>1. /\ eventPc \in {"target", "lock"} /\ eventPc' \in {"lock", "query"}
      /\ currentTarget' \in BOOLEAN
      /\ UNCHANGED <<currentAudioMedia, playing, player, mainPc, workerTodo, stopTarget,
                     unguarded, eventFile, file, portUp, released, changes, crashed>>
  BY DEF EofTarget, EofLock, Types
<1>2. Types' /\ SenderInv' /\ MainInv' /\ EventInv' /\ WorkerInv'
  BY <1>1 DEF Types, SenderInv, MainInv, EventInv, WorkerInv
<1>3. Live' \subseteq Live
  BY <1>1 DEF Live
<1>4. LiveInv'
  BY <1>1, <1>3, NoMoreLive
<1>5. QED BY <1>2, <1>4

LEMMA EofReportKeeps ==
    ASSUME IInv, ~crashed, EofReport
    PROVE  IInv'
<1> USE DEF IInv
<1>1. /\ eventPc = "query" /\ eventPc' = "idle" /\ eventFile' = 0
      /\ eventFile \in Files /\ file[eventFile] = "eof"
      /\ crashed' = released
      /\ file' = IF released THEN file ELSE [file EXCEPT ![eventFile] = "told"]
      /\ UNCHANGED <<currentAudioMedia, playing, currentTarget, player, mainPc, workerTodo,
                     stopTarget, unguarded, portUp, released, changes>>
  BY DEF EofReport, EventInv
<1>2. /\ file' \in [Files -> {"new", "idle", "sending", "eof", "told", "gone"}]
      /\ \A g \in Files : g # eventFile => file'[g] = file[g]
      /\ file'[eventFile] = IF released THEN "eof" ELSE "told"
  BY <1>1 DEF Types
<1>3. Types' /\ WorkerInv'
  BY <1>1, <1>2 DEF Types, WorkerInv
<1>4. SenderInv' /\ MainInv' /\ EventInv'
  BY <1>1, <1>2 DEF SenderInv, MainInv, EventInv
<1>5. LiveInv'
  <2>1. CASE released
    BY <1>1, <2>1 DEF LiveInv
  <2>2. CASE ~released
    <3>1. Live' \subseteq Live
      BY <1>1, <1>2, <2>2 DEF Live
    <3>2. QED BY <1>1, <3>1, NoMoreLive
  <2>3. QED BY <2>1, <2>2
<1>6. QED BY <1>3, <1>4, <1>5

-----------------------------------------------------------------------------
(* Theorems *)

LEMMA NextKeeps ==
    ASSUME IInv, Next
    PROVE  IInv'
<1>1. CASE Main
  BY <1>1, FlagSteps, UnplugKeeps, CreateKeeps, TransmitKeeps DEF Main
<1>2. CASE Commands
  BY <1>2, FlagSteps DEF Commands
<1>3. CASE Worker
  BY <1>3, WorkerKeeps
<1>4. CASE Library
  BY <1>4, LibraryKeeps
<1>5. CASE Event
  BY <1>5, EofPlayingKeeps, EofKeeps, EofReportKeeps DEF Event
<1>6. CASE FileEnds
  BY <1>6, EndOfFileKeeps DEF FileEnds
<1>7. CASE EventComes
  BY <1>7, OnEofKeeps DEF EventComes
<1>8. QED BY <1>1, <1>2, <1>3, <1>4, <1>5, <1>6, <1>7 DEF Next

\* The invariant holds when the call has been made, and from then on.
THEOREM Invariance == Spec => []IInv
<1>1. Init => IInv
  <2> SUFFICES ASSUME Init PROVE IInv
    OBVIOUS
  <2>1. Types
    <3>1. file \in [Files -> {"new", "idle", "sending", "eof", "told", "gone"}]
      BY DEF Init
    <3>2. changes \in 0 .. MaxMedia
      BY BoundAssumption DEF Init
    <3>3. QED BY <3>1, <3>2 DEF Init, Types
  <2>2. SenderInv /\ MainInv /\ EventInv
    BY DEF Init, SenderInv, MainInv, EventInv
  <2>3. Live = {}
    BY DEF Init, Live
  <2>4. LiveInv /\ WorkerInv
    BY <2>3 DEF Init, LiveInv, OneFileLive, WorkerInv
  <2>5. QED BY <2>1, <2>2, <2>4 DEF IInv
<1>2. IInv /\ [Next]_vars => IInv'
  <2> SUFFICES ASSUME IInv, [Next]_vars PROVE IInv'
    OBVIOUS
  <2>1. CASE Next
    BY <2>1, NextKeeps
  <2>2. CASE UNCHANGED vars
    BY <2>2 DEF vars, IInv, Types, SenderInv, MainInv, EventInv, LiveInv, OneFileLive, Live,
                WorkerInv
  <2>3. QED BY <2>1, <2>2
<1>3. QED BY <1>1, <1>2, PTL DEF Spec

\* All variables of the player and its threads keep their types, and only the
\* current player sends a file, although three threads change it without a
\* lock.
THEOREM TypeCorrect == Spec => []TypeOK
<1>1. IInv => TypeOK
  <2> SUFFICES ASSUME IInv PROVE TypeOK
    OBVIOUS
  <2>1. workerTodo \in Seq({"use", "forget", "stop", "unplug", "report", "release"})
    BY ListTypes DEF IInv
  <2>2. QED BY <2>1 DEF IInv, Types, SenderInv, TypeOK
<1>2. QED BY <1>1, Invariance, PTL

\* What a step may do to a file that is being sent.
CutOnly == \A f \in Files : file[f] = "sending" /\ file'[f] # "sending" =>
               file'[f] = "eof" \/ ~portUp' \/ StopTransmit \/ f \in unguarded

\* "send_audio" cuts off no file that is being sent: playAudio passes its
\* check only when none is, and nobody but a callback disconnects a player
\* whose media is there.  This includes the files that are played after a
\* callback stopped the player; excepted are the files that were there when it
\* did, and the one that the late end of such a file reaches.
THEOREM FilesAreNotCutOff == Spec => NotCutOff
<1>1. IInv /\ [Next]_vars => CutOnly
  <2> SUFFICES ASSUME IInv, [Next]_vars, NEW f \in Files, file[f] = "sending"
               PROVE  file'[f] # "sending" =>
                         file'[f] = "eof" \/ ~portUp' \/ StopTransmit \/ f \in unguarded
    BY DEF CutOnly
  <2>1. f \in Live
    BY DEF Live
  <2> USE DEF IInv
  <2>2. CASE Main
    <3>1. CASE Prepare \/ SetTarget \/ SetPlaying \/ OtherCalling
      BY <3>1 DEF Prepare, SetTarget, SetPlaying, OtherCalling
    <3>2. CASE Unplug \/ \E g \in Files : CreatePlayer(g)
      <4>1. mainPc \in {"unplug", "create"} /\ ~crashed
        BY <2>2, <3>2 DEF Main, Unplug, CreatePlayer
      <4>2. f \in unguarded
        BY <2>1, <4>1 DEF LiveInv, OneFileLive
      <4>3. QED BY <4>2
    <3>3. CASE StartTransmit
      BY <3>3 DEF StartTransmit, Types
    <3>4. QED BY <2>2, <3>1, <3>2, <3>3 DEF Main
  <2>3. CASE Commands
    BY <2>3 DEF Commands, PlayAudio, OtherMakeCall
  <2>4. CASE Worker
    <3>1. CASE UseMedia \/ ForgetMedia \/ StopPlayer \/ ReportState
      BY <3>1 DEF UseMedia, ForgetMedia, StopPlayer, ReportState
    <3>2. CASE StopTransmit
      BY <3>2
    <3>3. CASE ReleaseCall
      BY <3>3 DEF ReleaseCall
    <3>4. QED BY <2>4, <3>1, <3>2, <3>3 DEF Worker
  <2>5. CASE Library
    BY <2>5 DEF Library, FindMedia, LoseMedia, EndCall
  <2>6. CASE Event
    <3>1. CASE EofReport
      BY <3>1 DEF EofReport, EventInv, Types
    <3>2. CASE EofPlaying \/ EofTarget \/ EofLock
      BY <3>2 DEF EofPlaying, EofTarget, EofLock
    <3>3. QED BY <2>6, <3>1, <3>2 DEF Event
  <2>7. CASE FileEnds
    BY <2>7 DEF FileEnds, EndOfFile, Types
  <2>8. CASE EventComes
    BY <2>8 DEF EventComes, OnEof2
  <2>9. CASE UNCHANGED vars
    BY <2>9 DEF vars
  <2>10. QED BY <2>2, <2>3, <2>4, <2>5, <2>6, <2>7, <2>8, <2>9 DEF Next
<1>2. QED BY <1>1, Invariance, PTL DEF Spec, NotCutOff, CutOnly

=============================================================================
