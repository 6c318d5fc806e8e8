---------------------------- MODULE MCCallMedia ----------------------------
(* Instances of CallMedia for TLC. *)
EXTENDS CallMedia, TLC

\* Calls and devices are interchangeable.
Symmetry == Permutations(Calls) \cup Permutations(Devices)

\* Three events in all: media found, lost and found again, or media found and
\* lost around a change of the sound devices, or two such changes before it, then
\* with no command: both devices are on.  Once a device is lost no property speaks
\* of devices till they are selected anew: no command and no media till then.
\* Sound devices and what is told of the media have nothing to do with each other:
\* devices change where nothing is sent and the call alone reports.
FewEvents ==
    /\ changes' + plugs' <= 3
    /\ plugs' = 2 => mainPc' = "idle" /\ \A d \in Devices : deviceStates[d]
    /\ deviceLost /\ deviceLost' => mainPc' = "idle" /\ changes' = changes
    /\ plugs' > 0 => \/ lastReport' = Sent("none", FALSE)
                     \/ lastReport' \in {Pushed(says, FALSE) :
                                          says \in {"disconnected", "inactive", "connected"}}

=============================================================================
