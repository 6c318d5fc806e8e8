---------------------------- MODULE MCJsonCommand ----------------------------
(* Instances of JsonCommand for TLC. *)
EXTENDS JsonCommand

\* Characters that mean something to one of the parsers, and others.
Alphabet == {Quote, Backslash, LineFeed, FormFeed, Control, NotAscii, ":", ",", "n", "device"}

MCChars   == Alphabet \cup {"{", "}", "command", "username", "state", "media_state", "remote",
                           "audio_state", "registered", "inactive", "stop", "f", "u0007",
                           "u00e9", "sip:", "@", "<", ">", "a", "b"}
MCKeys    == {"command", "username", "device"}
MCCommand == "command"

ValuesUpTo(n) == UNION {[1 .. k -> Alphabet] : k \in 0 .. n}

Single(key, chars) == [key |-> key, chars |-> chars]

\* A command that is alone, before another field, after one, or without one.
MCCommands ==
    {<<Single("command", v)>> : v \in ValuesUpTo(3)}
    \cup {<<Single("username", v), Single("command", w)>> : v \in ValuesUpTo(2), w \in ValuesUpTo(1)}
    \cup {<<Single("command", v), Single("device", w)>> : v \in ValuesUpTo(1), w \in ValuesUpTo(2)}

Remotes ==
    {<<>>, <<"sip:">>, <<"a", "@", "b">>, <<"sip:", "a">>, <<"<", "sip:", "a", "@", "b", ">">>,
     <<Quote, "a", Quote, "<", "sip:", Quote, NotAscii, "@", "b", ">">>, <<"sip:", "@", "b">>,
     <<"@", "sip:", "a", "@", "b">>, <<"sip:", "a", "sip:", "n", "@", "b", "@">>}

MCStates ==
    [username : ValuesUpTo(2), state : {<<"registered">>}, media_state : {<<"inactive">>, <<>>},
     remote : Remotes, audio_state : {<<"stop">>}]

=============================================================================
