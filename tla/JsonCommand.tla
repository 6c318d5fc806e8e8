----------------------------- MODULE JsonCommand -----------------------------
(***************************************************************************)
(* The texts that go over the connection: Json::parse, which the engine    *)
(* applies to a command (src/utils/Json.cpp), and the text of a state that *)
(* SIPCore::sendState builds with escapeJson (src/SIPCore.cpp).  The other *)
(* side is the Python SDK: json.dumps writes the commands and json.loads   *)
(* reads the states; both are external and are modelled by what they do.   *)
(*                                                                         *)
(* A text is a sequence of characters.  The name of a key, "sip:" and the  *)
(* letter u with four hexadecimal digits are single characters: no key in  *)
(* its quotes is a part of another one.  Spaces between fields are left    *)
(* out.  LineFeed stands for line feed, carriage return and tab, FormFeed  *)
(* for form feed and backspace, Control for the other control characters,  *)
(* NotAscii for what is not ASCII.                                         *)
(*                                                                         *)
(* An operator whose comment starts with "Fault:" is the operator after it *)
(* with a programming mistake; no action uses it.                          *)
(***************************************************************************)
EXTENDS Naturals, Sequences, SequencesExt

CONSTANTS
    Chars,    \* the characters, names of keys included
    Keys,     \* names of the fields of a command
    Command,  \* the one that must not be empty
    Commands, \* the commands sent: sequences of fields, with different keys
    States    \* the states sent: records of values

Quote     == "\""
Backslash == "\\"
LineFeed  == "\n"
FormFeed  == "form feed"
Control   == "bell"
NotAscii  == "e acute"

\* What stands between the strings of an object, quotes included.
Marks == {"{", "}", ":", ",", Quote}

\* The fields of a state.
StateKeys == {"username", "state", "media_state", "remote", "audio_state"}

ASSUME CharsAssumption ==
    Marks \cup StateKeys \cup Keys
          \cup {Backslash, LineFeed, FormFeed, Control, NotAscii}
          \cup {"n", "f", "u0007", "u00e9", "sip:", "@"} \subseteq Chars
ASSUME KeysAssumption ==
    /\ Command \in Keys
    /\ Keys \cap (Marks \cup {Backslash, LineFeed, FormFeed, Control, NotAscii}) = {}
ASSUME CommandsAssumption ==
    \A command \in Commands :
        /\ command \in Seq([key : Keys, chars : Seq(Chars)])
        /\ \A i, j \in DOMAIN command : command[i].key = command[j].key => i = j
ASSUME StatesAssumption ==
    \A state \in States : state \in [StateKeys -> Seq(Chars)]

VARIABLES
    phase, \* what was done last
    sent,  \* the command or state on its way
    text,  \* its line, without the line feed at the end
    read   \* what the other side made of it

vars == <<phase, sent, text, read>>

Init == phase = "idle" /\ sent = << >> /\ text = << >> /\ read = << >>

-----------------------------------------------------------------------------
(* Texts *)

Quoted(chars) == <<Quote>> \o chars \o <<Quote>>

Member(f) == Quoted(<<f.key>>) \o <<":">> \o Quoted(f.chars)

\* An object of fields with string values, in the order given.
Joined(all, f) == IF all = << >> THEN Member(f) ELSE all \o <<",">> \o Member(f)
Object(fields) == <<"{">> \o FoldLeft(Joined, << >>, fields) \o <<"}">>

\* std::string::find: the first place of pattern at or after from, 0 for none.
Find(s, pattern, from) ==
    LET at == {i \in from .. Len(s) - Len(pattern) + 1 :
                  SubSeq(s, i, i + Len(pattern) - 1) = pattern}
    IN  IF at = {} THEN 0 ELSE Min(at)

-----------------------------------------------------------------------------
(* Commands: json.dumps in the SDK, Json::parse in the engine *)

\* What json.dumps writes for a character.
Dumped(c) ==
    CASE c \in {Quote, Backslash} -> <<Backslash, c>>
      [] c = LineFeed             -> <<Backslash, "n">>
      [] c = FormFeed             -> <<Backslash, "f">>
      [] c = Control              -> <<Backslash, "u0007">>
      [] c = NotAscii             -> <<Backslash, "u00e9">>
      [] OTHER                    -> <<c>>

DumpedAll(chars) == FlattenSeq([i \in DOMAIN chars |-> Dumped(chars[i])])

Dumps(command) ==
    Object([i \in DOMAIN command |->
               [key |-> command[i].key, chars |-> DumpedAll(command[i].chars)]])

\* What extract makes of a character that follows a backslash.
Unescaped(c) == IF c = "n" THEN LineFeed ELSE c

\* Fault: the quote is looked at before the backslash in front of it.
ReadCharNaively(value, c) ==
    IF value.closed \/ c = Quote THEN [value EXCEPT !.closed = TRUE]
    ELSE IF value.escaped
      THEN [value EXCEPT !.chars = Append(@, Unescaped(c)), !.escaped = FALSE]
      ELSE CASE c = Backslash -> [value EXCEPT !.escaped = TRUE]
             [] OTHER         -> [value EXCEPT !.chars = Append(@, c)]

\* One round of the loop of extract.
ReadChar(value, c) ==
    IF value.closed THEN value
    ELSE IF value.escaped
      THEN [value EXCEPT !.chars = Append(@, Unescaped(c)), !.escaped = FALSE]
      ELSE CASE c = Backslash -> [value EXCEPT !.escaped = TRUE]
             [] c = Quote     -> [value EXCEPT !.closed = TRUE]
             [] OTHER         -> [value EXCEPT !.chars = Append(@, c)]

\* extract: the key in its quotes, wherever it is, then the next colon, then
\* the next quote, then the characters up to the quote that closes them.
Extract(json, key) ==
    LET keyPos == Find(json, Quoted(<<key>>), 1)
        colon  == Find(json, <<":">>, keyPos + 3)
        quote  == Find(json, <<Quote>>, colon + 1)
        value  == FoldLeft(ReadChar, [chars |-> << >>, escaped |-> FALSE, closed |-> FALSE],
                           SubSeq(json, quote + 1, Len(json)))
    IN  IF 0 \notin {keyPos, colon, quote} /\ value.closed THEN value.chars ELSE << >>

SendCommand(command) ==
    /\ phase = "idle"
    /\ phase' = "command" /\ sent' = command /\ text' = Dumps(command)
    /\ UNCHANGED read

\* Json::parse; a command without a name is not valid.
Parse ==
    /\ phase = "command"
    /\ phase' = IF Extract(text, Command) = << >> THEN "invalid" ELSE "parsed"
    /\ read' = [key \in Keys |-> Extract(text, key)]
    /\ UNCHANGED <<sent, text>>

-----------------------------------------------------------------------------
(* States: sendState in the engine, json.loads in the SDK *)

\* Fault: a character that is not ASCII is negative, hence below 0x20.
EscapedSigned(c) ==
    CASE c \in {Quote, Backslash} -> <<Backslash, c>>
      [] c = LineFeed             -> <<Backslash, "n">>
      [] c = FormFeed             -> <<Backslash, "f">>
      [] c = Control              -> <<Backslash, "u0007">>
      [] c = NotAscii             -> <<Backslash, "uffff">>
      [] OTHER                    -> <<c>>

\* Fault: control characters are written as they are.
EscapedQuotes(c) == IF c \in {Quote, Backslash} THEN <<Backslash, c>> ELSE <<c>>

\* What escapeJson writes for a character.
Escaped(c) ==
    CASE c \in {Quote, Backslash} -> <<Backslash, c>>
      [] c = LineFeed             -> <<Backslash, "n">>
      [] c = FormFeed             -> <<Backslash, "f">>
      [] c = Control              -> <<Backslash, "u0007">>
      [] OTHER                    -> <<c>>

EscapeJson(chars) == FlattenSeq([i \in DOMAIN chars |-> Escaped(chars[i])])

\* The user's part of a SIP URI: from "sip:" to the "@" after it.
CleanRemote(remote) ==
    LET sipPos == Find(remote, <<"sip:">>, 1)
        endPos == Find(remote, <<"@">>, sipPos + 1)
    IN  IF 0 \in {sipPos, endPos} THEN << >> ELSE SubSeq(remote, sipPos + 1, endPos - 1)

\* The text of sendState; "remote" is left out when there is no user's part.
Fields(value) ==
    LET Escape(key) == [key |-> key, chars |-> EscapeJson(value[key])]
    IN  <<Escape("username"), Escape("state"), Escape("media_state")>>
        \o (IF value.remote = << >> THEN << >> ELSE <<Escape("remote")>>)
        \o <<Escape("audio_state")>>
StateText(state) == Object(Fields([state EXCEPT !.remote = CleanRemote(@)]))

\* json.loads on an object of strings: its strings one after the other.
Decoded(c) ==
    CASE c = "n"     -> LineFeed
      [] c = "f"     -> FormFeed
      [] c = "u0007" -> Control
      [] c = "u00e9" -> NotAscii
      [] OTHER       -> c
LoadPut(r, d) == [r EXCEPT !.strings[Len(r.strings)] = Append(@, d), !.escaped = FALSE]
LoadChar(r, c) ==
    IF ~r.open
      THEN IF c = Quote THEN [r EXCEPT !.strings = Append(@, << >>), !.open = TRUE] ELSE r
    ELSE IF r.escaped
      THEN LoadPut(r, Decoded(c))
      ELSE CASE c = Backslash -> [r EXCEPT !.escaped = TRUE]
             [] c = Quote     -> [r EXCEPT !.open = FALSE]
             [] OTHER         -> LoadPut(r, c)

\* The pairs of a key and its value.
Loads(json) ==
    LET strings == FoldLeft(LoadChar, [strings |-> << >>, open |-> FALSE, escaped |-> FALSE],
                            json).strings
    IN  {<<strings[i], strings[i + 1]>> : i \in {j \in 1 .. Len(strings) - 1 : j % 2 = 1}}

SendState(state) ==
    /\ phase = "idle"
    /\ phase' = "state" /\ sent' = state /\ text' = StateText(state)
    /\ UNCHANGED read

Load ==
    /\ phase = "state"
    /\ phase' = "loaded" /\ read' = Loads(text)
    /\ UNCHANGED <<sent, text>>

-----------------------------------------------------------------------------

Next ==
    \/ \E command \in Commands : SendCommand(command)
    \/ \E state \in States : SendState(state)
    \/ Parse \/ Load

Spec == Init /\ [][Next]_vars

-----------------------------------------------------------------------------
(* Properties *)

\* The lines are cut at line feeds (run in src/tcp/TcpServer.cpp, tcp_thread
\* in netsip.py): no value may bring one into a text.
OneLine == LineFeed \notin Range(text)

\* A value that would be taken for a key: with the quote that opens it, it
\* ends in a quote and a key's name.
LooksLikeKey(chars) ==
    \E key \in Keys : IsSuffix(<<Quote, key>>, <<Quote>> \o chars)

\* Characters whose escape extract does not know: it takes the letter after the
\* backslash for the character (b, f, or u and four digits).
Misread == {FormFeed, Control, NotAscii}

\* Json::parse gives every field of a command as it was sent, and nothing for
\* a field that was not sent, whatever quotes, backslashes, colons, line feeds,
\* carriage returns and tabs are in the values and whatever the order of the
\* fields.  The exceptions are named: a value that looks like a key, and values
\* with a character extract does not know the escape of (other control characters
\* and what is not ASCII).
FieldsAsSent ==
    (/\ phase \in {"parsed", "invalid"}
     /\ \A i \in DOMAIN sent :
          Misread \cap Range(sent[i].chars) = {} /\ ~LooksLikeKey(sent[i].chars))
    => /\ \A i \in DOMAIN sent : read[sent[i].key] = sent[i].chars
       /\ \A key \in Keys : (\A i \in DOMAIN sent : sent[i].key # key) => read[key] = << >>
       /\ phase = "parsed" <=> \E i \in DOMAIN sent : sent[i].key = Command /\ sent[i].chars # << >>

\* The SDK reads from the text of a state exactly the values the engine had,
\* with control characters and what is not ASCII, and of the remote URI the user's part:
\* what is between the first "sip:" and the next "@", if it is not empty.
StateAsSent ==
    phase = "loaded" =>
        LET uri   == sent.remote
            users == {SubSeq(uri, at[1] + 1, at[2] - 1) :
                        at \in {p \in (DOMAIN uri) \X (DOMAIN uri) :
                                  /\ p[1] < p[2] /\ uri[p[1]] = "sip:" /\ uri[p[2]] = "@"
                                  /\ \A k \in 1 .. p[1] - 1 : uri[k] # "sip:"
                                  /\ \A k \in p[1] + 1 .. p[2] - 1 : uri[k] # "@"}}
        IN  read = {<<<<key>>, sent[key]>> : key \in DOMAIN sent \ {"remote"}}
                   \cup {<<<<"remote">>, user>> : user \in users \ {<< >>}}

=============================================================================
