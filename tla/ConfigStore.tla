------------------------------ MODULE ConfigStore ------------------------------
(* ndp/core/config_io.py, config_merge.py, config.py and the form of              *)
(* web/config_schema.py: the configuration file, the savers of the web page that  *)
(* rewrite it, the service that reads it when it starts, a power cut, and the     *)
(* installer that appends the keys a new release has.  A file is its lines, with  *)
(* the section each stands in; comments and empty lines are left out.             *)
EXTENDS Integers, Sequences, SequencesExt

CONSTANTS
    Savers,     \* requests of the page that may save at the same time
    Files,      \* the files there may be at first
    Edits,      \* the texts the page's editor may post
    Posts,      \* the values the page's form may post, by key
    Template,   \* default.yaml of the release that is installed
    MaxSaves    \* bound on the requests made

ASSUME ConfigAssumption == MaxSaves \in Nat

Torn == [at |-> <<"?", "?">>, value |-> "?"]     \* a line yaml cannot make sense of
Parses(lines) == \A i \in DOMAIN lines : lines[i] # Torn

\* A line that is not torn stands somewhere else than a torn one.
Line == [at : STRING \X STRING, value : STRING]
IsText(lines) ==
    lines \in Seq(Line) /\ \A i \in DOMAIN lines : lines[i].at = Torn.at => lines[i] = Torn

\* The fields of the form, in its order.
FieldOrder ==
    <<<<"", "interface">>, <<"web", "enabled">>, <<"wifi_hotspot", "enabled">>,
      <<"wifi_hotspot", "password">>, <<"ping", "count">>>>

\* The file there is at first, and the template, can be read; texts may be torn.
ASSUME TextsAssumption ==
    /\ \A lines \in Files \cup {Template} : IsText(lines) /\ Parses(lines)
    /\ \A text \in Edits : IsText(text)
    /\ \A post \in Posts :
           post \in [DOMAIN post -> STRING] /\ DOMAIN post \subseteq Range(FieldOrder)

VARIABLES
    file,
    up,         \* the service runs
    spc,        \* per saver: where it is
    page,       \* per saver: what it has read, or is writing
    saves,
    expected,   \* history: the values that the saves made so far ask for
    disturbed,  \* history: savers have overlapped, or the power was cut
    installed   \* history: the installer has changed the file

configVars == <<file, up, spc, page, saves, expected, disturbed, installed>>

-------------------------------------------------------------------------------
(* Files and what they say.                                                     *)

\* One of the fields is a number.
FieldType(key) == IF key = <<"ping", "count">> THEN "int" ELSE "string"

\* A value that int() refuses, where a number is needed.
Coerces(key, value) == FieldType(key) # "int" \/ value # "x"

\* NdpConfig.from_mapping takes any mapping whose numbers are numbers.
Accepted(lines) == \A i \in DOMAIN lines : Coerces(lines[i].at, lines[i].value)

At(lines, key) == {i \in DOMAIN lines : lines[i].at = key}

OfSection(lines, section) ==
    {i \in DOMAIN lines : section # "" /\ lines[i].at[1] = section}

\* Where a new key goes: behind its section, which goes last when it is new.
EndOf(lines, section) ==
    IF OfSection(lines, section) = {} THEN Len(lines) ELSE Max(OfSection(lines, section))

InsertBehind(lines, end, line) ==
    SubSeq(lines, 1, end) \o <<line>> \o SubSeq(lines, end + 1, Len(lines))

\* data[section][key] = value.  The mutant makes the section anew.
PutInNewSection(lines, key, value) ==
    Append(SelectSeq(lines, LAMBDA l : l.at # key /\ (key[1] = "" \/ l.at[1] # key[1])),
           [at |-> key, value |-> value])
Put(lines, key, value) ==
    IF At(lines, key) # {}
    THEN [i \in DOMAIN lines |->
             IF lines[i].at = key THEN [lines[i] EXCEPT !.value = value] ELSE lines[i]]
    ELSE InsertBehind(lines, EndOf(lines, key[1]), [at |-> key, value |-> value])

\* yaml.safe_load: of two lines with one key the later gives the value.
Loaded(lines) ==
    LET Upto[n \in 0..Len(lines)] ==
            IF n = 0 THEN <<>> ELSE Put(Upto[n - 1], lines[n].at, lines[n].value)
    IN Upto[Len(lines)]

Values(lines) ==
    LET read == Loaded(lines)
    IN [key \in {read[i].at : i \in DOMAIN read} |->
           read[CHOOSE i \in At(read, key) : TRUE].value]

\* What the form's values make of the file that was read.
Filled(lines, post) ==
    LET Upto[n \in 0..Len(FieldOrder)] ==
            IF n = 0 THEN lines
            ELSE IF FieldOrder[n] \in DOMAIN post
            THEN Put(Upto[n - 1], FieldOrder[n], post[FieldOrder[n]])
            ELSE Upto[n - 1]
    IN Upto[Len(FieldOrder)]

\* The form is refused for a value of the wrong type, or a short password.
FormAccepted(lines, post) ==
    /\ \A key \in DOMAIN post : Coerces(key, post[key])
    /\ \A i \in At(lines, <<"wifi_hotspot", "password">>) : lines[i].value # "short"
    /\ Accepted(lines)

-------------------------------------------------------------------------------
(* Saves.                                                                       *)

Busy == {c \in Savers : spc[c] # "idle"}

ConfigInit ==
    /\ file \in Files
    /\ up = TRUE
    /\ spc = [c \in Savers |-> "idle"]
    /\ page = [c \in Savers |-> <<>>]
    /\ saves = 0
    /\ expected = Values(file)
    /\ disturbed = FALSE /\ installed = FALSE

Request(c) ==
    /\ up /\ spc[c] = "idle" /\ saves < MaxSaves
    /\ saves' = saves + 1
    /\ disturbed' = (disturbed \/ Busy # {})
    /\ UNCHANGED <<up, installed>>

\* open(path, "w") has emptied the file; the writer's buffer is not out yet.
Truncate(c, lines) ==
    /\ file' = <<>>
    /\ page' = [page EXCEPT ![c] = lines]
    /\ spc' = [spc EXCEPT ![c] = "writing"]

PutText(c) ==
    /\ Request(c)
    /\ \E text \in Edits :
           IF Parses(text) /\ Accepted(text)
           THEN /\ Truncate(c, Loaded(text))
                /\ expected' = Values(text)
           ELSE UNCHANGED <<file, spc, page, expected>>

\* A file that does not parse ends the request.
ReadForm(c) ==
    /\ Request(c)
    /\ Parses(file)
    /\ page' = [page EXCEPT ![c] = Loaded(file)]
    /\ spc' = [spc EXCEPT ![c] = "read"]
    /\ UNCHANGED <<file, expected>>

SaveForm(c) ==
    /\ spc[c] = "read"
    /\ \E post \in Posts :
           LET data == Filled(page[c], post)
           IN IF FormAccepted(data, post)
              THEN /\ Truncate(c, data)
                   /\ expected' =
                          [key \in DOMAIN expected \cup DOMAIN post |->
                              IF key \in DOMAIN post THEN post[key] ELSE expected[key]]
              ELSE /\ spc' = [spc EXCEPT ![c] = "idle"]
                   /\ UNCHANGED <<file, page, expected>>
    /\ UNCHANGED <<up, saves, disturbed, installed>>

\* What another saver has written meanwhile stands out behind a shorter text, and
\* may begin in the middle of a line.
Close(c) ==
    /\ spc[c] = "writing"
    /\ spc' = [spc EXCEPT ![c] = "idle"]
    /\ LET rest == SubSeq(file, Len(page[c]) + 1, Len(file))
       IN \E behind \in {rest, IF rest = <<>> THEN rest ELSE <<Torn>> \o Tail(rest)} :
              file' = page[c] \o behind
    /\ UNCHANGED <<up, page, saves, expected, disturbed, installed>>

-------------------------------------------------------------------------------
(* Power, start and installation.                                               *)

\* The part of a text that has reached the disk.
PartsOf(lines) ==
    UNION {{SubSeq(lines, 1, n), Append(SubSeq(lines, 1, n), Torn)} : n \in DOMAIN lines}

PowerCut ==
    /\ Busy # {}
    /\ file' \in {file} \cup UNION {PartsOf(page[c]) : c \in {b \in Busy : spc[b] = "writing"}}
    /\ up' = FALSE
    /\ spc' = [c \in Savers |-> "idle"]
    /\ disturbed' = TRUE
    /\ UNCHANGED <<page, saves, expected, installed>>

\* load_config raises on a file that does not parse: the service does not start.
Boot ==
    /\ ~up
    /\ Parses(file) /\ Accepted(Loaded(file))
    /\ up' = TRUE
    /\ UNCHANGED <<file, spc, page, saves, expected, disturbed, installed>>

\* The lines of the template, indented as they are there, for the keys that are
\* missing.  Keys outside of sections are passed over.
IsMissing(lines, line) == line.at[1] # "" /\ At(lines, line.at) = {}

Blocks(lines) ==
    LET Upto[n \in 0..Len(Template)] ==
            IF n = 0 THEN <<>>
            ELSE IF IsMissing(lines, Template[n]) THEN Append(Upto[n - 1], Template[n])
            ELSE Upto[n - 1]
    IN Upto[Len(Template)]

\* Indented lines at the end of a file belong to its last section; behind a line
\* that opens none they do not parse.
Appended(lines) ==
    LET Behind(section, line) == [at |-> <<section, line.at[2]>>, value |-> line.value]
        new == Blocks(lines)
    IN lines \o
       [i \in DOMAIN new |->
           IF lines = <<>> THEN Behind("", new[i])
           ELSE IF Last(lines).at[1] = "" THEN Torn
           ELSE Behind(Last(lines).at[1], new[i])]

Install ==
    /\ Parses(file)
    /\ Blocks(file) # <<>>
    /\ ~installed
    /\ file' = Appended(file)
    /\ installed' = TRUE
    /\ disturbed' = (disturbed \/ Busy # {})
    /\ UNCHANGED <<up, spc, page, saves, expected>>

ConfigNext ==
    \/ \E c \in Savers : PutText(c) \/ ReadForm(c) \/ SaveForm(c) \/ Close(c)
    \/ PowerCut \/ Boot \/ Install

ConfigSpec == ConfigInit /\ [][ConfigNext]_configVars

-------------------------------------------------------------------------------
(* Properties.                                                                  *)

ConfigTypeOK ==
    /\ up \in BOOLEAN /\ disturbed \in BOOLEAN /\ installed \in BOOLEAN
    /\ spc \in [Savers -> {"idle", "read", "writing"}]
    /\ saves \in 0..MaxSaves
    /\ \A i \in DOMAIN file : DOMAIN file[i] = {"at", "value"}

\* As long as no two saves overlap and the power stays on, the file says exactly
\* what the saves have asked for: a form keeps every key it does not name, of its
\* own section and of others, a text replaces all, and a save that is refused
\* changes nothing (config_io.py:20-41, web/server.py:128-150).
SavesCompose ==
    Busy = {} /\ ~disturbed /\ ~installed => Parses(file) /\ Values(file) = expected

\* docs/DOCUMENTAZIONE.md:233: the installer merges the keys that default.yaml has
\* new, and overwrites no value (config_merge.py:63-87).
InstallMerges ==
    installed /\ ~disturbed /\ Busy = {} =>
        /\ Parses(file)
        /\ \A key \in DOMAIN expected :
               key \in DOMAIN Values(file) /\ Values(file)[key] = expected[key]
        /\ \A i \in DOMAIN Template :
               Template[i].at[1] # "" => Template[i].at \in DOMAIN Values(file)

===============================================================================
