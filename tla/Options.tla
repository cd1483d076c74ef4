------------------------------- MODULE Options -------------------------------
(***************************************************************************)
(* The options of a self-play run, from the command line to the settings   *)
(* the tournament starts with: utils/optionsparser.cc, optionsdict.h,      *)
(* SelfPlayLoop::RunLoop and the constructor of SelfPlayTournament.        *)
(*                                                                         *)
(* The arguments are those that are left when main has consumed selfplay.  *)
(* An argument is a record of what the parser tells apart: its form, the   *)
(* flag it names, a context and a text.  A number is kept in tenths, so    *)
(* that fractions exist and std::stoi cuts them off; any other text is a   *)
(* word.  ConfigFile::Init is called nowhere, so the configuration file    *)
(* contributes no arguments, and there are no contexts.                    *)
(***************************************************************************)
EXTENDS Integers, Sequences, FiniteSets

CONSTANTS
    Argument,      \* the arguments a command line is made of
    MaxArguments   \* bound: their number

\* The string of what is not given: a letter, a context, a value.
Nothing == ""

Text == [word : STRING, tenths : Int]
Number(tenths) == [word |-> "number", tenths |-> tenths]
Word(w) == [word |-> w, tenths |-> 0]

Form == {"long", "no", "short", "word", "help", "hidden"}

\* A short flag is one character: two characters of which the first is a dash.
ASSUME OptionsAssumption ==
    /\ Argument \subseteq [form : Form, name : STRING, context : STRING, text : Text]
    /\ \A a \in Argument : a.form = "short" => a.name # Nothing
    /\ MaxArguments \in Nat

(***************************************************************************)
(* PopulateOptions of the tournament, the search parameters and the        *)
(* network factory.  A float is in tenths; the only backend is random.     *)
(***************************************************************************)
Option(long, short, kind, min, max, default) ==
    [long |-> long, short |-> short, kind |-> kind, min |-> min, max |-> max, default |-> default]

OptionTable ==
    <<Option("backend", "b", "choice", 0, 0, "random"),
      Option("threads", "t", "int", 1, 8, 1),
      Option("minibatch-size", Nothing, "int", 1, 1024, 256),
      Option("cpuct", Nothing, "float", 0, 1000, 30),
      Option("cpuct-base", Nothing, "float", 10, 10000000, 196520),
      Option("cpuct-factor", Nothing, "float", 0, 10000, 20),
      Option("temperature", Nothing, "float", 0, 1000, 0),
      Option("fpu-value", Nothing, "float", -1000, 1000, 12),
      Option("games", Nothing, "int", -1, 99999, 1),
      Option("parallelism", Nothing, "int", 1, 256, 8),
      Option("movetime", Nothing, "int", -1, 9999999, -1),
      Option("training", Nothing, "bool", 0, 0, FALSE)>>

Backends == {"random"}

\* The values an option may have.
Values(o) ==
    CASE o.kind = "bool"   -> BOOLEAN
      [] o.kind = "choice" -> Backends
      [] OTHER             -> o.min .. o.max

VARIABLES
    arguments,  \* CommandLine::arguments_
    next,       \* the argument iter points to
    values,     \* values_: the options that were set
    pc          \* where RunLoop is

vars == <<arguments, next, values, pc>>

\* OptionsDict::Get, which asks the parent for what is not in the dictionary; the
\* parent holds the defaults.
Get(i) == IF i \in DOMAIN values THEN values[i] ELSE OptionTable[i].default

\* Mutant: a value is inserted and does not replace the one that is there.
Mut_With(i, v) == [j \in DOMAIN values \cup {i} |-> IF j \in DOMAIN values THEN values[j] ELSE v]

\* OptionsDict::Set
With(i, v) == [j \in DOMAIN values \cup {i} |-> IF j = i THEN v ELSE values[j]]
-----------------------------------------------------------------------------
(***************************************************************************)
(* Reading a value: the set of the one value a text stands for, or empty   *)
(* when std::stoi, std::stof or the check of the option throws.            *)
(***************************************************************************)
Truncated(tenths) == IF tenths < 0 THEN -(-tenths \div 10) ELSE tenths \div 10

\* Mutant: only the upper end is checked.
Mut_InRange(o, number) == {v \in {number} : v <= o.max}

InRange(o, number) == {number} \cap o.min .. o.max

ReadInt(o, text) == IF text.word = "number" THEN InRange(o, Truncated(text.tenths)) ELSE {}
ReadFloat(o, text) == IF text.word = "number" THEN InRange(o, text.tenths) ELSE {}
ReadChoice(text) == {text.word} \cap Backends

\* The value of an option that is no bool.
Read(o, text) ==
    CASE o.kind = "int"    -> ReadInt(o, text)
      [] o.kind = "float"  -> ReadFloat(o, text)
      [] o.kind = "choice" -> ReadChoice(text)
      [] o.kind = "bool"   -> {}

\* BoolOption::ProcessLongFlag: a value, if any, is validated.
ReadBool(arg) ==
    IF arg.form = "no" THEN {FALSE}
    ELSE IF arg.text.word \in {Nothing, "true"} THEN {TRUE}
    ELSE IF arg.text.word = "false" THEN {FALSE}
    ELSE {}

\* FindOptionByLongFlag, which finds an option by --no- as well, and the option
\* that has a short flag.
Named(arg) == {i \in DOMAIN OptionTable : OptionTable[i].long = arg.name}
Lettered(arg) == {i \in DOMAIN OptionTable : OptionTable[i].short = arg.name}

\* The text of an argument that is taken for the value of the flag before it.
AsText(arg) == IF arg.form \in {"word", "short"} THEN arg.text ELSE Word("flag")

\* What follows the flag, if anything does.
Following == IF next < Len(arguments) THEN AsText(arguments[next + 1]) ELSE Word(Nothing)
-----------------------------------------------------------------------------
(***************************************************************************)
(* ProcessFlags.                                                           *)
(***************************************************************************)
Current == arguments[next]

Arguing(form) == pc = "flags" /\ next <= Len(arguments) /\ Current.form \in form

\* A value is set and the next argument looked at, or an exception leaves main.
SetOrThrow(i, read, step) ==
    /\ IF read = {} THEN pc' = "terminated" /\ UNCHANGED <<next, values>>
       ELSE /\ values' = With(i, CHOOSE v \in read : TRUE)
            /\ next' = next + step
            /\ UNCHANGED pc
    /\ UNCHANGED arguments

Return(where) == pc' = where /\ UNCHANGED <<arguments, next, values>>

\* There are no contexts, and none can be had.
ProcessLongFlag(i) ==
    /\ Arguing({"long", "no"}) /\ Current.context = Nothing
    /\ i \in Named(Current)
    /\ IF OptionTable[i].kind = "bool" THEN SetOrThrow(i, ReadBool(Current), 1)
       ELSE Current.form = "long" /\ SetOrThrow(i, Read(OptionTable[i], Current.text), 1)

UnknownContext ==
    /\ Arguing({"long", "no"}) /\ Current.context # Nothing
    /\ Named(Current) # {}
    /\ Return("terminated")

\* No option has the flag, or an option that is not a bool was negated.
UnknownLongFlag ==
    /\ Arguing({"long", "no"})
    /\ \/ Named(Current) = {}
       \/ /\ Current.form = "no" /\ Current.context = Nothing
          /\ \A i \in Named(Current) : OptionTable[i].kind # "bool"
    /\ Return("refused")

\* Mutant: the value of a short flag is read again, as an argument.
Mut_ProcessShortFlag(i) ==
    /\ Arguing({"short"})
    /\ i \in Lettered(Current)
    /\ SetOrThrow(i, Read(OptionTable[i], Following), 1)

\* The value of a short flag is the next argument, whatever that is.
ProcessShortFlag(i) ==
    /\ Arguing({"short"})
    /\ i \in Lettered(Current)
    /\ SetOrThrow(i, Read(OptionTable[i], Following), 2)

UnknownShortFlag == Arguing({"short"}) /\ Lettered(Current) = {} /\ Return("refused")

UnknownArgument == Arguing({"word"}) /\ Return("refused")

ShowHelp == Arguing({"help"}) /\ Return("refused")

ShowHidden == Arguing({"hidden"}) /\ next' = next + 1 /\ UNCHANGED <<arguments, values, pc>>

ProcessedAll == pc = "flags" /\ next > Len(arguments) /\ Return("construct")
-----------------------------------------------------------------------------
Index(long) == CHOOSE i \in DOMAIN OptionTable : OptionTable[i].long = long

Setting(long) == Get(Index(long))

HasMoveTime == Setting("movetime") # -1

\* The constructor of the tournament: it throws when movetime was not given.
Construct ==
    /\ pc = "construct"
    /\ Return(IF HasMoveTime THEN "tournament" ELSE "terminated")

Stopped == pc \in {"refused", "terminated", "tournament"} /\ UNCHANGED vars

Init ==
    /\ \E k \in 0 .. MaxArguments : arguments \in [1 .. k -> Argument]
    /\ next = 1
    /\ values = [i \in {} |-> 0]
    /\ pc = "flags"

Next ==
    \/ \E i \in DOMAIN OptionTable : ProcessLongFlag(i)
    \/ \E i \in DOMAIN OptionTable : ProcessShortFlag(i)
    \/ UnknownContext
    \/ UnknownLongFlag
    \/ UnknownShortFlag
    \/ UnknownArgument
    \/ ShowHelp
    \/ ShowHidden
    \/ ProcessedAll
    \/ Construct
    \/ Stopped

Spec == Init /\ [][Next]_vars
-----------------------------------------------------------------------------
\* What was set is an option's and within its range, after every prefix of every
\* command line, and the parser does not read past the end of it.
TypeOK ==
    /\ arguments \in Seq(Argument)
    /\ next \in 1 .. Len(arguments) + 1
    /\ DOMAIN values \subseteq DOMAIN OptionTable
    /\ \A i \in DOMAIN OptionTable : Get(i) \in Values(OptionTable[i])
    /\ pc \in {"flags", "refused", "terminated", "construct", "tournament"}

\* The arguments that are values: each follows a short flag that is not one.
IsValue[i \in Nat] == i > 1 /\ arguments[i - 1].form = "short" /\ ~IsValue[i - 1]

\* What argument i says of an option, read on its own.
Says(i, o) ==
    LET arg == arguments[i]
    IN  IF arg.form = "short" /\ OptionTable[o].short = arg.name /\ i < Len(arguments)
          THEN Read(OptionTable[o], AsText(arguments[i + 1]))
        ELSE IF arg.form \in {"long", "no"} /\ OptionTable[o].long = arg.name
          THEN IF OptionTable[o].kind = "bool" THEN ReadBool(arg)
               ELSE IF arg.form = "long" THEN Read(OptionTable[o], arg.text)
               ELSE {}
        ELSE {}

\* Every option has the value of the last flag that names it among the arguments
\* read so far, or its default: values of short flags are taken for flags at no
\* place, nothing is skipped, and a flag changes no option but its own.
SettingsAreTheFlags ==
    \A o \in DOMAIN OptionTable :
        LET saying == {i \in 1 .. next - 1 : ~IsValue[i] /\ Says(i, o) # {}}
        IN  IF saying = {} THEN Get(o) = OptionTable[o].default
            ELSE \E i \in saying : Get(o) \in Says(i, o) /\ \A j \in saying : j <= i

\* A long flag in a context.
Foreign(i) == arguments[i].form \in {"long", "no"} /\ arguments[i].context # Nothing

\* The arguments that are no values and can be no flags either: nothing to set, no
\* value, or one the option cannot have.
Faulty ==
    {i \in 1 .. Len(arguments) :
        /\ ~IsValue[i] /\ arguments[i].form # "hidden"
        /\ Foreign(i) \/ \A o \in DOMAIN OptionTable : Says(i, o) = {}}

\* Some flag gives movetime, and the last that does gives a time.
TimeIsGiven ==
    LET given == {i \in 1 .. Len(arguments) : ~IsValue[i] /\ Says(i, Index("movetime")) # {}}
    IN  \E i \in given : -1 \notin Says(i, Index("movetime")) /\ \A j \in given : j <= i

\* Whether a tournament starts is decided by the command line read from left to
\* right.  The first argument that is neither a flag with its value nor the value of
\* a short flag ends the program, whatever follows; nothing else does but that no
\* movetime is given; and no tournament starts past either.
FlagsDecide ==
    /\ \A i \in Faulty : next <= i
    /\ pc = "refused" => next \in Faulty
    /\ pc = "terminated" => next \in Faulty \/ (Faulty = {} /\ ~TimeIsGiven)
    /\ pc = "tournament" => Faulty = {} /\ TimeIsGiven
=============================================================================
