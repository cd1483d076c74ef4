------------------------------ MODULE MCOptions ------------------------------
(***************************************************************************)
(* Three arguments: flags of every type with values in, at the end of and  *)
(* out of their range, flags that need a value and may have none, and what *)
(* is no flag.                                                             *)
(***************************************************************************)
EXTENDS Options

Arg(form, name, text) == [form |-> form, name |-> name, context |-> Nothing, text |-> text]

Long(name, tenths) == Arg("long", name, Number(tenths))

MCArgument ==
    {Long("threads", 40), Long("threads", 90), Long("games", 5), Long("games", -10),
     Long("games", -20), Long("movetime", 1000), Long("movetime", -10), Long("movetime", -5),
     Long("parallelism", 0), Long("minibatch-size", 10), Long("cpuct", 5), Long("cpuct", -5),
     Arg("long", "threads", Word("many")),
     Arg("long", "backend", Word("random")), Arg("long", "backend", Word("cuda")),
     Arg("long", "training", Word(Nothing)), Arg("long", "training", Word("false")),
     Arg("long", "training", Word("yes")), Arg("no", "training", Word(Nothing)),
     Arg("no", "games", Word(Nothing)), Arg("long", "config", Word("lc0.config")),
     [Long("threads", 20) EXCEPT !.context = "p1"],
     Arg("short", "t", Word("-t")), Arg("short", "b", Word("-b")),
     Arg("short", "1", Number(-10)),
     Arg("word", Nothing, Number(20)), Arg("word", Nothing, Word("random")),
     Arg("help", Nothing, Word(Nothing)), Arg("hidden", Nothing, Word(Nothing))}
=============================================================================
