------------------------------ MODULE Settings ------------------------------
(***************************************************************************)
(* How the service comes by its configuration: from a file                 *)
(* (debshrew/src/config.rs) or from the command line                       *)
(* (debshrew/src/main.rs), and what it refuses.                            *)
(*                                                                         *)
(* A text is known by what validation tells apart: "" is empty, "text" is  *)
(* neither a URL nor a path that exists, a URL is "url", and of paths      *)
(* "module" and "junk" are files that exist (the second no WebAssembly),   *)
(* "file" lies in a directory that exists, "bare" has no directory part.   *)
(***************************************************************************)
EXTENDS Integers

CONSTANTS
  Absent,      \* an option or a field that is not given
  Unreadable   \* a file that cannot be read, or does not parse

SinkType == {"kafka", "postgres", "file", "console"}

\* target: bootstrap servers, connection string or path.
Sink == [type : SinkType, target : STRING, batch : Nat, append : BOOLEAN]

Config == [url : STRING, timeout : Nat, transform : STRING, sink : Sink,
           cache : Nat, start : Nat]

Or(value, default) == IF value = Absent THEN default ELSE value

\* A sink with a target, and what its file says or leaves to the defaults.
MadeSink(type, target, file) ==
  [type |-> type, target |-> target, batch |-> Or(file.batch, 100),
   append |-> Or(file.append, TRUE)]

Console == [type |-> "console", target |-> "", batch |-> 100, append |-> TRUE]

\* Config::from_str: serde fills in what has a default and refuses the rest.
FromFile(file) ==
  IF \/ file = Unreadable
     \/ Absent \in {file.url, file.transform}
     \/ file.sink.type \notin SinkType
     \/ file.sink.type # "console" /\ file.sink.target = Absent
  THEN {}
  ELSE {[url |-> file.url, timeout |-> Or(file.timeout, 30),
         transform |-> file.transform,
         sink |-> IF file.sink.type = "console" THEN Console
                  ELSE MadeSink(file.sink.type, file.sink.target, file.sink),
         cache |-> Or(file.cache, 6), start |-> Or(file.start, 0)]}

\* The defaults of main, for a target the sink's own file does not give.
DefaultTarget == [kafka |-> "text", postgres |-> "", file |-> "bare"]

\* --sink-type and --sink-config: only the console needs no file.
SinkFromArguments(type, file) ==
  CASE type = Absent                                    -> {Console}
    [] type = "console" /\ file # Unreadable            -> {Console}
    [] type \in DOMAIN DefaultTarget
         /\ file \notin {Absent, Unreadable}            ->
           {MadeSink(type, Or(file.target, DefaultTarget[type]), file)}
    [] OTHER                                            -> {}

FromArguments(args) ==
  IF Absent \in {args.url, args.transform} THEN {}
  ELSE {[url |-> args.url, timeout |-> 30, transform |-> args.transform,
         sink |-> sink, cache |-> Or(args.cache, 6), start |-> Or(args.start, 0)] :
          sink \in SinkFromArguments(args.sinkType, args.sinkFile)}

\* The configuration of a command line, or none: a file overrides every option.
Loaded(args) ==
  IF args.config # Absent THEN FromFile(args.config) ELSE FromArguments(args)

-----------------------------------------------------------------------------
\* A slip the runs must notice: the batch size goes unchecked.
ValidSinkOfAnyBatch(sink) ==
  /\ sink.type # "console" => sink.target # ""
  /\ sink.type = "file" => sink.target = "file"

\* SinkConfig::validate.  The parent of a bare file name is "", which exists
\* nowhere: it is refused like a directory that does not exist.
ValidSink(sink) ==
  /\ sink.type # "console" => sink.target # ""
  /\ sink.type \in {"kafka", "postgres"} => sink.batch > 0
  /\ sink.type = "file" => sink.target = "file"

\* Config::validate.
Valid(config) ==
  /\ config.url = "url"
  /\ config.timeout > 0
  /\ config.transform \in {"module", "junk"}
  /\ ValidSink(config.sink)
  /\ config.cache > 0

=============================================================================
