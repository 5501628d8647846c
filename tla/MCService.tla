----------------------------- MODULE MCService -----------------------------
EXTENDS Service

\* Command lines: the options and the files they name.
CommandLine(sinkType, sinkFile) ==
  [config |-> Absent, url |-> "url", transform |-> "module", sinkType |-> sinkType,
   sinkFile |-> sinkFile, cache |-> Absent, start |-> Absent]

SinkFile(target, batch, append) == [target |-> target, batch |-> batch, append |-> append]

ConfigFile(transform, sink, start) ==
  [CommandLine(Absent, Absent) EXCEPT !.config =
     [url |-> "url", timeout |-> Absent, transform |-> transform, sink |-> sink,
      cache |-> Absent, start |-> start]]

FileSink(append) == [type |-> "file", target |-> "file", batch |-> Absent, append |-> append]

MCLaunches ==
  { CommandLine("kafka", SinkFile(Absent, Absent, Absent)),
    CommandLine("kafka", SinkFile("text", 0, Absent)),
    CommandLine("console", Absent),
    CommandLine("file", SinkFile(Absent, Absent, Absent)),
    CommandLine("file", Unreadable),
    CommandLine("file", SinkFile("file", Absent, Absent)),
    CommandLine("postgres", SinkFile("text", 3, Absent)),
    ConfigFile("module", FileSink(FALSE), Absent),
    ConfigFile("junk", FileSink(FALSE), Absent),
    ConfigFile("module", [FileSink(Absent) EXCEPT !.type = "kafka", !.target = "text"], 1),
    ConfigFile(Absent, FileSink(Absent), Absent),
    [CommandLine("console", Absent) EXCEPT !.url = "text"],
    [CommandLine("console", Absent) EXCEPT !.cache = 0],
    [CommandLine("stdout", Absent) EXCEPT !.transform = Absent],
    [CommandLine("postgres", SinkFile(Absent, Absent, Absent)) EXCEPT !.start = 1] }
=============================================================================
