---- MODULE Startup ----
(***************************************************************************)
(* The program from main to the threads of fuse_main (mp3fs.cc): libfuse   *)
(* parses the arguments one by one with mp3fs_opts and mp3fs_opt_proc,     *)
(* main opens the log and refuses what it cannot mount, tells the log what *)
(* it is about to do, and hands the rest of the arguments to fuse_main,    *)
(* which leaves the terminal unless -d or -f is there. Then the handlers   *)
(* log as they please.                                                     *)
(***************************************************************************)
EXTENDS Logging

CONSTANTS
    ArgLists,       \* the command lines, without the program's name
    Main,           \* the thread that main runs in
    Messages,       \* what the handlers log
    MaxEntries(_),  \* bound on how many of them, with a command line
    Directories,    \* the paths that are directories
    kQualityMax     \* the highest quality, 9

Options ==
    {"bitrate", "debug", "desttype", "gainmode", "gainref", "log_format", "log_maxlevel",
     "log_stderr", "log_syslog", "logfile", "quality", "statcachesize", "vbr"}

NoPath == "nullptr"

\* An argument is a record of the option it sets, by its name in params, and its
\* value; opt is "plain" for no option, "other" for one that is not in mp3fs_opts,
\* "malformed" for one whose value is no number where one is needed.
ArgumentOK(arg) ==
    /\ arg.opt \in Options \cup {"plain", "other", "malformed", "help", "version"}
    /\ arg.opt = "plain" => arg.value /= NoPath
    /\ arg.opt = "quality" => arg.value \in Int
    /\ arg.opt \in {"log_stderr", "log_syslog"} => arg.value = 1
    /\ arg.opt = "log_format" => arg.value \in Seq(ToSet(arg.value))

ASSUME StartupAssumption ==
    /\ Main \in Threads
    /\ kQualityMax \in Nat
    /\ \A list \in ArgLists :
        /\ list \in Seq(ToSet(list))
        /\ \A i \in DOMAIN list : ArgumentOK(list[i])
    /\ \A message \in Messages :
        /\ message.level \in 1..Len(kLevelNameMap)
        /\ message.text \in Seq(ToSet(message.text))

VARIABLES
    args,       \* the command line,
    taken,      \* how much of it has been parsed,
    outargs,    \* and what of it is left for fuse_main
    params,     \* the options
    phase,      \* "parsing", "checking", "announcing", "serving" or "exited"
    status      \* the program's exit status

startVars == <<args, taken, outargs, params, phase, status>>
vars == <<loggingVars, startVars>>

Defaults ==
    [basepath |-> NoPath, bitrate |-> 128, debug |-> 0, desttype |-> "mp3",
     gainmode |-> 1, gainref |-> 89, log_format |-> <<"%", "T", "%", "I", "%", "L", "%", "M">>,
     log_maxlevel |-> "INFO", log_stderr |-> 0, log_syslog |-> 0, logfile |-> "",
     quality |-> 5, statcachesize |-> 0, vbr |-> 0]

Init ==
    /\ LoggingInit
    /\ args \in ArgLists
    /\ taken = 0
    /\ outargs = <<>>
    /\ params = Defaults
    /\ phase = "parsing"
    /\ status = 0

Exit(code) ==
    /\ phase' = "exited"
    /\ status' = code

\* The argument fuse_opt_parse is at, and what may become of it: it is dropped,
\* or kept for fuse_main.
Parse(opt) ==
    /\ phase = "parsing"
    /\ taken < Len(args)
    /\ args[taken + 1].opt = opt
    /\ taken' = taken + 1
    /\ UNCHANGED <<loggingVars, args>>

Arg == args[taken + 1]
Drop == UNCHANGED <<outargs, phase, status>>
Keep == outargs' = Append(outargs, Arg) /\ UNCHANGED <<phase, status>>

\* mp3fs_opts: an option with a value, the last one wins, and a flag.
SetOption ==
    \E opt \in Options \ {"debug"} :
        /\ Parse(opt)
        /\ params' = [params EXCEPT ![opt] = Arg.value]
        /\ Drop

\* Seeded fault: the flag is in mp3fs_opts once, and fuse_main does not see it.
TakeDebugAway ==
    /\ Parse("debug")
    /\ params' = [params EXCEPT !.debug = 1]
    /\ Drop

\* debug is in mp3fs_opts twice: it is set and kept.
TakeDebug ==
    /\ Parse("debug")
    /\ params' = [params EXCEPT !.debug = 1]
    /\ Keep

\* The first plain argument is the directory with the music.
TakePlain ==
    /\ Parse("plain")
    /\ IF params.basepath = NoPath
       THEN params' = [params EXCEPT !.basepath = Arg.value] /\ Drop
       ELSE Keep /\ UNCHANGED params

\* What mp3fs_opt_proc does not know is for fuse_main.
TakeOther ==
    /\ Parse("other")
    /\ Keep
    /\ UNCHANGED params

\* fuse_opt_parse fails, and main returns 1; --help exits with 1, too, after
\* fuse_main has printed its part, and --version with 0.
TakeMalformed ==
    /\ Parse("malformed")
    /\ Exit(1)
    /\ UNCHANGED <<outargs, params>>

TakeHelp ==
    /\ Parse("help")
    /\ outargs' = Append(outargs, [opt |-> "help", value |-> "-ho"])
    /\ Exit(1)
    /\ UNCHANGED params

TakeVersion ==
    /\ Parse("version")
    /\ Exit(0)
    /\ UNCHANGED <<outargs, params>>

\* debug overrides two options of the log.
WithDebug(p) ==
    IF p.debug = 0 THEN p
    ELSE [p EXCEPT !.log_stderr = 1, !.log_maxlevel = "DEBUG"]

\* main opens the log when all arguments have been parsed.
StartLogging ==
    /\ phase = "parsing"
    /\ taken = Len(args)
    /\ params' = WithDebug(params)
    /\ LET level == string_to_level(params'.log_maxlevel)
       IN  IF InitLoggingFails(params.logfile, level)
           THEN Exit(1) /\ UNCHANGED loggingVars
           ELSE /\ init_logging(params.logfile, level, params.log_format,
                                params'.log_stderr /= 0, params.log_syslog /= 0)
                /\ phase' = "checking"
                /\ UNCHANGED status
    /\ UNCHANGED <<args, taken, outargs>>

CreateEncoder(file_type) == file_type = "mp3"

\* Seeded fault: only one end of the range of the quality is checked.
RefusedHighQuality ==
    \/ params.basepath \notin Directories
    \/ params.quality > kQualityMax
    \/ ~CreateEncoder(params.desttype)

\* What main refuses: no directory, a quality out of range, a type without encoder.
\* Directories holds absolute paths only.
Refused ==
    \/ params.basepath \notin Directories
    \/ params.quality > kQualityMax \/ params.quality < 0
    \/ ~CreateEncoder(params.desttype)

CheckOptions ==
    /\ phase = "checking"
    /\ IF Refused THEN Exit(1) ELSE phase' = "announcing" /\ UNCHANGED status
    /\ UNCHANGED <<loggingVars, args, taken, outargs, params>>

\* main logs three messages: the encoder it makes to see that there is one logs
\* that LAME is there, and then come the versions and the options.
Announcements == <<"LAME", "versions", "options">>
Announcement(what) == [level |-> Level.DEBUG, text |-> <<what>>]

Announce ==
    /\ phase = "announcing"
    /\ \E i \in DOMAIN Announcements :
        /\ Len(history[Main]) = i - 1
        /\ Log(Main, Announcement(Announcements[i]))
    /\ UNCHANGED startVars

\* fuse_main needs a mount point, and leaves the terminal unless -d or -f is there.
fuse_main ==
    /\ phase = "announcing"
    /\ Len(history[Main]) = Len(Announcements)
    /\ LET opts == {outargs[i].opt : i \in DOMAIN outargs}
           values == {outargs[i].value : i \in DOMAIN outargs}
       IN  IF "plain" \in opts
           THEN /\ phase' = "serving"
                /\ attached' = ("debug" \in opts \/ "-f" \in values)
                /\ UNCHANGED status
           ELSE Exit(1) /\ UNCHANGED attached
    /\ UNCHANGED <<logging, clock, tm, thread, buffered, pptr, file, syslog, console,
                   history, args, taken, outargs, params>>

Handlers == Threads \ {Main}

Entries == SumFunctionOnSet([t \in Threads |-> Len(history[t])], Handlers)

\* A handler logs a message.
HandlerLogs ==
    /\ phase = "serving"
    /\ \E t \in Handlers, message \in Messages :
        /\ Entries + Cardinality({u \in Handlers : Busy(u)}) < MaxEntries(args)
        /\ Log(t, message)
    /\ UNCHANGED startVars

LogOn == (\E t \in Threads : LogStep(t)) /\ UNCHANGED startVars

TimePasses == phase = "serving" /\ Tick /\ UNCHANGED startVars

Next ==
    \/ SetOption \/ TakeDebug \/ TakePlain \/ TakeOther
    \/ TakeMalformed \/ TakeHelp \/ TakeVersion
    \/ StartLogging \/ CheckOptions \/ Announce \/ fuse_main
    \/ HandlerLogs \/ LogOn \/ TimePasses

Spec == Init /\ [][Next]_vars

-----------------------------------------------------------------------------

\* The places of the arguments with these options, and the last value given.
Places(opts) == {i \in DOMAIN args : args[i].opt \in opts}

Asked(opt) ==
    IF Places({opt}) = {} THEN Defaults[opt] ELSE args[Max(Places({opt}))].value

Debugging == Places({"debug"}) /= {}

\* What is mounted is what the command line asks for, in whatever order: each
\* option has the last value given, but debug wins over the options of the log;
\* the first plain argument is a directory; the quality can be encoded with; and
\* fuse_main gets all the rest, in order (mp3fs.cc:66-100, 174-200, 237-289).
MountedAsAsked ==
    phase = "serving" =>
        /\ \A opt \in Options \ {"debug", "log_stderr", "log_maxlevel"} :
            params[opt] = Asked(opt)
        /\ logging.max_level =
            IF Debugging THEN Level.DEBUG ELSE Level[Asked("log_maxlevel")]
        /\ logging.to_stderr = (Debugging \/ Asked("log_stderr") = 1)
        /\ logging.to_file = (Asked("logfile") /= "")
        /\ params.basepath = args[Min(Places({"plain"}))].value
        /\ params.basepath \in Directories
        /\ params.quality \in 0..kQualityMax
        /\ LET rest == Places({"plain", "debug", "other"}) \ {Min(Places({"plain"}))}
           IN  outargs = Chosen(args, rest)

\* In debug mode everything that is logged from start to end is shown on the
\* terminal, whatever the options of the log say and wherever they are on the
\* command line: main opens the log so, and fuse_main, which gets the flag as
\* well, leaves stderr where it is (mp3fs.cc:69-70, 98-99, 237-240; "always set to
\* DEBUG in debug mode", "Enabled in debug mode", mp3fs.cc:131-136).
DebugShowsEverything ==
    Debugging =>
        \A t \in Threads : ~Busy(t) =>
            LET strings == Of(t, console)
            IN  /\ Len(strings) = 2 * Len(history[t])
                /\ \A i \in DOMAIN history[t] :
                    /\ strings[2 * i - 1].message = history[t][i]
                    /\ strings[2 * i] = EndOfLine(t, history[t][i])
====
