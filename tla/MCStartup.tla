---- MODULE MCStartup ----
(***************************************************************************)
(* An instance of Startup: command lines with each option before and after *)
(* the directories, twice, or with a value that must be refused; and some  *)
(* that open every sink of the log, for two handlers that race.            *)
(***************************************************************************)
EXTENDS Startup

Arg_(opt, value) == [opt |-> opt, value |-> value]
Plain(path) == Arg_("plain", path)
Debug == Arg_("debug", "-d")
Stderr == Arg_("log_stderr", 1)
ToSyslog == Arg_("log_syslog", 1)
MaxLevel(level) == Arg_("log_maxlevel", level)
LogFile(path) == Arg_("logfile", path)
Format(tokens) == Arg_("log_format", tokens)
Quality(n) == Arg_("quality", n)

Mount == <<Plain("/music"), Plain("/mnt")>>

Harmless ==
    {Quality(9), Quality(0), Arg_("bitrate", 320), Arg_("vbr", 1), Arg_("other", "-f"),
     MaxLevel("ERROR"), MaxLevel("DEBUG"), Debug, Stderr}

Fatal ==
    {Quality(10), Quality(-1), Arg_("desttype", "ogg"), MaxLevel("LOUD"), LogFile("/"),
     Arg_("malformed", "bitrate=fast"), Arg_("help", "-h"), Arg_("version", "-V")}

Orders == {<<a>> \o Mount \o <<b>> : a, b \in Harmless}
Refusals == {<<a>> \o Mount : a \in Fatal} \cup {Mount \o <<a>> : a \in Fatal}
Directory ==
    {<<>>, <<Plain("/music")>>, <<Plain("music"), Plain("/mnt")>>,
     <<Plain("/music"), Plain("/mnt"), Plain("extra")>>}

Tricky == Format(<<"%", "%", "T", "[", "%", "M", "]", "%">>)

FileAlone == Mount \o <<LogFile("/log")>>
TwoSinks == Mount \o <<Debug, ToSyslog, Tricky>>
EverySink == TwoSinks \o <<LogFile("/log")>>
Racing == {FileAlone, TwoSinks, EverySink, Mount \o <<Stderr, ToSyslog, MaxLevel("ERROR")>>}

\* Three entries are two that race and one after them; where no sink is open the
\* handlers are silent.
MCMaxEntries(list) ==
    CASE list = FileAlone -> 3
      [] list = TwoSinks -> 2
      [] OTHER -> IF {Debug, Stderr} \cap Range(list) = {} THEN 0 ELSE 1

MCArgLists == Orders \cup Refusals \cup Directory \cup Racing

MCMessages ==
    {[level |-> Level.ERROR, text |-> <<"no", "%", "T">>],
     [level |-> Level.DEBUG, text |-> <<"%", "M">>]}
====
