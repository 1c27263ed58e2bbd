---- MODULE Logging ----
(***************************************************************************)
(* The log (logging.cc, logging.h): threads of the program log messages,   *)
(* without a lock, to syslog, to a file through one std::ofstream, and to  *)
(* std::clog. localtime hands every thread the same structure; the stream's*)
(* buffer and its put pointer are shared, too. A message is a sequence of  *)
(* tokens, as the format is: "%" and a letter are the ones that matter.    *)
(***************************************************************************)
EXTENDS Integers, SequencesExt

CONSTANTS
    Threads,    \* the names of the threads, as get_id prints them
    Writable,   \* the files that can be opened for writing
    MaxTime,    \* bound on time(nullptr)
    MaxBuffered \* bound on the strings in the stream's buffer

ASSUME LoggingAssumption == MaxTime \in Nat \ {0} /\ MaxBuffered \in Nat

\* The values of Logging::Level.
Level == [INVALID |-> 0, ERROR |-> 1, INFO |-> 2, DEBUG |-> 3]
kLevelNameMap == <<"ERROR", "INFO", "DEBUG">>

VARIABLES
    logging,    \* the options of the logger; before init_logging it has none
    clock,      \* what time(nullptr) returns,
    tm,         \* and the structure localtime returns, in two fields
    thread,     \* what each thread is doing in ~Logger
    buffered,   \* the log file's stream: its buffer,
    pptr,       \* how much of that is to be written,
    file,       \* and what has been written;
    syslog,     \* the entries in the syslog,
    console,    \* and the strings on the terminal that stderr is
    attached,   \* connected to or not
    history     \* what each thread has logged, or tried to

output == <<file, syslog, console, attached>>
loggingVars == <<logging, clock, tm, thread, buffered, pptr, output, history>>

NoLogging == [max_level |-> Level.INVALID, log_format |-> <<>>,
              to_stderr |-> FALSE, to_syslog |-> FALSE, to_file |-> FALSE]

Idle == [pc |-> "idle"]
Busy(t) == thread[t] /= Idle

\* A string that a thread puts out for its message, and the end of the line.
Text(t, message, text) == [by |-> t, message |-> message, text |-> text]
EndOfLine(t, message) == Text(t, message, <<"\n">>)

\* What the buffer holds where nothing has been put.
Garbage == Text("nobody", [level |-> Level.INVALID, text |-> <<>>], <<"garbage">>)

LoggingInit ==
    /\ logging = NoLogging
    /\ clock = 1
    /\ tm = <<0, 0>>
    /\ thread = [t \in Threads |-> Idle]
    /\ buffered = [i \in 1..MaxBuffered |-> Garbage]
    /\ pptr = 0
    /\ file = <<>>
    /\ syslog = <<>>
    /\ console = <<>>
    /\ attached = TRUE
    /\ history = [t \in Threads |-> <<>>]

Tick ==
    /\ clock < MaxTime
    /\ clock' = clock + 1
    /\ UNCHANGED <<logging, tm, thread, buffered, pptr, output, history>>

\* The fields of a time, and what strftime makes of them.
Broken(time) == <<time \div 2, time % 2>>
Formatted(fields) == ToString(fields)

\* Every key is two tokens long.
KeyAt(src, i, subs) == i < Len(src) /\ SubSeq(src, i, i + 1) \in DOMAIN subs

\* Seeded fault: the keys are replaced in the whole string, one after the other.
SubstituteInTurn(src, subs) ==
    LET Replaced(s, key) ==
            FlattenSeq([i \in 1..Len(s) |->
                CASE i < Len(s) /\ SubSeq(s, i, i + 1) = key -> subs[key]
                  [] i > 1 /\ SubSeq(s, i - 1, i) = key -> <<>>
                  [] OTHER -> <<s[i]>>])
    IN  FoldLeft(Replaced, src, <<<<"%", "M">>, <<"%", "T">>, <<"%", "I">>, <<"%", "L">>>>)

multi_substitute(src, subs) ==
    LET rest[i \in 1..Len(src) + 1] ==
            IF i > Len(src) THEN <<>>
            ELSE IF KeyAt(src, i, subs) THEN subs[SubSeq(src, i, i + 1)] \o rest[i + 2]
            ELSE <<src[i]>> \o rest[i + 1]
    IN  rest[1]

Substitutes(t, message, time) ==
    [key \in {"%"} \X {"T", "I", "L", "M"} |->
        CASE key[2] = "T" -> <<time>>
          [] key[2] = "I" -> <<t>>
          [] key[2] = "L" -> <<kLevelNameMap[message.level]>>
          [] key[2] = "M" -> message.text]

\* What comes after the time, the syslog and the file.
AfterFile == IF logging.to_stderr THEN "clog" ELSE "idle"
AfterSyslog == IF logging.to_file THEN "insert" ELSE AfterFile
AfterTime == IF logging.to_syslog THEN "syslog" ELSE AfterSyslog

At(t, pc) == thread[t].pc = pc

\* Thread t goes on at pc; its message is done when there is nothing to go on with.
GoOn(t, pc) ==
    IF pc = "idle"
    THEN /\ thread' = [thread EXCEPT ![t] = Idle]
         /\ history' = [history EXCEPT ![t] = Append(@, thread[t].message)]
    ELSE /\ thread' = [thread EXCEPT ![t].pc = pc]
         /\ UNCHANGED history

\* Thread t logs a message: ~Logger drops it or asks for the time. alone and
\* begun remember whether other threads log meanwhile, and the file's length.
Log(t, message) ==
    /\ ~Busy(t)
    /\ IF message.level > logging.max_level
       THEN /\ history' = [history EXCEPT ![t] = Append(@, message)]
            /\ UNCHANGED thread
       ELSE /\ thread' = [u \in Threads |->
                IF u = t
                THEN [pc |-> "localtime", message |-> message, now |-> clock, text |-> <<>>,
                      at |-> 0, begun |-> Len(file),
                      alone |-> \A v \in Threads : ~Busy(v)]
                ELSE IF Busy(u) THEN [thread[u] EXCEPT !.alone = FALSE] ELSE Idle]
            /\ UNCHANGED history
    /\ UNCHANGED <<logging, clock, tm, buffered, pptr, output>>

\* localtime fills in its structure, one field after the other.
LocalTime(t) ==
    /\ Busy(t)
    /\ \/ /\ At(t, "localtime")
          /\ tm' = [tm EXCEPT ![1] = Broken(thread[t].now)[1]]
          /\ GoOn(t, "localtime2")
       \/ /\ At(t, "localtime2")
          /\ tm' = [tm EXCEPT ![2] = Broken(thread[t].now)[2]]
          /\ GoOn(t, "strftime")
    /\ UNCHANGED <<logging, clock, buffered, pptr, output>>

\* strftime reads that structure, and msg is put together.
StrFTime(t) ==
    /\ Busy(t) /\ At(t, "strftime")
    /\ LET msg == multi_substitute(logging.log_format,
                      Substitutes(t, thread[t].message, Formatted(tm)))
       IN  IF AfterTime = "idle" THEN GoOn(t, "idle")
           ELSE /\ thread' = [thread EXCEPT ![t].pc = AfterTime, ![t].text = msg]
                /\ UNCHANGED history
    /\ UNCHANGED <<logging, clock, tm, buffered, pptr, output>>

MyText(t) == Text(t, thread[t].message, thread[t].text)
MyEndOfLine(t) == EndOfLine(t, thread[t].message)

\* The syslog takes one entry at a time.
Syslog(t) ==
    /\ Busy(t) /\ At(t, "syslog")
    /\ syslog' = Append(syslog, MyText(t))
    /\ GoOn(t, AfterSyslog)
    /\ UNCHANGED <<logging, clock, tm, buffered, pptr, file, console, attached>>

\* A string put into the buffer where the put pointer is.
Buffered(string) == [buffered EXCEPT ![pptr + 1] = string]

\* logfile_ << msg: the text is copied to the put pointer,
FileInsert(t) ==
    /\ Busy(t) /\ At(t, "insert")
    /\ pptr < MaxBuffered
    /\ buffered' = Buffered(MyText(t))
    /\ thread' = [thread EXCEPT ![t].pc = "bump", ![t].at = pptr]
    /\ UNCHANGED <<logging, clock, tm, pptr, output, history>>

\* which is then moved, from where it is or where it was.
FileBump(t) ==
    /\ Busy(t) /\ At(t, "bump")
    /\ pptr' \in {x + 1 : x \in {pptr, thread[t].at}}
    /\ pptr' <= MaxBuffered
    /\ GoOn(t, "newline")
    /\ UNCHANGED <<logging, clock, tm, buffered, output>>

\* << std::endl: a newline,
FileNewline(t) ==
    /\ Busy(t) /\ At(t, "newline")
    /\ pptr < MaxBuffered
    /\ buffered' = Buffered(MyEndOfLine(t))
    /\ pptr' = pptr + 1
    /\ GoOn(t, "flush")
    /\ UNCHANGED <<logging, clock, tm, output>>

\* and a flush, which writes what is in the buffer
FileFlush(t) ==
    /\ Busy(t) /\ At(t, "flush")
    /\ file' = file \o SubSeq(buffered, 1, pptr)
    /\ GoOn(t, "reset")
    /\ UNCHANGED <<logging, clock, tm, buffered, pptr, syslog, console, attached>>

\* Seeded fault: the buffer is written and not emptied.
FileResetNothing(t) ==
    /\ Busy(t) /\ At(t, "reset")
    /\ GoOn(t, AfterFile)
    /\ UNCHANGED <<logging, clock, tm, buffered, pptr, output>>

\* and then has it empty.
FileReset(t) ==
    /\ Busy(t) /\ At(t, "reset")
    /\ pptr' = 0
    /\ GoOn(t, AfterFile)
    /\ UNCHANGED <<logging, clock, tm, buffered, output>>

Shown(string) == IF attached THEN Append(console, string) ELSE console

\* std::clog << msg, which is not buffered, << std::endl.
Clog(t) ==
    /\ Busy(t)
    /\ \/ At(t, "clog") /\ console' = Shown(MyText(t)) /\ GoOn(t, "endl")
       \/ At(t, "endl") /\ console' = Shown(MyEndOfLine(t)) /\ GoOn(t, "idle")
    /\ UNCHANGED <<logging, clock, tm, buffered, pptr, file, syslog, attached>>

LogStep(t) ==
    \/ LocalTime(t) \/ StrFTime(t) \/ Syslog(t)
    \/ FileInsert(t) \/ FileBump(t) \/ FileNewline(t) \/ FileFlush(t) \/ FileReset(t)
    \/ Clog(t)

string_to_level(level) ==
    IF level \in ToSet(kLevelNameMap) THEN Level[level] ELSE Level.INVALID

\* init_logging returns false for a level it does not know and for a file that
\* cannot be opened.
InitLoggingFails(logfile, max_level) ==
    \/ max_level = Level.INVALID
    \/ logfile /= "" /\ logfile \notin Writable

init_logging(logfile, max_level, log_format, to_stderr, to_syslog) ==
    /\ ~InitLoggingFails(logfile, max_level)
    /\ logging' = [max_level |-> max_level, log_format |-> log_format,
                   to_stderr |-> to_stderr, to_syslog |-> to_syslog,
                   to_file |-> logfile /= ""]
    /\ UNCHANGED <<clock, tm, thread, buffered, pptr, output, history>>

-----------------------------------------------------------------------------

\* What src is with its keys replaced, by the keys' places in it.
Substituted(src, subs) ==
    FlattenSeq([i \in 1..Len(src) |->
        CASE KeyAt(src, i, subs) -> subs[SubSeq(src, i, i + 1)]
          [] i > 1 /\ KeyAt(src, i - 1, subs) -> <<>>
          [] OTHER -> <<src[i]>>])

Entry(t, message, fields) ==
    Text(t, message,
         Substituted(logging.log_format, Substitutes(t, message, Formatted(fields))))

\* The elements of a sequence at these places, in order.
Chosen(sequence, places) ==
    [i \in 1..Cardinality(places) |->
        sequence[CHOOSE p \in places : Cardinality({q \in places : q <= p}) = i]]

Of(t, sequence) == Chosen(sequence, {i \in DOMAIN sequence : sequence[i].by = t})
Wanted(t) ==
    Chosen(history[t], {i \in DOMAIN history[t] : history[t][i].level <= logging.max_level})
AnyFields == {<<f, g>> : f \in 0..MaxTime, g \in 0..1}

\* Whatever the threads do at the same time, the syslog has for each of them the
\* messages of the levels asked for, no others, in the order it logged them, each
\* in the form that the format asks for, with the message as it was, also where
\* that looks like a key (logging.cc:39-58, 76-98). Only the time may be another
\* thread's.
SyslogIsFaithful ==
    logging.to_syslog =>
        \A t \in Threads : ~Busy(t) =>
            LET got == Of(t, syslog)
            IN  /\ Len(got) = Len(Wanted(t))
                /\ \A i \in 1..Len(got) :
                    \E fields \in AnyFields : got[i] = Entry(t, Wanted(t)[i], fields)

\* The last strings of a sequence are a whole line with this entry.
EndsWithLine(sequence, entry) ==
    /\ Len(sequence) >= 2
    /\ sequence[Len(sequence) - 1] = entry
    /\ Last(sequence) = EndOfLine(entry.by, entry.message)

\* An entry that no other thread logs at the same time as is right, with the time
\* of its message, a line of its own, all that is added to the file and the last
\* on the terminal: what threads have done to the shared time and the stream's
\* buffer before does not last (logging.cc:81-104).
LoneEntryIsRight ==
    [][\A t \in Threads :
        Busy(t) /\ thread[t].alone /\ thread'[t] = Idle =>
            LET entry == Entry(t, thread[t].message, Broken(thread[t].now))
            IN  /\ logging.to_file =>
                    Len(file') = thread[t].begun + 2 /\ EndsWithLine(file', entry)
                /\ logging.to_stderr /\ attached => EndsWithLine(console', entry)
                /\ logging.to_syslog => Last(syslog') = entry
      ]_loggingVars
====
