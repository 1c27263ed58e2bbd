# A TLA+ model of mp3fs

mp3fs is a FUSE file system that shows a directory of FLAC and Ogg Vorbis files
as MP3 files and transcodes them while they are read. This directory holds TLA+
modules that model its core, configurations that TLC checks, and theorems that
TLAPS proves. Source paths below are relative to `src/` in the repository.

## Inventory

| Component | State | Operations | Made hard by |
|---|---|---|---|
| `buffer.cc`, `buffer.h`: Buffer | a main segment growing from offset 0, an end segment at `end_offset_` | `write`, `write_to`, `write_end`, `extend`, `truncate`, `valid_bytes`, `max_valid_bytes`, `copy_into` | ranges over the border of the segments, the hole between them |
| `codecs/mp3_encoder.cc`: Mp3Encoder | LAME's and libid3tag's state, `id3size_` | `render_tag`, `calculate_size`, `encode_pcm_data`, `encode_finish`, `no_partial_encode`, the tag setters | the size is foreseen before anything is encoded |
| `codecs/flac_decoder.cc`, `codecs/vorbis_decoder.cc` | library state, mtime | `open_file`, `process_metadata`, `process_single_fr` | failures of several kinds, with different after-effects |
| `transcode.cc`: Transcoder | `buffer_`, `decoder_`, `encoder_`, `mutex_` | `open`, `read`, `finish` | several threads on one handle; errors in the middle of a loop; results kept after an error |
| `reader.h`: Reader, FileReader | a descriptor | `read` | |
| `stats_cache.cc`: StatsCache | a map from file names to (size, atime, mtime), a mutex | `get_filesize`, `put_filesize`, `prune`, `remove_entry` | `prune` works on a copy and drops the lock twice |
| `fuseops.cc` | the handle in `fi->fh` | `getattr`, `readlink`, `readdir`, `open`, `read`, `statfs`, `release` | runs in several threads while the source directory changes |
| `path.cc` | none | `normal_source`, `transcode_source` | ambiguous names |
| `codecs/picture.cc`, tag setters, `coders.cc` | a tag under construction | `set_text_tag`, `set_picture_tag`, `set_gain`, `Picture::decode` | order of the comments, lengths from the file |
| `mp3fs.cc`: options and start-up | `params` | the option table, `mp3fs_opt_proc`, `main` | options in any order, twice, one overriding others; what is kept for FUSE |
| `logging.cc`: Logging | the stream of the log file, `localtime`'s structure | `Log`, `~Logger`, `init_logging` | threads log without a lock |
| `lib/` | | base64, gnulib | third party |

How they interact: FUSE calls `fuseops.cc` in any of its threads. `open` makes a
Transcoder, whose `open()` has the decoder read the metadata and hand it to the
encoder, asks the one global stats cache for the size, and has the encoder render
the tags into the buffer. `read` takes the Transcoder's mutex, answers from the
buffer if it can, and otherwise has the decoder push frames through the encoder
into the buffer until it can. At the end of the stream `finish()` drops decoder
and encoder and puts the final size in the cache, which may prune itself. Before
all this `main` parses the options, opens the log and hands the rest of the command
line to `fuse_main`; every component logs.

What makes them correct:

* Buffer: it knows exactly which bytes are filled in, and no write disturbs them.
* Transcoder: reads return what one eager transcoding would give, whatever the
  order and overlap of the reads, or fail; the size is what `open` said; a read
  that has the mutex returns; nothing but bytes of the file is served.
* Encoder: tags and audio keep their places when the stream turns out shorter or
  longer than foreseen.
* Stats cache: it never goes back to the size of an older version, evicts in
  order of use, spares what is newer than its copy, and does not stay over its
  capacity.
* Names: each listed name leads to the entry it was made from, while others change
  the directory.
* Samples: LAME hears the source, channel by channel, and what it returns is as long
  as `calculate_size` says.
* Start-up and log: what is mounted is what the command line asks for; syslog and
  terminal get every message as it was; a race for the log file leaves no damage.
* Metadata: the result depends on the order of the comments only where it should,
  and damaged parts are left out without harm to the others.

## Modules

* `Buffer` - the operations of Buffer as operators on a record
  `[main, end, endOffset]` (`main_data_`, `end_data_`, `end_offset_`).
* `BufferApi` - a state machine that calls these in any order with any arguments
  that respect the comments of `buffer.h`. `Byte` is a parameter; `MCBufferApi` gives it two
  values.
* `Mp3Encoder` - what the encoder does to its buffer. LAME is external: a source
  determines one stream `audio`, handed out in arbitrary pieces, and with VBR a
  frame `xing` for its start, where `audio` has a placeholder.
* `Transcoder` - one file over the lives of its handles. `Call` is the FUSE
  request, `ReadWithoutDecoding` the two early returns of `read()` and
  `StartDecoding` the entry of its loop; each round of the loop is `DecodeFrame`,
  `ReachEndOfStream`, `SkipFrame`, `DecodeFails`, `DecodeFailsForNow`, `Finish` or
  `FinishFails`; `FinishRead` is what follows the loop. The mutex is `owner`, the
  entry of the file in the stats cache is `cachedSize`. `MCTranscoder` gives it
  sources and bounds.
* `RegularFile` - the abstract specification: a file of fixed content, read by
  `pread` as FileReader does. `Transcoder` implements it with
  `content <- EagerFile` and `reading <- pc /= "idle"`.
* `StatsCache` - the cache and the threads in `put_filesize` and `prune`: one
  action for each stretch under one lock, and one for each `stat()` without it.
  `refreshed` and `copiedAt` are history variables. `MCStatsCache` gives bounds.
* `ForgetfulCache` - the abstract specification of the cache: it may forget any
  entry, and never replaces a version by an older one.
* `Mount` - extends `StatsCache` by the transcoders that share it, over sources that
  are replaced: `open_file` takes the mtime of the version it opens, `open` asks the
  cache, `finish` puts the size it comes to, `Prune` is `PutStep` with a `stat()` that
  sees the sources. What `Transcoder` and `Audio` show of one pass is `Reached`: which
  size it ends with, given the one it was told, or else the one `calculate_size` foresees
  (`ForeseenSize`), which may be too short; then the stream is cut (`mp3_encoder.cc:350`) and
  the pass ends with any size up to the true one. `damaged` is a history variable.
* `Namespace` - the operations of `fuseops.cc` that take a path, and `path.cc`, over
  a directory that others change between system calls: `Begin` is the request,
  `LStatNormal` and `OpenNormal` try the path as it is, `Scan` is
  `transcode_source`, `ReadlinkFound`, `LStatFound`, `GetTranscodedSize` and
  `OpenTranscoder` use what it returned; `OpenDir`, `ListNext` and `ListEnd` are
  `readdir`. One call at a time is enough: calls share nothing but the directory.
  `present` and `distinct` are history variables: the entries that were there, and
  could not be taken for one another, all through the call. `MCNamespace` has the
  names.
* `Picture` - `Picture::decode` as an operator, and the format it decodes: `Encoded` makes
  the digits of a length by division, `Word` reads them by multiplication.
* `Metadata` - `process_metadata` of both decoders, comment by comment, with the
  encoder's setters. A text is a sequence of tokens, a tag maps frames to texts. `scale` is
  what `lame_set_scale` was told, `applied` what LAME encodes with: `SetStreamParams` takes
  the scale over in `lame_init_params`, and nothing else does.
  `MCMetadata` has the comments.
* `Audio` - the samples on their way through `write_callback` or
  `process_single_fr` and `encode_pcm_data` into LAME, and the bytes that come out
  against `calculate_size`. LAME is external: its frames, bitrates and padding are
  modelled as far as sizes depend on them. `heard` is what LAME has been given.
  `MCAudio` has sources of every layout and rate.
* `Logging` - `~Logger` step by step for several threads: `LocalTime` and `StrFTime`
  share `tm`, `FileInsert`, `FileBump`, `FileNewline`, `FileFlush` and `FileReset` are
  what `logfile_ << msg << std::endl` does to the buffer of a `std::filebuf`. `alone`,
  `begun` and `history` are history variables.
* `Startup` - extends `Logging` by the program around it: one action for each kind of
  argument that `fuse_opt_parse` meets, `StartLogging`, `CheckOptions`, `Announce`
  (what `main` logs) and `fuse_main`, after which `HandlerLogs`. `MCStartup` has the
  command lines.
* `BufferProofs`, `BufferApiProofs`, `TranscoderProofs`, `MountProofs` (with those about
  `StatsCache`), `NamespaceProofs`, `AudioProofs`, `MetadataProofs`, `StartupProofs` -
  the theorems.

A definition named after a member function translates that function. Definitions
marked "Seeded fault" are variants with a plausible bug; they are used by no
specification, and show that a property would notice that bug.

## Runs

| Run | Instance | Shows |
|---|---|---|
| `buffer_api` | two byte values, main segment up to 4, end offset up to 5 | `ValidMeansFilled`, `MaxValidIsMaximal`, `CopyIsTheSlice`, `TruncatingWriteIsInvisible`, `ExtendingWriteKeepsAll` |
| `reads` | 2 readers, no cache, CBR with 1 transient failure and VBR without, streams shorter than, as long as and longer than foreseen | `ImplementsRegularFile`, `NoPlaceholderServed`, `DecodingReadReturns` |
| `faults` | 1 reader, every mode, cached sizes too small and too large, 2 failures of any kind | `SizeNeverChanges`, `FilledBytesStable`, `MainOnlyGrows`, `NoUnwrittenByteServed`, `CachedSizeApproachesTrueSize`, `VbrTailInMain` |
| `stats_cache` | 2 threads, 3 files of one version, capacity 2, clock up to 1 | `ExcessIsRelieved`, `PruneSparesNewEntries`, `EvictsLeastRecentlyUsed`, `ExcessIsTransient` |
| `mount` | 2 threads, 2 transcoders, 2 files of 2 and 1 versions, capacity 1, 2 seconds, 1 damaged pass | `CurrentSizesAreRight`, `RemovedIsOutOfDate`, `ImplementsForgetfulCache` |
| `namespace` | up to 2 of 9 entries at a time, 6 requested names, the directory removed and made again | `ListedNameLeadsToItsEntry`, `LinksLeadToListedNames`, `PassThroughWins`, `NothingComesOfNothing`, `ListingIsComplete` |
| `metadata` | up to 2 of 14 comments, 3 of those of one kind, every cut of two pictures, 3 gain modes | `NumbersInAnyOrder`, `TextFramesHaveAllValues`, `GainFollowsTheMode`, `PicturesAreTheWholeOnes` |
| `audio` | 8-bit ints, sources of 4 samples in frames of up to 3, 1, 2 or 6 channels, 6 pairs of rates, bitrates LAME knows and one it does not | `LameHearsTheSource`, `ForeseenSizeIsExact`, `ForeseenVbrSizeSuffices` |
| `service` | 105 command lines; 2 handlers, up to 3 messages, 2 seconds | `MountedAsAsked`, `DebugShowsEverything`, `SyslogIsFaithful`, `LoneEntryIsRight` |
| `vbr_tail`, `placeholder`, `vorbis_gain` | VBR only for the first two, the last as `metadata` | disagreements between the code and what its documents and comments say, see below |

Bounds. Tags and streams are two to four bytes: the code looks at sizes only
through comparisons of the ends of the request, the main segment, the end segment
and the file, and every order of these occurs, with equality; requests start and
end in each part, at each border and beyond the end. `MaxVbrFrame` is 2, so that
a stream can be shorter than, and longer than it. Two frames are enough for a
fault before, between and after the output. `MaxFaults` (failures) and `MaxClock`
(seconds) bound counters that only grow. The cache needs one file more than its
capacity to prune at all; with two threads a prune meets a lookup, a put and
another prune; two clock values make entries of the same and of different age. In
`mount` a cache of one entry is enough to prune; one source is replaced by a shorter
version, whose size would cut the first; of the two, the first is foreseen too short and the second too
long, and the other source stays and competes for the entry; two transcoders are what it takes for one to finish behind the back of
another. A damaged pass (`MaxDamaged`) leaves a size that later passes work with. Two
entries (`MaxEntries`) are what it takes for one to be mistaken for another, and
the changes of the directory during a call are not bounded. Comments interact only
through one frame, one gain or one failure: two comments meet in every pair of
kinds, three where three matter. In `audio` ints have 8 bits, with samples at both ends of
the range of 3, 4 and 8 bits; up to 8 MP3 frames are enough for paddings to add up
differently from the foreseen size. In `service`, three messages (`MaxEntries`) are
two that race for the log file and one that comes after them; for the syslog and the
terminal it is the two that race, with every output open it is one; `MaxBuffered` is what three messages can put into the stream's buffer
at most, so it never blocks. `MaxTime` lets the clock change both fields of the time.
Picture lengths have two bytes of four values, so that a length can have a carry.

Fairness. `Transcoder!FairSpec` says that a thread in the loop of `read()` is
scheduled (`WF` of its steps); nothing is assumed of which waiter gets the mutex.
`StatsCache!FairSpec` says the same of a thread inside `put_filesize`; that a lock
goes to it although others take it again and again is not assumed: weak fairness
is enough. FUSE requests, the clock and failures are never forced to happen. The
readers may stop for ever, and a file can always be opened or released. `metadata`,
`audio` and `service` turn the deadlock check off: `process_metadata`, the stream and
the messages end, and `main` may exit.

## Disagreements with the documents

* `vbr_tail`: `encode_finish` writes the Xing frame as a vector of
  `MAX_VBR_FRAME_SIZE` bytes (`mp3_encoder.cc:382-388`) and so zeroes the audio
  behind the placeholder.
* `placeholder`: after a VBR read has failed half-way, the fast path of the next
  one (`transcode.cc:102`) ignores `no_partial_encode()`.
* `vorbis_gain`: `mp3fs.1.md:51-59` says which ReplayGain tag counts, for any file. For Ogg
  Vorbis none does: `set_stream_params` and with it `lame_init_params`
  (`vorbis_decoder.cc:104`, `mp3_encoder.cc:119`) come before `set_gain`
  (`vorbis_decoder.cc:179`). That `lame_init_params` is where LAME takes over the scale is
  external: LAME makes the matrix for its input there, from 3.99 on.

No run of their own have:

* `transcode_source` compares the beginning of names (`path.cc:50`), and `path.h:44`
  speaks of a change of extension: `a.mp3` can be served from `a.live.flac`.
* Where there is no source, `path.h:44-47` has `transcode_source` return the name itself;
  when the directory has been removed after the kernel looked it up, `path.cc:46` reads
  from the null result of `opendir` and crashes (`ScanCrashes`).
* `README.md:42-43` says that with CBR the size can be determined, and
  `mp3_encoder.cc:285` that each frame has 1152 samples. Below 32 kHz LAME makes frames of
  576, and twice the length is foreseen.

Met on the way, where no document says what should happen: with a cached size
smaller than the tags `read()` returns the length of memory it did not fill in
(the theorem `OnlyWrittenBytesServed` assumes `RoomForTags`); lookups that renew
the entries during a prune make it spare all of them (`ExcessIsTransient` allows
for it); a file that appears between `fuseops.cc:155` and `:166` is transcoded under
its own name; `readlink` prefers a source to a link of that very name; with VBR and a
stats cache, `truncate()` precedes the `write_to` of the Xing frame
(`mp3_encoder.cc:372-388`), and if the stream is shorter than the 2880 bytes that are
written, these run beyond the end of the main segment (`VbrTailInMain` asks for room for
them); a read that starts at the ID3v1 tag and asks for more than its 128
bytes transcodes the whole file (`transcode.cc:102`). `calculate_size` is exact for
CBR only when LAME knows the bitrate, too: `-b 100` gives the size of a bitrate that
LAME does not use (`mp3_encoder.cc:302-305`); with VBR it counts output frames with the
rate of the input (`:300`), and a FLAC header may leave the length out
(`flac_decoder.cc:100`): the size foreseen is too short, and the file is cut there. `--log_stderr` without `-d` or `-f` is opened by `main` and lost
when `fuse_main` leaves the terminal; messages that threads log at the same time can
be lost from the log file (`logging.cc:100`).

## Proofs

TLAPS checks every leaf. Assumed are the named assumptions on the constants
(`BufferApiAssumption`, `MaxVbrFrameAssumption`, `TranscoderAssumption`,
`StatsCacheAssumption`, `MountAssumption`, `NamespaceAssumption`, `AudioAssumption`,
`PictureAssumption`, `MetadataAssumption`, `LoggingAssumption`, `StartupAssumption`), which TLC evaluates, and where a theorem says so one of the hypotheses below. The
theorems hold for any number of readers or threads, any set of sources, command lines,
options, messages, requests, names, samples, comments, pictures, cached sizes and faults.

* `BufferProofs` says of each operation which fields it keeps, what is filled in after
  it, and which slice `copy_into` returns; `MainPrefixKept` is the relation between a
  buffer and one whose main segment was only appended to.
* `BufferApiProofs`: every property of `BufferApi`, from `BufferTyped`, which is
  inductive, and the lemmas of `BufferProofs`.
* `TranscoderProofs` puts these together in its first part: `Advances(params, b, c)`
  describes what any operation of the encoder does to the buffer of an open file. Its
  second part has the inductive invariant
  `IInv == TypeOK /\ HandleInv /\ SeparateInv`. `TypeOK` alone is not inductive: that
  the ID3v1 tag stays in place needs to know that a thread is in `read()` only
  while the handle is open (`HandleInv`), and that the segments do not overlap
  (`SeparateInv`) needs that there is no cached size without a cache, or
  that all cached sizes leave room for the tags (`RoomForTags`). `BufferAdvances`
  is the key lemma: each step on an open handle advances its buffer. From it follow
  `SizeIsFinal`, `ReadsAgree` and `MainIsFinal`. `OnlyWrittenBytesServed` adds
  `WrittenInv` and assumes `RoomForTags`.
  - `StreamInv` adds how the buffer relates to the stream: the main segment is the tag
    and the stream so far (`StreamByte`), cut where the end segment begins
    (`LengthOK`). With it `XingFrameInMain` and, since an ID3v1 tag has 128 bytes
    (`EndTagsNotEmpty`), `CachedSizeConverges`.
  - `TranscodesARegularFile`: `Transcoder` implements `RegularFile`. `DemandInv` adds that
    only the reader with the mutex decodes (`LockInv`) and that nothing is lost
    (`LosslessInv`): at any time the bytes that are filled in are those of the file
    that eager transcoding makes (`FilledIsEager`), and a finished buffer is that
    file (`FinishIsEager`). Each step is then a step of `RegularFile` or stutters
    (`FileStep`): `ReadWithoutDecoding` and `FinishRead` are its successful read, a failure
    its failing one.
  - `PlaceholderNeverServed` follows with `ServedInv`: what has been returned is
    part of that file.
* `MountProofs` first takes `StatsCache` by itself: type correctness and `ExcessIsRelieved`, which is
  inductive together with `TypeOK`: whatever shrinks the cache leaves a prune its
  reason or none, and the last put over the capacity starts one that copies all.
  For `prune` it adds three facts: no stamp is in the future
  (`StampsArePast`), none in a copy is later than the copy (`CopiesArePast`), and what
  an eviction has come to is gone or has changed, since nobody else has the lock
  (`EvictionsLast`). With them follow the two action properties of `prune`; that
  StatsCache implements ForgetfulCache needs `TypeOK` only.
  Then it shows that each step of a mount is one of its cache
  (`MountUsesStatsCache`), so that all of the above holds in it. `CurrentSizesAreRight`
  is inductive with sizes on their way (`SizesAreRight`: in the cache, about to be put,
  told) and with `NothingAhead`: nothing is known of versions to come, so that no
  size becomes current when a source is replaced. It rests on what the module says
  of sources: they never get an older mtime, nor other content with the same one. A size is
  right (`IsRight`) if it is the true one or, where the foreseen one is too short, between
  the two; a pass that starts with a right size ends with one (`ReachedIsRight`).
* `NamespaceProofs`: all six properties of `Namespace`, for any names, extensions,
  directories and changes. `NamespaceInv` says for each step of a call what the ones
  before it have established: which operations take it (`StepsOK`), that `present` and
  `distinct` are what they are called (`HistoryOK`), that no call scans for a name whose
  own entry is there (`NoScanForOwnName`), that what the scan found matches the
  name (`FoundOK`), and how far the listing has come (`ListedSoFar`); `Lookups`
  are the four properties of answers. What `SpecNothing` leaves open is a call that does not
  return: that takes a name of the destination type and a directory that is gone (`ScanCrashes`).
* `AudioProofs`: all three properties of `Audio`. `SizesInv` says that with CBR LAME's
  account is balanced - bytes returned and fractions owed make up the frames
  (`CbrSize`) - so that at the end the two ways to round, LAME's frame by frame
  and that of `calculate_size` in one division, differ by less than two bytes; with
  VBR each frame is no longer than the largest (`VbrSize`). `HeardInv` says that LAME has
  the first `position` samples, left aligned; that the shift loses nothing and
  scales every width alike is `Alignment`.
* `MetadataProofs`: all four properties of `Metadata`, and what `decode` does.
  - `DecodeIsWhole`: `decode` finds exactly the picture that is whole in the data. Its core
    is `WordReads`: reading a word gives `n` if and only if the bytes are the digits of `n`;
    the induction goes by the least length at which that fails (`LeastIs`).
  - `SoFar` is the inductive invariant. A file has places, one for each comment and each
    picture block; `Position` says where the decoder is and so which places have been read.
    `NumbersSoFar`, `TextsSoFar`, `ScaleSoFar` and `PicturesSoFar` say of the places that have
    been read (`Read`) what the properties say of all places of the file; `GainsSoFar`
    is about the list that is being read. A step reads nothing (`ReadsNone`) or one place,
    which comes after all that have been read (`Reads`), and what comes last is appended to
    what is in order (`InOrderMore`), so no induction along the file is needed.
  - `GainIsOfTheMode` needs `AppliedWhenDone` besides: at the end of a FLAC file LAME encodes
    with what it was told, since the stream's parameters are set last.
* `StartupProofs`: all four properties of `Startup` and `Logging`.
  - `OnTheWay` says of each phase of `main` what the arguments so far have made of
    `params` and `outargs`: `ParsedTo` (the last value of each option, the first plain
    argument) and `InOrder` (the arguments at some places of a list, in order).
    `WhatIsMountedIsAsked` translates that into `Max`, `Min` and `Chosen`.
  - `SubstitutesInOnePass`: what the loop of `multi_substitute` builds is the source with
    its keys replaced by their places, if keys do not overlap (`FormatKeysApart`). The
    loop's result is a recursive function; the induction along the source goes by the
    least place where the two differ (`LeastIs`).
  - `LogTyped` and `Quiet` (who can be logging in which phase) hold for all that follows,
    and `ToTheLog` is what a step of the program is to the log.
  - `LoneEntriesAreRight`: `AloneIsRight` says what a thread that has been alone since it
    began has put where, at each of its steps, and that the stream's buffer is empty
    when nobody is in it (`StreamEmpty`), whatever races there were: so it starts at the
    beginning of the buffer.
  - `TheSyslogIsFaithful`: `SyslogOf(t)` compares the entries of a thread with what it has
    logged and has in hand; a step of another thread adds nothing of `t`
    (`SyslogOfOther`). `DebugShowsItAll` does the same for the terminal with `ConsoleOf(t)`,
    and shows that with `-d` no message is dropped and `fuse_main` keeps stderr.

Hypotheses of single theorems, and why the code justifies them:

* `RoomForTags` (cached sizes leave room for the tags): `finish` puts only such; what
  happens otherwise is said above.
* `NothingLost` (no stats cache; transient failures only, and none with VBR): a frame
  that is skipped or a pass that is broken off with VBR does change what is read, see the
  disagreements above, and a stale cached size cuts the file.
* `EndTagsNotEmpty`: `kId3v1TagLength` is 128 (`mp3_encoder.h:37`).
* `PlaceholdersApart` (the bytes of the placeholder occur nowhere else in the file): else
  serving them proves nothing.
* `OutputRates` (LAME's output rate is 16 kHz or more): below that it makes MPEG-2.5,
  whose bitrates `Audio` does not have.
* `EveryPictureIsKnown` (`Pictures` has every picture that is whole in a comment of a
  file): TLC cannot look for a picture among all, so `PicturesAreTheWholeOnes` looks among
  `Pictures`. Whatever the files are there is such a set, and by `KnownWhenDecoded` it is
  enough to have what the comments decode to; in `MCMetadata` TLC checks that.
* `PowersOfTwo`: the laws of `2^n` up to the width of an int. The provers know no
  arithmetic of `^`.

Only model-checked: liveness under fairness (`DecodingReadReturns`, `ExcessIsTransient`).

## Not modelled

base64 and gnulib (third party), memory exhaustion, the texts of the messages, the
usage and the versions, chained Ogg files, and the
bytes of ID3 frames (libid3tag makes them). `Namespace` takes `opendir` with its
`readdir`s for one step (a small directory is one `getdents`), and has one directory
and intact files, which all may be opened: `open` never fails but with `ENOENT`, so the branch
for other errors (`fuseops.cc:161-163`) has no counterpart. `getattr` opens a Transcoder of its own and
reports the size `Open` gives; it shares only the stats cache, in `Mount`. In `Transcoder` the
foreseen size is the parameter `predicted`, in every relation to the real length;
`Audio` has the formula. libfuse's parser, its threads and its daemon are what
`Startup` needs of them.

## Plan

Done: Buffer, Mp3Encoder, Transcoder with RegularFile, StatsCache with
ForgetfulCache and Mount, Namespace, Metadata with Picture, Audio, Startup with Logging, and
the theorems above: every safety invariant and every action property of a passing run,
and both refinements.
