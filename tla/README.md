# TvtPlay: a verification project

TvtPlay is a plug-in of the television viewer TVTest. It plays recorded transport
streams (and MP4 and MMT/TLV files, converted on the fly) by sending them, at the rate
of the clock they carry, to a tuner driver that TVTest believes to be a real tuner. The
driver that comes with it, BonDriver_Pipe, receives the stream over a named pipe.

Most of what can go wrong in it is concurrency: TVTest's user-interface thread, a sender
thread for each file, a thread that reads ahead, the driver's two threads, the
application's streaming thread and a thumbnail thread share state under several locks,
wait for each other without timeouts, and talk by messages that arrive late. This
directory holds TLA+ modules of those protocols, model-checking configurations for TLC,
and theorems about them checked by TLAPS.

To run them here: `tlc -workers 2 -config X.cfg M`, with the pairs of the table under
*Runs*, and `tlapm MProofs.tla`. `PROJECT.json` maps each definition to the lines it
stands for, and lists the runs, the theorems, the hazards and, for each property of a
run, a slip of the code (an operator commented "Slip:") that violates it.

## 1. Inventory

### Components

**Pipe receiver** (`BonDriver_Pipe_src/BonDriver_Pipe.cpp`, `CBonDriverPipe`).
State: a circular list of `ASYNCBUFFSIZE` buffers, three pointers into it
(`m_pIoGetReq`, shared; `pIoDeq` and `pIoEnq`, of the read thread), `m_dwReadyReqNum`, up
to `REQRESERVNUM` overlapped reads with an event each from a stack of events,
`m_fPause`, a purge event, a quit event, the current channel. Operations: `OpenTuner`,
`CloseTuner`, `SetChannel`, `ResetChannel`, `GetTsStream`, `PurgeTsStream`; the read
thread's loop `ReadPipeMain`; the control thread's `CtrlPipeMain` and
`ProcessPipeMessage` (`PURGE`, `PAUSE n`, `GET_READY_STATE`).
*Hard*: three threads move the pointers, and the lock is released between the steps that
belong together; a purge overtakes reads that are already complete; a channel is
selected while reads are outstanding. *Correct when*: the pointers always delimit
adjacent runs; no two reads share an event; no read goes into the buffer the application
holds; the stream arrives in order without gaps; a purge lets next to nothing of the old
data through; selecting a channel returns.

**Sender** (`src/TsSender.cpp`, `CTsSender`). State: the file and its reader, positions
in the buffer, the clocks (`m_pcr`, `m_basePcr`, ...), rate control, `m_fPause`,
`m_fPurged`, the destination (`m_pipeNumber` or a UDP port) and the handles of the two
pipes, how the file grows. Operations: `Open`, `Close`, `Send`, `SendEmptyPat`, `Seek*`,
`Pause`, `SetSpeed`, `SetPipeNumber`, and inside them `ReadToPcr`, `RotateBuffer`,
`SendData`, `TransactMessage`.
*Hard*: reads that end within packets, damage, and what is remembered of tables; what the receiver still holds at a pause or a seek; requests whose answer is
lost; writes without a timeout; files that grow while they are played. *Correct when*:
both ends agree about the pause; a seek's purge reaches the receiver; a gapless pause
loses nothing; what follows the position is sent once and in order; the thread always returns to its messages.

**Playback control** (`src/TvtPlay.cpp`, `CTvtPlay`). State: on the UI thread the open
file and its thread, the playlist, the repeat and close options, the chapter watch's
timer; on the sender thread `resetCount`, the watched position, the last infos; between
them the thread's message queue, messages posted and sent to the frame window,
`m_hThreadEvent` and `m_fHalt`; from file to file the list of resume positions in the ini
file, which other runs of TVTest read and write too. Operations: `Open`, `Close`, `OpenNext`/`OpenPrev`,
`Pause`, the seeks, `WaitAndPostToSender`, the playlist's menu, `UpdateFileInfoSetting`,
the handlers of the frame window, and `TsSenderThread`.
*Hard*: `Close` waits without a timeout for a thread that may send a message to the
waiter; notifications outlive the file they speak of; a seek must make the viewer
reset, but not too often; the playlist changes under a menu that is up; the position that
is saved is read when a seek may be asked for and not carried out. *Correct when*: no wait
lasts for ever; a reset comes between a seek and its data; nothing is sent before the file
is set up; the end of a file has its consequence; the file that is open is the playlist's
current entry; every file goes on where it was left.

**Read-ahead** (`src/BufferedFileReader.cpp`, `CBufferedFileReader`). State: a queue of
buffers, how many are filled, the flags `m_fRead` and `m_fStop`, an event, the file's
pointer. Operations: `SetFile`, `SetupBuffer`, `Read`, `SyncRead`, `Flush`,
`GetFilePosition`, and its thread. *Hard*: the sender uses the file outside the lock;
the buffer it was given must survive until its next call; `Flush` goes back in a file
that forgets. *Correct when*: reading ahead cannot be noticed.

**Chapter map** (`src/ChapterMap.cpp`, `CChapterMap`). State: the chapters, whether they
may be saved, a directory watch, retries; the file they are kept in is shared with other
players and programs. Operations: `Open`, `Close`, `Sync`, `Save`, `Insert`, `Erase`,
`ShiftAll`. *Hard*: changes between a read and the start of the watch; reloads that fail
while the file is written; a menu open during a reload; a crash during a save. *Correct
when*: players that watch end up with the file's chapters.

**Thumbnail preview** (`src/ThumbnailPreview.cpp`, `src/ThumbnailGenerator.cpp`).
State: the window's cache, the position pointed at, the one asked for; a thread for each
file with a slot for one request and one for a result. Operations: `Open`, `Close`,
`Destroy`, `Show`, `Hide`, the ready message; `ThreadProc`. *Hard*: results from
overtaken requests, of closed files, for other widths; threads that outlive their file
and must not outlive the plug-in. *Correct when*: only images of the open file are shown,
no request is lost, every thread ends.

**Playlist** (`src/Playlist.cpp`, `CPlaylist`). State: a list of entries and a position
in it. Operations: `PushBackListOrFile` (also of list files), `Prev`, `Next`,
`MoveCurrentToPrev/Next`, `Sort`, `EraseCurrent`, `ClearWithoutCurrent`, `SetPosition`.
*Hard*: entries are rearranged under the position. *Correct when* the position stays at
its entry and sorting and moving lose and double no entry.

**Files that are converted while they are read**. The sender and its read-ahead see an
`IReadOnlyFile`, bytes with a position; two kinds of files are made as they are read:

- **MP4 files** (`src/ReadOnlyMpeg4File.cpp`, `PsiArchiveReader.cpp`). State: the block
  list with each block's size and counters, computed when the file is opened without
  reading a sample; the block the position is in, and its packets; the archive reader,
  which reads the recorded tables front to back. Operations: `Open`, `Read`,
  `SetPointer`, the archive's `Read` and its going back. *Hard*: what was computed for a
  block and what is made of it must agree to the packet, in whatever order blocks are
  made. *Correct when* a block is the same whenever it is made, and the stream has every
  sample, caption and section once.
- **MMT/TLV recordings** (`src/ReadOnlyMmtsFile.cpp`, `MmtsEditGate.h`). State: where the
  conversion is, the edit segment it is in, the gate's decision for each stream, and a
  window of converted bytes. Operations: `SeekToMsec`, `SetPointer`, `SetRewindSize`,
  `Read` with `FillOutput` and `AdvanceEditSegment`. *Hard*: the bytes have no position
  but relative to the last seek, and old ones are forgotten; fragments without a time
  follow the decision of their access unit. *Correct when* the window reaches as far back
  as the reader goes, across the joins of segments, and access units are whole.

Beside these there are **plain files** (`ReadOnlyFile.cpp`); **captions**; **status bar, dialogs and drawing**; **utilities** (PSI parsing, settings, the timestamp
shifter); **audio stretch filter** (a DirectShow filter around a signal-processing
library); **tests and tools**; **vendored code** (the host's API, DirectShow base classes,
SoundTouch).

### How they interact

    user --> UI thread (CTvtPlay) --thread messages, event, m_fHalt--> sender thread
                 ^                                                       |
                 +------- posted and sent window messages ---------------+
                 |                                            CTsSender  |
    chapter file <-- CChapterMap (timer)                                 v
    thumbnails   <-- CThumbnailPreview <--> its thread         CBufferedFileReader
                                                               and its read thread
    ini file, playlist <-- CTvtPlay                                      | IReadOnlyFile:
                                                                         | plain, MP4, MMT/TLV
         data pipe, control pipe (PURGE, PAUSE, GET_READY_STATE)         |
    CBonDriverPipe <-----------------------------------------------------+
      read thread, control thread  --> ring --> GetTsStream of TVTest

TVTest is the environment: it selects channels and releases drivers when it likes, tells
the plug-in afterwards, polls `GetTsStream`, and may be closed. Other programs write the
files being played and the chapter files.

## 2. Modules

| module | models | what it is |
| --- | --- | --- |
| `PipeRing` | `CBonDriverPipe`, thread by thread | ring, events, purge, reset |
| `StreamQueue` | what it promises to the application | abstract specification |
| `Player` | `CTvtPlay` and `TsSenderThread` | two threads and their messages |
| `ReadAhead` | `CBufferedFileReader` | two threads over one file |
| `SequentialReader` | what it promises to the sender | abstract specification |
| `PipeLink` | `CTsSender`'s pipes against `CBonDriverPipe` | composition of sender and receiver |
| `SenderFile` | the file a sender reads, of each kind | composition of the next five |
| `Mp4File` | `CReadOnlyMpeg4File`, `CPsiArchiveReader` | conversion block by block |
| `MmtsFile` | `CReadOnlyMmtsFile`, `CMmtsEditGate` | conversion with a window and edit lists |
| `SeekSearch` | `CTsSender::Seek(int)` | search in a transport stream by its clocks |
| `Transfer` | `CTsSender::ReadToPcr`, `RotateBuffer`, `FilterEitPacket`, `Seek(__int64)` | packets read in pieces, filtered and sent |
| `Growth` | `CTsSender::Send` while the file is recorded | length, growth, reading ahead |
| `PlainFile` | what an `IReadOnlyFile` promises | abstract specification |
| `Playlist` | `CPlaylist` | operators on a list and a position |
| `Session` | `CTvtPlay` from file to file | playlist, menu and resume positions |
| `ChapterSync` | `CChapterMap`, several players | caches of one file |
| `Thumbnail` | preview and generator | window and threads |
| `PipeRingProofs`, `PlayerProofs`, `ReadAheadProofs`, `PipeLinkProofs`, `ChapterProofs`, `ThumbnailProofs`, `SessionProofs` | | theorems about the module of that name |
| `SenderProofs` | | theorems about `SenderFile`, whatever kind of file it is |
| `MCPlayer`, `MCChapter`, `MCFiles`, `MCMp4`, `MCMmts`, `MCSession` | | values of constants, symmetry |

How the state corresponds to the code is said beside each VARIABLE. What is worth knowing
of each module:

*`PipeRing`.* An action is what a thread does between two points where another thread can
come in: the sections of `ReadPipeMain` under its lock are one action each, and `rd`
names the place in between. A buffer's `st` folds its overlapped result and `dwSize`
together. The client and the kernel's pipe are the environment, so that every order of
connecting, writing, closing and reconnecting is covered.

*`Player`.* The UI thread is idle or in one of its waits (joining the thread, waiting in
`WaitAndPostToSender`, starting); in a wait it handles no message. Queued messages that a
later `Close` has overtaken carry the mark `old`, which no action reads but the one that
records the history variable `early`. `resetCount` and its two meanings (positive: wait,
negative: since the last reset) are as in the code; `gaps` records how far apart resets
come. A position is the number of clocks sent.

*`ReadAhead`.* A buffer is where its bytes begin in the file and how many there are, so
that "the right bytes" is arithmetic. The file may give fewer bytes than asked for, fail,
grow, and forget what lies farther back than `SetRewindSize` made it keep.

*`PipeLink`.* The receiver is the queue that `PipeRing` refines, plus what the kernel
holds. The sender's requests are a `plan` of messages to make one after the other, each
answered, refused, or lost with the pipe before or after it was handled; `goal` is the
code that follows them. Buffers are "new", or "stale" once a seek's `PURGE` was answered.

*`SeekSearch`.* A file is its clocks at equal distances in bytes, with any of a few
distances in time, so that the local rate differs from the average, and with clocks that
go back. An action is one attempt of the search, or one clock read afterwards. The history
variable `goal` keeps what the user asked for; the code only has what is left to move.

*`Transfer`.* A packet is what the sender looks at: the PID of its clock, what it is of an
EIT, whether its first byte is right. The buffer is always one run of bytes of the file,
so `head`, `curr` and `tail` are positions in it and `tail` is the reader's, which is
`SequentialReader`. `step` is where `ReadToPcr` is, `mode` who called it; an action is one
packet, one search for the place where packets are in step again, or one read, which may
return any of a few sizes, or nothing at any time. The history variables keep what was
sent since the last seek, which bytes were lost with a read that returned nothing, and
how often the packets had to be found again.

*`Growth`.* Time is counted, and a call of `Send` comes some time after the last one; a
recorder writes at a steady rate, pauses, goes on, and may reserve room ahead. The ticks the
code keeps are the times since. A position of the file stands for the clock there.

*`Mp4File`.* A position counts packets; a packet is its pid, its counter and which packet
it is of its sample, caption or section. `blockList` is computed as `InitializeBlockList`
does, in one walk over the samples, and a block is made as `ReadCurrentBlock` does, from
the first sample that a division or a search gives; the two are different definitions, as
in the code. The turns of `Read`'s loop are a recursive function (`Turns`), one for each
block at most; sums and joins are recursive functions as well (`Sums`, `Flats`), which the
proofs use by what one more term does to them. The archive reader is a record of `CPsiArchiveReader`'s members. The history
variable `image` is every block as a reader that has only just been opened makes it, and
`out` is what the last call returned if it was a read; after a call that was none, or that
failed, it is `NotRead`, so that `PlainFile` can tell this from a read that returns nothing.

*`MmtsFile`.* A recording is a list of fragments, with the packets that the library makes
of each (the library is external). `Turn` is one turn of the loop in `FillOutput`,
`Course` where the conversion is after each, and `Turns` how many a read makes; a
read that fails stops before any of the turns. The history variable `image` is all that
would be converted from the last seek on (`Rest`).

*`SenderFile`.* `kind` is the file's extension; each kind has the variables of its module,
and the others' are not there (`NoMp4`, `NoMmts`, ...). A transport
stream is of three kinds, for its search by time, for its packets and for its growth. The two conversions are shown to
implement `PlainFile`, which is what `ReadAhead` is verified over.

*`Playlist`, `Session`.* The playlist is a list of entries, each with a number of its own
so that two entries of one path can be told apart, and `m_pos`. In `Session` the UI thread
is idle, or waits in `Close` for the sender thread (`ui` says what for). The sender thread
is there as far as positions go: it carries out a seek, plays on, tells its position,
posts the end, quits. The ini file's section maps numbers to hashes and positions, as its
keys do; a file's content decides its hash, of one of two methods. `wish` is where the
viewer is by what was asked for last, `left` where each content was left by that, and
`newer` the hashes saved since. `aim` is where the file just opened was sought to (`Goal`);
where it then begins is another matter: `Open` and the sender thread take no notice of a
`CTsSender::Seek` that returns false, so a seek lands where it should or anywhere
(`Lands`). How well a seek lands is `SeekSearch`'s subject.

*`ChapterSync`.* Every player has its own copy, its directory watch and a pending
notification; writers hold the file open for writing during a step of its own, in which
another program cannot open it and the writer may crash.

*`Thumbnail`.* Each file opened has a thread of its own, numbered in their order; the current one is told to stop
when the file is closed and kept until `Destroy` waits for all of them. The cache is a map
from positions to images, with the order in which they were used.

### Plan

Written, in this order: PipeRing, Player, ReadAhead, ChapterSync, Thumbnail, PipeLink,
SeekSearch, Playlist and Session, MmtsFile, Mp4File, SenderFile, Transfer, Growth.
To come, the most important first:

1. **Clocks of the sender** (`TsSender.cpp` 571-613, 850-900): the rate control against
   the clock, and its wrap.
2. Stretch filter and speed (`WM_TS_SET_SPEED`), `EditTot` of MP4 files.

Theorems to come: `AllMade` and `IsPlainFile` of MP4 files with an archive, where each chunk
begins after the last time of the one before; in Growth, `AheadInside` under assumptions on
the intervals and speeds.

## 3. Runs

| run | module, configuration | checks |
| --- | --- | --- |
| `ring` | `PipeRing`, `MCPipeRing.cfg` | `RingSound HeldReservedNoPurge StaleAtMostOne NothingLost`; `IsQueue Delivered ResetReturns` |
| `player` | `MCPlayer`, `MCPlayer.cfg` | `ResetsRight NoDataBeforeInit`; `CloseReturns ResetFollowsSeek EndMovesOn` |
| `player_end` | `MCPlayer`, `MCPlayerEnd.cfg` | `AutoCloseAtEnd` is violated |
| `readahead` | `ReadAhead`, `MCReadAhead.cfg` | `TurnsKept PositionExact`; `IsSequential JoinReturns` |
| `chapter` | `MCChapter`, `MCChapter.cfg` | `Coherent`; `Converges` |
| `chapter_sees` | `MCChapter`, `MCChapterSees.cfg` | `SeesChanges` is violated |
| `thumbnail` | `Thumbnail`, `MCThumbnail.cfg` | `ImagesRight NoThreadLeft`; `DestroyReturns Answered` |
| `link` | `PipeLink`, `MCPipeLink.cfg` | `CleanSeek GaplessKeeps PauseAgrees`; `SenderReturns` |
| `link_stuck` | `PipeLink`, `MCPipeLinkStuck.cfg` | `NoStuckPause` is violated |
| `files` | `MCFiles`, `MCFiles.cfg` | `AllMade WindowReaches CutRight SeekLands SeekFinds SentRight LengthTracks AheadInside`; `IsPlainFile` |
| `mp4_pause` | `MCMp4`, `MCMp4Pause.cfg` | `IsPlainFile` is violated |
| `session` | `MCSession`, `MCSession.cfg` | `OpenIsCurrent Remembered`; `CursorKept ChosenAsShown ResumesThere` |

What they show:

- **ring**. Although the read thread, the application and the control
  thread move the ring's pointers in separate critical sections, the runs they delimit
  stay adjacent with one buffer spare, which is what protects the buffer that
  `GetTsStream` handed out (`RingSound` is `RingAligned` and `EventsDistinct`). The stream is delivered in order and complete unless
  something discarded data; the application sees a bounded FIFO queue. A purge lets at
  most one old buffer become retrievable. Data leave the ring unless the receiver stays
  paused, and `ResetChannel` returns even while data keep arriving.
- **player**. Between a seek and its data there is always a
  reset, and resets keep their distance, through every order of seeks, pauses, closes and
  opens (`ResetsRight` is `ResetBeforeData` and `ResetsSpaced`). Data flow only after
  `WM_TS_INIT_DONE`. `Close` returns: the sender thread that notifies the UI thread
  never waits for it while the UI thread waits in turn. A reset is not put off for ever,
  and the end of a file that does not grow has its consequence.
- **readahead**. Reading ahead cannot be noticed (refinement of `SequentialReader`), the
  file is never used by both threads and no wake-up is lost (`TurnsKept`), the joins
  return. (That `Flush` never goes back beyond what the file keeps is proved.)
- **chapter**. A player that has read everything it was told of agrees with the file, and
  once edits cease all players that watch end with its contents, through reloads that
  fail, crashed writers and deletions.
- **thumbnail**. Late results of other files and widths never reach the cache, no position
  is cached twice, no request is lost between slots and cache, every thread ends and is
  waited for. A position pointed at without an image is being worked on, unless it was asked
  for last and its image could not be made: then it stays without one until another position
  was asked for, which is not what the code's comment says (see the observations).
- **link**. At most 1 + `PipeCap` old buffers reach the application after a seek; a
  gapless pause keeps everything that was on its way; between requests both ends agree
  about the pause unless a channel was selected while the receiver was paused; and the
  sender's thread comes back to its messages except in two cases that the property names
  (a write to a receiver that such a selection left paused; the empty PAT after a seek,
  sent to one that is paused and full).
- **files**. *MP4*: what opening the file computes for a block agrees with what is made of
  it, so every read returns what is at its position, in whatever order blocks are read,
  sought and repeated, and over chunks of an archive whose times go back or are not known;
  the whole stream has every sample and section once, in order, with counters
  that go on from block to block, and so every caption of a file that has none in its first
  500 ms (one that has is among the files of the run: its positions are right, but captions
  are lost, see the observations). *MMT/TLV*: the window reaches back over what the
  read-ahead may give back, across input chunks and joins of segments; reads return what
  follows, after reads that failed as well; under every edit list of two segments an
  access unit is there from its beginning or not at all, nothing follows a loss until the
  next one begins, times lie within the program's range of their segment, and all of a
  segment's video is there up to the first that is past its end. *Transport streams*: a
  seek that returns true without having met an end of the file stands within
  one clock of 500 ms before the goal, whichever attempts were kept or repeated, and even
  where clocks go back. Where clocks rise and lie at most 2000 ms of the average rate
  apart, a goal inside the file is found within six attempts; a local rate may be eight
  times another one. (With clocks twelve ticks, six seconds, apart next to clocks half a
  second apart the six attempts no longer suffice. The code's comment expects such
  failures.) Wherever reads end and whenever one returns nothing, what is sent after a seek
  is what follows there, each packet once and in order; of an undamaged file only the
  schedule's tables are missing and what a read without a result cost, and damage costs
  less than a packet more each time the packets have to be found again; the counters of
  the tables that are sent have no gap, across buffers and resets of the filter. The length of a file that
  is being recorded is off by less than the interval of its checks for each time the
  recorder pauses or goes on; reading ahead keeps clear of its end, at double speed too,
  as long as the length is not half as much again as it should be.
- **session**. Whatever is added, sorted, moved, cleared and erased while the playlist's
  menu is up, while files end and while closes wait, the file that is open is the current
  entry, and the menu opens what it showed. Moving and sorting lose and double no entry
  and the current position keeps its own; clearing leaves that one alone; erasing takes it
  alone, and the position goes to the one behind it or, at the end, before it. Every file is
  sought to three seconds before where it was last left, by what was asked for last and not
  by what the sender had come to, through crashes, positions saved every five seconds,
  hashes of the older method, and files that are still written, unless as many others as
  are kept were left since. It begins there unless the seek fails.

### Disagreements

- **player_end**: `WM_QUERY_CLOSE_NEXT` names no file and stays in the queue when the
  user opens another file, which it then closes, TVTest as well with `AutoClose`.
- **chapter_sees**: `Open` reads the chapter file before the first
  `ReadDirectoryChangesW`, and nothing is read when the watch begins: a change in between
  is never noticed.
- **link_stuck**: the receiver's `m_fPause` survives `SetChannel`. Selecting a channel
  during a gapless pause breaks the control pipe, so the `PAUSE 0` of the resume is lost,
  and the receiver returns nothing although the sender sends.
- **mp4_pause**: `CPsiArchiveReader::Read` goes back by reading its current chunk again
  when the time asked for is not before the chunk's beginning; but that is -1 from the
  moment the chunk is entered until its first entry is read. A seek from a pause between
  two chunks to a time before it makes the reader read the later chunk, and blocks come
  with null packets in place of their tables until that chunk begins.

### Observations

Seen while modelling; no run states them as properties. The first two the models show as
well: they are the reason for a condition in a property.

- A comment in `OnResult` (`ThumbnailPreview.cpp` 187-188) says that a position whose image
  could not be made is asked for again when the cursor leaves it and comes back. But
  `m_requestedKey` keeps it, through `Hide` (144-149) and through positions that are in the
  cache (107-110), so `Show` does not ask again (111) before another position was asked for.
  `NothingLost`, a part of `ImagesRight`, therefore excepts a position that was asked for last
  and whose image could not be made; without `key = requested` it would except more than
  the code does.
- Captions of an MP4 file are sent 500 ms early, and `InitializeBlockList` counts those of the
  first 500 ms in block 0 (`ReadOnlyMpeg4File.cpp` 935-944). `ReadCurrentBlock` begins
  block 0 with the first one not earlier than 500 ms (987-989). The others are lost,
  null packets take their place, and the captions' counter jumps after block 0. `AllMade`
  therefore asks for captions (`CaptionsMade`) only of a file without such a one (`NoneEarly`).
- The read thread's exit "Unexpected Error!" (`BonDriver_Pipe.cpp` 388) is marked
  unreachable by an assertion. A client that connects and closes between
  `CreateNamedPipe` and `ConnectNamedPipe` (`ERROR_NO_DATA`) takes it there, and nothing
  reads the channel until the next `SetChannel`.
- A caption of an MP4 file later than the last block and 500 ms is not sent.
- When the seek that resumes a file fails, the file begins wherever the search had come to.
  If it is closed there, that place is recorded, and the one where it was left before is lost
  (`TvtPlay.cpp` 1655, 1706).
- Of a segment of an MMT/TLV edit list, sound, and video out of its order, that lie in a
  later input chunk than the first video fragment past the segment's end are cut, although
  their times are within it. `CutRight` is about what the code does keep.
- When a read returns nothing, what is left of the buffer, up to a whole packet, is
  forgotten (`RotateBuffer`, `TsSender.cpp` 1070-1075). A file that grows and is played at
  its end loses a packet each time the end is met.
- When packets are found again within a buffer, `m_head` stays behind and `RotateBuffer`
  goes in steps of packets from there: the remainder before the place found is not sent, and
  parts of two packets go through the EIT filter as one. Damage costs up to one good packet.
- `FilterEitPacket` judges a packet by the first table that begins in it. One that ends a
  section of present and following and begins one of the schedule is dropped whole,
  and after a seek into a section of the schedule the rest of it is sent. Readme.txt
  (106-109) says that the schedule is removed and present and following are kept.
- The length of a file that is written in bursts more than three seconds apart does not
  grow: each burst is followed by a check that finds the size unchanged, which takes back
  the three seconds that were added (`TsSender.cpp` 525) and takes the file for finished
  (`m_fileState`), so that its end, met then, opens the next file.
- A recorder that reserves room, reserves more and is done between two checks may leave
  a file no smaller than the last one saw. The file is then taken for growing for good
  (`TsSender.cpp` 519): its length grows on, and its end has no consequence (`Unnoticed`).
- After a seek to the end of a file that grows, data are read ahead until the next check,
  up to a second later, although nothing should be there (comment at 548).
- The playlist's menu erases the entry that is current when the choice is made, which the
  end of a file may have moved on from the one that was current when the menu came up.

### Bounds

- `PipeRing`: `N = 4`, `R = 2` (the code: a ring of 129 buffers and 8 requests): all
  relations between the pointers occur (empty, full, wrapped, fewer requests than room
  and the reverse), and the theorems hold for every `R < N`. three chunks and
  the requests posted after them wrap around a ring of four, and fill requests, ring and
  kernel; `MaxOpen` 3 allows a reconnection and a second channel selection; one purge or
  pause (`MaxCmd`): what the properties about purges, `HeldReservedNoPurge` and
  `StaleAtMostOne`, say of several in a row is proved.
- `Player`: two files of two clocks, `W = 2` (10 in the code; the theorems hold for every
  `W >= 2`), two opens: enough for a message of a file to meet the next one. `Begins`
  bounds the commands: one in behaviours with any options, two in behaviours that begin
  without repeating, closing and chapter jumps; two with any options in the run of the
  disagreement. `MaxPost = 1` notification in the window's queue; a further one is
  dropped, which only makes the liveness properties harder.
- `ReadAhead`: two buffers ahead and the one held, two bytes each, a file of up to eight
  bytes: full and short buffers, a flush over several of them, and forgetting all occur.
- `ChapterSync`: two players, two positions, one edit by users and one write by others
  (two edits where no liveness is checked), two retries.
- `Thumbnail`: two files, positions and widths, two movements of the cursor, room for one
  image (the one shown is kept besides), one message on its way.
- `PipeLink`: no counter needs a bound. `N = 7`, `R = 2`, `High = 2`, `Burst = 1` is the
  smallest ring that satisfies `LinkAssumption`; the code's values satisfy it as long as
  no more than 33 buffers are sent from one clock to the next. One channel: selecting it
  again breaks the pipes like selecting another.
- `Mp4File`: captions before, at and across block borders, in one file within the first
  500 ms as well; four video samples and four, two or no sound samples (with two the sound ends
  before the video), in three or four blocks; frame rates whose samples fall on block
  borders and beside them; counters of 4 (16 in the code), so that they wrap within a
  file, EITs and TOTs every 2 and 3 blocks (10 and 20) for the same reason; three pids of
  an archive (32), so that they run out. Archives are all those of two chunks with two
  sections each at four times, as long as the second chunk begins, after the latest time
  of the first, within the same block: others meet the disagreement above. An archive is
  well-formed and a PAT is one section; samples that cannot be read are left out.
- `MmtsFile`: one recording of eighteen fragments of two streams, with reordered times, a
  loss, units without a time, and a random access point within an access unit; every
  edit list of one or two segments over five times, and one of three; chunks of three
  fragments, reads of one and three packets, and a window of three. Only the first
  fragment of an access unit has a time, as the converter gives it.
- `SeekSearch`: a tick is 500 ms, which makes `Second`, `Tol` and `Store` the code's values;
  seven clocks, 8 bytes from one to the next; rounding errors are larger there than in a
  real file. `Found` supposes that the rate of an attempt is as GetRate or the
  corrections give it and not lowered to a bound.
- `Transfer`: seven streams of six or seven packets of two bytes, with tables of each sort
  before, in and behind one of the schedule, packets without payload, damage, and clocks of
  two PIDs; reads of one and five bytes, which end within packets and on their borders;
  files written at first up to 0, 5 or 8 bytes or whole. Counts are smaller than in the
  code so that each is reached in such a stream: two packets in step (8), two attempts to
  find them (`RESYNC_FAILURE_LIMIT`), four packets to a clock (`READ_TO_PCR_LIMIT_PACKETS`),
  one PID counted (`PCR_PIDS_MAX`), referred to after two clocks or three (3 or 5), six
  bytes kept, counters of 4.
- `Growth`: a unit is 500 ms, which makes `Second`, `RenewSize` and `RenewFsr` the code's
  values. Twelve units are recorded at first, fourteen pass, with two pauses or
  resumptions and thus one or two checks of the size between them; the properties hold for 18
  units and for shorter and longer files as well. Calls come after 500 or 1500 ms (the
  rate control sleeps up to two seconds); speeds are 1 and 2.
- `Session`: `Limits` has the bounds of a behaviour: three entries of the playlist while
  files are opened and little is played; one entry that is played, sought and left, with
  four ini files at first; one that is repeated. Two paths, one of them still
  written and found with either of two durations; room for one resume position. At most
  one message of an end is on its way, and a seek replaces one that was not yet carried
  out, which the sender would have passed through.

`CHECK_DEADLOCK FALSE` appears where the system may rest: a closed player waits for its
user, and TVTest may be closed.

### Fairness

Weak fairness of each thread's steps stands for the scheduler and for file operations
that end; of `GetTsStream`, for the application, which polls it; of the UI thread's
message handlers, for its message loop; of the window's timer in `ChapterSync`; of a
channel selection that has begun (`SetChannelEnd`), which TVTest completes. Users, clients
of the pipe, channel selections and programs that edit files owe nothing. A program that
writes the chapter file is assumed to get done.

## 4. Proofs

All theorems hold for every value of the constants that satisfies the module's named
assumption: `RingAssumption` (`1 <= R < N`, the code's static constants), `PlayerAssumption`
(`RESET_WAIT` at least 2, chapters inside the file), `ReadAheadAssumption` (at least one
buffer of at least one byte, which `SetupBuffer`'s callers ensure), `LinkAssumption`
(the ring has room for what is sent until the sender asks again whether the receiver is
full), and `ChapterAssumption`, `ThumbnailAssumption`, `SessionAssumption` (sizes are
positive, tables have an entry for each file), and `FileAssumption` (of recordings: what
`LoadMap` and `LoadEdit` check and compute, and that of an access unit only the first
fragment has a time, which the converter's callbacks give and `MmtsEditGate.h` 5 relies on;
of MP4 files: one to three tracks whose time scale is positive and whose samples have a time
each, by a table or a constant step, and reads of a packet or more).
The bounds on commands and messages are
constants as well, so the theorems hold without a bound. Each `...Proofs` module proves
its module's types too; no run checks them again.

**`PipeRingProofs`**: `TypeCorrect`, `RingStaysAligned`, `EventsStayDistinct`,
`RingStaysSound`, `HeldBufferReserved`, `StaleBounded`, `ChunksKept`, `RingIsQueue`. `RingAligned` alone is not inductive: a section that
moves `pIoDeq` relies on the thread being where it is. `Inv` adds to the types, the
alignment and the events: `Steps`, what each place of the read thread implies (in
`RECEIVE` there is a request, and so on); `HeldBehind`, that the buffer handed out is
the one right behind `m_pIoGetReq` until a purge moves that; and `PurgeCount`, that a thread
that is publishing while a purge is pending has not published since. Each conjunct has its
lemma `...Step`; the arithmetic of the circle is in `PlusInRing`, `PlusPlus` and
`PlusInjective`. The stream is `StreamInv`: the requests complete in the order they were
posted (`FlightOrder`), what the application may get was received (`ReadyKnown`), and
`NothingLost` itself, which speaks of places from the application to the kernel; `FlowKept`
says that a step which moves every chunk equally far along them keeps the order.
`RingIsQueue` maps the retrievable buffers to `StreamQueue`'s queue, each section of
either thread to its step or a stutter.

**`PlayerProofs`**: `SeekResetsFirst`, `SeekResetsSpaced` and with them `ResetsAreRight`
from `ResetInv`, which says what `resetCount` means: after a seek without a reset it is
running or due, its value bounds the distance from the last reset, and the round that
asks for a reset finds the one before the last far enough away. `TypeCorrect` from
`TypeInv`, which knows which messages can be in which queue. `PausedUntilInit` and
`SenderHasFile` from `InitInv`: the `WM_TS_INIT_DONE` of a file is in its thread's queue
behind nothing that could end the pause.

**`ReadAheadProofs`**: from `RInv`: the flags agree with where both threads are
(`States`, `Phases`), the buffers read ahead are a chain of adjacent runs of the file that
ends at its pointer (`Chained`), and what the file keeps reaches back to the sender's
position (`Kept`). `TypeCorrect`, `FileIsOwned`, `FlushAlwaysReaches`, `NeverLostWake`
(`TurnsAreKept` is both) follow (types and `FlushReaches` are proved and in no run), and `ReadsSequentially`:
`Spec => Sequential!Spec`, each step of either thread being a read, a move, a request or a
stutter of the sequential reader. `PositionIsExact`: the lengths that `GetFilePosition` goes
back over add up (`AheadIs`, a function by recursion) to the distance between the ends of
the chain (`AheadValue`).

**`PipeLinkProofs`**: three invariants over the same steps. `LInv` is what the sender
knows of the receiver: where the pipes lead (`Linked`), that a paused receiver whose
channel was not selected since can be reached (`Reached`, the theorem `PausedIsReached`),
and what is known of its pause at each point of each list of requests (`Planned`,
`Known`), which makes `PausesAgree` inductive although an answer may be lost after its
request was handled. `RInv` counts buffers from before a seek: at most `1 + PipeCap`, and
`R` more as long as the purge has not been carried out; from the answer of the `PURGE` to
the move in the file the receiver holds no more than that (`Emptied`), so that what the
move makes stale is bounded: `SeeksClean`, and `TypeCorrect` with the ring's room. `KInv`
says when something is kept (`Guarded`) and that a receiver that lost its channel holds
nothing, for `PauseKeeps`.

**`SessionProofs`**: lemmas about each operation of the playlist
(entries are none lost and none doubled, the position keeps its entry) for lists of any
length; an order has exactly one place for what the position is at (`Place`). `SInv` is
`ListInv` (numbers of entries are distinct and were given), `MenuInv` (the list begins
with what a menu that is up shows, which holds because only additions happen meanwhile),
`GoInv` (there is something to open, or to erase, when a wait for the old file ends) and
`OpenIsCurrent`. `OpenFileIsCurrent`, `CursorIsKept` and `ChoiceIsAsShown` follow. An order
by which a list is sorted is a bijection, and moves are exchanges of two neighbours, so
that the entries after are a selection of all those before (`Reorders`). Of the
resume positions, `ResumeInv`: the first one the list has of a content is where that was
left, and the hashes before it were all saved since, so that it is dropped, at the end of
a full list, only for as many others as are kept; `LeftIsRemembered`. And `PlaceInv`: until
the sender thread has carried out what was asked for last, that is still posted and the
thread alive; `OpensWhereLeft`, which is about where a file is sought to: where it then begins is
left to the seek. `TypeCorrect` has that the ini file's numbers leave none
out (`IsStore`), or `LoadFileInfoSetting` would stop before the end.

**`ChapterProofs`**: `Coherent` is inductive with the types. A change of the file marks
everyone who watches; a player that reads gets what would be written in the file's place.
`TypeCorrect` needs that shifting all chapters yields a map, where the first or the last
of the chapters that meet at a position stays: there is one by well-foundedness of `<` on
Nat.

**`ThumbnailProofs`**: `TInv` has `ThreadsKnown`: a thread that was started and has
not ended is the current one or in `m_stoppedThreads`. `NoThreadStays` follows. `PInv`
follows a request: what was asked for last is in the slot, being made, in the result slot
with a message on its way, or settled (`Last`), whatever is in a slot is of this file
(`Carries`), and the image pointed at is shown or was asked for last (`Pointed`);
`ImagesAreRight`, and `TypeCorrect`, for which the cache must stay within its room.

**`SenderProofs`**: first recordings, whatever their fragments, edit lists and chunks.
What a conversion makes is defined step by step over fragments and turns; `Recursion`
gives the function such a definition describes, and `UpTo` is induction over it with a set
for what is shown, so that neither needs an operator as a parameter. A turn brings the
end nearer (`Left`), so `TurnsMax` turns are enough (`CourseEnds`), and the conversion goes
on from any stage as if it began there (`CourseGoesOn`). With these, `MmtsInv` (types, the
window, and that nothing is given back before the read-ahead is set up) gives
`WindowHolds`; `ImageInv` (the conversion is at a stage of the one that began at the last
seek, and the window is the end of what was made by then) gives `RecordingIsPlainFile`,
the refinement of `PlainFile` by recordings. `CutHolds` needs an invariant of the
conversion itself, over fragments (`FragmentKeeps`), chunks (`ChunkKeeps`) and turns
(`TurnCuts`): all that was made is whole, in its range and in order (`CutSoFar`), an access
unit whose gate is open is whole up to here (`GateRight`), the segment's video is there up to
here and the segment complete only behind some that is past its end (`Covered`), and the
segments before it are done (`CutStage`). It rests on `SegmentsFollow`: each segment of the
program begins where the one before it ends.

Of transport streams, `SeekInv` says where the clocks of a search are counted from: while
places are tried, the goal is what is left to move behind the clock kept last; while the
stream is read on, what is left is to the clock read last. `SeekIsNearItsGoal` follows for
all clocks, rates and distances. `PosInv` has the buffer and what was gone through of it by
whole packets, and `SentInv` that what was sent up to the place where the last call ended
is right: `Filtered` states it over a run of the stream and the bytes of it that were given
up, `Missed` counts the bytes that are in no packet sent, and each step is shown to add one
packet, to lose less than one, or to go back over what is in the buffer; the filter is
a fold, used only through what one more packet does to it. `SentIsRight` follows.

Of a file that grows, `GrowInv` keeps for each state of the file how far its length
runs before or behind the time recorded, given the time `g` that was recorded since the size
was last seen and what the pauses may have cost so far: an unnoticed pause or resumption
leaves the length off by less than `Cost`, and when it is noticed the taking back of
`Restored` moves the bounds by as much as they may lack. A recorder that reserves room has
`WithRoom` instead: the size it shows never becomes smaller while it writes (`RoomGrows`), so
the file is never taken for a fixed one before it is done. `LengthIsTracked` follows; that
`GrowthAssumption` asks for a longest time between calls is what the property's bound
speaks of.

Of MP4 files without an archive, the lemmas follow the two computations. When the file is
opened, `Passed` counts the samples before a block by a walk; when a block is made, `First`
finds its first sample by a division, which `FirstIsPassed` shows to be the same number for
every time scale and step (or by a search in a table of times, which are in order, so that it
is a count of those before the block as well). So a block's packets leave of its room only
that of captions too early to be sent (`Spare`, `ContentsLen`), which null packets take
(`BlockIs`), the blocks lie one behind the other (`Laid`),
and `DataIs` finds a block's packets in the file. `Mp4Inv` has the block list and the file as
`Open` computed them (`Opened4`, `DataOf`) and a position within its block, whose cache is
empty or is what would be made of it (`Stands`). It is the last part that a read needs: a turn
of its loop takes what follows the position (`TurnIs`), any number of them (`TurnsAre4`), and
one for each block is enough. `Mp4IsPlainFile` is the refinement of `PlainFile`. For
`AllIsMade` the packets of one pid are picked from the file: those of a block are a run whose
numbers and counters go on from where it begins (`PickedBlock`), the next block begins where
they end (`RunsJoined`), and so for the file (`StreamPicked`, `EverythingMade`). This holds of
the samples whatever the captions, and of the captions (`PickedCaptions`) when none is in the
first 500 ms; otherwise it is false, and `AllMade` says nothing of them. A file of
more blocks than `BLOCK_LIST_SIZE_MAX` is cut there, so the theorem leaves it out. With an
archive `IsPlainFile` is false (`mp4_pause`), so neither theorem speaks of one.

Only model-checked:

- all liveness (`Delivered`, `ResetReturns`, `CloseReturns`, `ResetFollowsSeek`,
  `EndMovesOn`, `JoinReturns`, `Converges`, `DestroyReturns`, `Answered`, `SenderReturns`),
  which rests on fairness and ENABLED;
- `AllMade` and `IsPlainFile` of MP4 files with an archive: the sections that are counted and
  those that are passed on are two folds over the archive, which agree only for archives
  like the run's;
- `SeekFinds`, which is true within the bounds only (six attempts suffice for
  the run's clocks, not for all); and `AheadInside`, which compares a rate reckoned by
  division with the intervals and speeds of the run.

## 5. What is left out

- `PipeRing`: `TerminateThread` after 5 s in `ResetChannel`, failure to create handles,
  `m_hOnStreamEvent` and `WaitTsStream`, `GetReadyCount`, the control pipe's own connection
  states (they are in `PipeLink`). `CancelIo` and `SetChannel` may fail.
- `PipeLink`: a request arrives and is handled in one step, its answer may be lost; a
  timeout of `WaitNamedPipe` is a failure to open; UDP and other drivers are "no pipe";
  one empty PAT per seek; a buffer of 0 bytes after a disconnection counts as a buffer;
  purges that TVTest makes of itself are in `PipeRing` only. Whether a seek in the file
  succeeds, and whether the rate got out of control, is any outcome.
- `SeekSearch`: the limits that `GetRate` sets, and the wrap of 32-bit clocks; a read error
  or the limit of packets to the next clock.
- `Transfer`: the trimming of packets to 188 bytes, the TOT, changes of timestamps,
  packets marked as erroneous, bytes of a damaged stream that look like the first of a
  packet; a `SetPointer` that fails; `SeekMmts`. A packet begins at most one table. Of
  `Open` it has the seek to the beginning; When the next `Send` comes is left open.
- `Growth`: the length found by `Open` is taken to be right; its bounds of the rate; the fall
  back to 100 % when the stretch filter does not answer; `GetFileSize` that fails. What lies in
  reserved room is not read.
- `Mp4File`: the parsing of boxes and of the archive's dictionaries, the bytes of packets
  (PES headers, clocks, CRCs), and `EditTot`, which rewrites times within packets.
- `MmtsFile`: the text of `.mmtsmap` and `.mmtsedit`, demultiplexing (a library, external).
- `Session`: the text of list files and of the ini file; hashing. Where a seek that fails
  ends is any of the bounded positions, whether or not its search could end there.
- `Player`: speed and stretch filter, resume positions (in `Session`), the chapter and preview timers,
  changes of the preview state, the stream callback. A file is fixed, grows or has ceased
  to; its length in time is not kept.
- `Thumbnail`: failure to create the window, layout, drawing and decoding. Serial numbers
  of requests are replaced by whether one is waiting, the use counter by the order of
  the cache; both only ever compare.
- `ChapterSync`: the text format of the file, but for the hyphen that cannot be stored.
- Not modelled at all: the text of captions, PSI parsing, the timestamp shifter
  (computations on data that no small instance represents); dialogs, status bar, settings
  (layout and I/O); the audio filter and vendored code; tests and tools.

## 6. Hazards

`PROJECT.json` lists 40 of them at their lines, with the properties that catch them.
Those without one: a seek command does not end the sender's chapter watch at once
(`TvtPlay.cpp` 3042), a chapter file that was found writable is overwritten when it has
become something else (`ChapterMap.cpp` 306), and the read thread's exit of section 3
(`BonDriver_Pipe.cpp` 388).
