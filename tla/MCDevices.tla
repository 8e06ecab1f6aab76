----------------------------- MODULE MCDevices -----------------------------
(***************************************************************************)
(* The task switch, files, devices, processes and the C library for TLC,   *)
(* one of them in each behaviour: "part" says which.  Switch is extended,  *)
(* four tasks on three levels, with interrupts between its steps; the      *)
(* others share the variables x1, x2, ... as in MCNetwork.                 *)
(***************************************************************************)
EXTENDS Switch, TLC

VARIABLES part, x1, x2, x3, x4, x5, x6, x7, x8, x9, x10, x11, x12, x13

Idle == "idle"
Priorities == <<0, 1, 1, 2>>
From12 == <<x12, x13, vars>>
From11 == <<x11, From12>>
From10 == <<x10, From11>>
From9 == <<x9, From10>>
From8 == <<x8, From9>>
From7 == <<x7, From8>>
From6 == <<x6, From7>>
From4 == <<x4, x5, From6>>
From3 == <<x3, From4>>
XVars == <<x1, x2, x3, x4, x5, x6, x7, x8, x9, x10, x11, x12, x13>>
Idle12 == x12 = Idle /\ x13 = Idle
Idle11 == x11 = Idle /\ Idle12
Idle10 == x10 = Idle /\ Idle11
Idle9 == x9 = Idle /\ Idle10
Idle8 == x8 = Idle /\ Idle9
Idle7 == x7 = Idle /\ Idle8
Idle6 == x6 = Idle /\ Idle7
Idle4 == x4 = Idle /\ x5 = Idle /\ Idle6
Idle3 == x3 = Idle /\ Idle4
-----------------------------------------------------------------------------
(* ext2 on a disk of two groups of five blocks: files written, removed and *)
(* found again after a restart; and the directory read while it changes.   *)
Ext2Files == INSTANCE Ext2 WITH
  fs <- x1, opened <- x2, dir <- x3, reboots <- x4, want <- x5,
  Names <- {"f", "g"}, Mark <- "f" :> 20 @@ "g" :> 30, Counts <- {3}, MaxSize <- 6,
  W <- 2, NDir <- 1, Groups <- {0, 1}, GroupBlocks <- 5, Meta <- {0, 1, 5}, RootBlock <- 2,
  Inodes <- 1 .. 4, Reserved <- {1, 2}, Slots <- 4, ReadsDir <- FALSE, MaxReboots <- 1
Ext2Dirs == INSTANCE Ext2 WITH
  fs <- x1, opened <- x2, dir <- x3, reboots <- x4, want <- x5,
  Names <- {"f", "g", "h"}, Mark <- "f" :> 20 @@ "g" :> 30 @@ "h" :> 40, Counts <- {3}, MaxSize <- 0,
  W <- 2, NDir <- 1, Groups <- {0, 1}, GroupBlocks <- 5, Meta <- {0, 1, 5}, RootBlock <- 2,
  Inodes <- 1 .. 5, Reserved <- {1, 2}, Slots <- 5, ReadsDir <- TRUE, MaxReboots <- 0

(* FAT with one file that winds through the disk.                          *)
FatFiles == INSTANCE Fat WITH
  fat <- x1, data <- x2, root <- x3, opened <- x4, dir <- x5, writes <- x6,
  N <- 5, Total <- 7, W <- 3, Stack <- {0, 3, 4, 7}, MaxWrites <- 2, Handles <- {1, 2}, Images <- {<<4, 3, 2, 6>>}

(* Disks of four and of eight sectors of two bytes, on which commands may   *)
(* fail: short requests, and some over more sectors than a track has.      *)
IdeErrors == INSTANCE Ide WITH
  present <- x1, disks <- x2, disk <- x3, ref <- x4, reg <- x5, req <- x6, requests <- x7, fault <- x8,
  SECTOR_SIZE <- 2, SectPerTrack <- 2, NumHeads <- 2, NumCyls <- 1, Lengths <- {1, 2, 4}, Tasks <- {1},
  MaxRequests <- 2, Errors <- TRUE
IdeLong == INSTANCE Ide WITH
  present <- x1, disks <- x2, disk <- x3, ref <- x4, reg <- x5, req <- x6, requests <- x7, fault <- x8,
  SECTOR_SIZE <- 2, SectPerTrack <- 2, NumHeads <- 2, NumCyls <- 2, Lengths <- {6}, Tasks <- {1},
  MaxRequests <- 2, Errors <- TRUE

(* Two streams, one of them read and written by bytes, on two files.       *)
Streams == INSTANCE Stdio WITH
  content <- x1, stream <- x2, ref <- x3, place <- x4, calls <- x5, wrong <- x6, fault <- x7,
  Streams <- {1, 2}, ByBytes <- {2}, Paths <- {"a", "c"}, FsOf <- "a" :> 1 @@ "c" :> 2,
  Modes <- {"r", "w", "r+", "a+"}, Sizes <- {1, 2}, NewLines <- {2}, BUFSIZ <- 1, MaxSize <- 2, MaxCalls <- 4

(* Three descriptors for files, a directory, devices of which one driver   *)
(* is missing, and a socket; two structures for them.                      *)
Files == INSTANCE Io WITH
  files <- x1, struct <- x2, exist <- x3, entries <- x4, socks <- x5, known <- x6, dirs <- x7, fault <- x8,
  MaxFiles <- 3, Structs <- {1, 2}, Paths <- 11 .. 15,
  Kind <- [p \in 11 .. 15 |-> IF p \in {14, 15} THEN "device" ELSE "file"],
  FileSystem <- {11, 12}, Directories <- {12}, Drivers <- {14}, Socks <- {21}, Size <- 1
-----------------------------------------------------------------------------
(* Three tasks select over three descriptors, one with a timeout.          *)
Selectors == INSTANCE Select WITH
  status <- x1, pc <- x2, timed_out <- x3, timer <- x4, sel_q <- x5, current <- x6, waiting <- x7, fault <- x8,
  Tasks <- {1, 2, 3}, Priority <- <<1, 0, 2>>,
  Watches <- << {<<4, "r">>, <<5, "w">>}, {<<4, "r">>}, {<<6, "r">>} >>,
  Timed <- {3}, Members <- {1}, Masks <- {{1}, {2}, {1, 3}}, events_mask <- {1, 2}

Uart16x50 == INSTANCE Serial WITH
  rx <- x1, arrived <- x2, int <- x3, rx_wait <- x4, pc <- x5, got <- x6, tx <- x7, line <- x8, wpos <- x9,
  wlen <- x10, wpc <- x11, Kind <- "16x50",
  Readers <- {1}, RxDepth <- 2, TxDepth <- 2, MaxBytes <- 5, Text <- <<"a", "\n", "b">>, Length <- 2
UartPolled == INSTANCE Serial WITH
  rx <- x1, arrived <- x2, int <- x3, rx_wait <- x4, pc <- x5, got <- x6, tx <- x7, line <- x8, wpos <- x9,
  wlen <- x10, wpc <- x11, Kind <- "poll",
  Readers <- {1}, RxDepth <- 2, TxDepth <- 2, MaxBytes <- 5, Text <- <<"a", "\n", "b">>, Length <- 2
UartPl011 == INSTANCE Serial WITH
  rx <- x1, arrived <- x2, int <- x3, rx_wait <- x4, pc <- x5, got <- x6, tx <- x7, line <- x8, wpos <- x9,
  wlen <- x10, wpc <- x11, Kind <- "pl011",
  Readers <- {1}, RxDepth <- 2, TxDepth <- 2, MaxBytes <- 5, Text <- <<"a", "\n", "b">>, Length <- 2

(* Two keys, two shifts, Alt and Caps Lock; a reader that polls, and one   *)
(* that waits.                                                             *)
KeysPolled == INSTANCE Keyboard WITH
  wire <- x1, held <- x2, locks <- x3, num_bytes <- x4, scan_code <- x5, shift_status <- x6, kbd_q <- x7,
  head <- x8, tail <- x9, pc <- x10, kept <- x11, got <- x12, events <- x13,
  scan_tbl <- {30, 31}, Modifier <- 42 :> "lshift" @@ 54 :> "rshift" @@ 56 :> "lalt", Lock <- 58 :> "caps",
  Extended <- {56, 72}, KBD_BUF_LEN <- 3, MaxEvents <- 4, Blocking <- FALSE
KeysAwaited == INSTANCE Keyboard WITH
  wire <- x1, held <- x2, locks <- x3, num_bytes <- x4, scan_code <- x5, shift_status <- x6, kbd_q <- x7,
  head <- x8, tail <- x9, pc <- x10, kept <- x11, got <- x12, events <- x13,
  scan_tbl <- {30, 31}, Modifier <- 42 :> "lshift" @@ 54 :> "rshift" @@ 56 :> "lalt", Lock <- 58 :> "caps",
  Extended <- {56}, KBD_BUF_LEN <- 3, MaxEvents <- 4, Blocking <- TRUE

(* A terminal inside the screen and one of one line.                       *)
Screen == INSTANCE Terminal WITH
  term <- x1, buf <- x2, cursor <- x3, written <- x4, text <- x5, place <- x6, bottom <- x7,
  Terms <- {1, 2}, Left <- <<2, 0>>, Top <- <<1, 0>>, Width <- <<9, 8>>, Height <- <<2, 1>>, Page <- <<0, 1>>,
  SCREEN_WIDTH <- 11, Cells <- 33, Unix <- TRUE, MaxChars <- 4
-----------------------------------------------------------------------------
(* Processes that exec and wait, and processes that exit and signal.       *)
Waits == INSTANCE Exec WITH
  state <- x1, priv <- x2, running <- x3, ready <- x4, mem <- x5, status <- x6, exited <- x11, result <- x7, sent <- x8,
  handled <- x9, fault <- x10, Tasks <- {1, 2, 3}, Signals <- {16}, QueueSize <- 2, Argc <- 2, Envc <- 1,
  MaxSent <- 2, Delivers <- TRUE, Codes <- {0, 12}, Exits <- FALSE, Timeshare <- TRUE
Exiting == INSTANCE Exec WITH
  state <- x1, priv <- x2, running <- x3, ready <- x4, mem <- x5, status <- x6, exited <- x11, result <- x7, sent <- x8,
  handled <- x9, fault <- x10, Tasks <- {1, 2, 3}, Signals <- {16}, QueueSize <- 2, Argc <- 2, Envc <- 1,
  MaxSent <- 2, Delivers <- TRUE, Codes <- {0, 12}, Exits <- TRUE, Timeshare <- FALSE

Pthreads == INSTANCE Threads WITH
  thread <- x1, prm <- x2, memory <- x3, latch <- x4, now <- x5, created <- x6, asked <- x7, ran <- x8, fault <- x9,
  waitq <- x10,
  Threads <- {1, 2, 3}, Main <- 1, Priorities <- {0, 1}, Seconds <- {1, 2}, TICKS_PER_SEC <- 2, Blocks <- 6,
  MaxTicks <- 4, MaxCreated <- 2

Str == INSTANCE Strings WITH
  mem <- x1, wrong <- x2, Cells <- 4, Chars <- {0, 65, 97}, UpperOf <- [c \in {0, 65, 97} |-> IF c = 97 THEN 65 ELSE c], Counts <- 0 .. 3
Fmt == INSTANCE Format WITH
  text <- x1, printed <- x2, wrong <- x3, IntBits <- 4, Wide <- 6, Widths <- {0, 5}, Precisions <- {0, 3}

(* Formats of up to three directives on texts of up to three characters,   *)
(* and addresses of up to five parts, some of them none.                   *)
Directives == {"blank", "letter", "%d", "%u", "%c", "%s", "%%", "%n"}
Texts == UNION {[1 .. n -> {1, 100, 102, 103, 104}] : n \in 0 .. 3}
AddressParts == {<<>>, <<7>>, <<2, 5, 5>>, <<2, 5, 6>>, <<0, 0, 0, 1>>, <<104>>}
Scanner == INSTANCE Scan WITH
  text <- x1, wrong <- x2, Texts <- Texts, Formats <- UNION {[1 .. n -> Directives] : n \in 1 .. 3},
  Parts <- UNION {[1 .. n -> AddressParts] : n \in 1 .. 5}, Bytes <- {0, 10, 99, 100, 255}

(* Boots in a year after and in a leap year; days at both ends of years and*)
(* months, in 1970, 1973, 1975 and 2004.                                   *)
Clock == INSTANCE Calendar WITH
  rtc <- x1, seconds <- x2, read <- x3, system_time <- x4, tm <- x5, using <- x6,
  Tasks <- {1, 2}, Starts <- {1234530312, 1229332453}, MaxSeconds <- 3,
  Times <- {0, 86400 * 365 - 1, 86400 * 59, 86400 * 1154, 86400 * 2000, 86400 * 12778}
-----------------------------------------------------------------------------
DevicesInit == Init /\
  \/ part = "ext2 files" /\ Ext2Files!Init /\ Idle6
  \/ part = "ext2 directories" /\ Ext2Dirs!Init /\ Idle6
  \/ part = "fat" /\ FatFiles!Init /\ Idle7
  \/ part = "ide errors" /\ IdeErrors!Init /\ Idle9
  \/ part = "ide long" /\ IdeLong!Init /\ Idle9
  \/ part = "stdio" /\ Streams!Init /\ Idle8
  \/ part = "io" /\ Files!Init /\ Idle9
  \/ part = "select" /\ Selectors!Init /\ Idle9
  \/ part = "switch" /\ x1 = Idle /\ x2 = Idle /\ Idle3
  \/ part = "16x50" /\ Uart16x50!Init /\ Idle12
  \/ part = "polled uart" /\ UartPolled!Init /\ Idle12
  \/ part = "pl011" /\ UartPl011!Init /\ Idle12
  \/ part = "keys polled" /\ KeysPolled!Init
  \/ part = "keys awaited" /\ KeysAwaited!Init
  \/ part = "terminal" /\ Screen!Init /\ Idle8
  \/ part = "wait" /\ Waits!Init /\ Idle12
  \/ part = "exit" /\ Exiting!Init /\ Idle12
  \/ part = "threads" /\ Pthreads!Init /\ Idle11
  \/ part = "strings" /\ Str!Init /\ Idle3
  \/ part = "format" /\ Fmt!Init /\ Idle4
  \/ part = "scan" /\ Scanner!Init /\ Idle3
  \/ part = "calendar" /\ Clock!Init /\ Idle7

DevicesNext ==
  \/ part = "ext2 files" /\ Ext2Files!Next /\ UNCHANGED <<part, From6>>
  \/ part = "ext2 directories" /\ Ext2Dirs!Next /\ UNCHANGED <<part, From6>>
  \/ part = "fat" /\ FatFiles!Next /\ UNCHANGED <<part, From7>>
  \/ part = "ide errors" /\ IdeErrors!Next /\ UNCHANGED <<part, From9>>
  \/ part = "ide long" /\ IdeLong!Next /\ UNCHANGED <<part, From9>>
  \/ part = "stdio" /\ Streams!Next /\ UNCHANGED <<part, From8>>
  \/ part = "io" /\ Files!Next /\ UNCHANGED <<part, From9>>
  \/ part = "select" /\ Selectors!Next /\ UNCHANGED <<part, From9>>
  \/ part = "switch" /\ Next /\ UNCHANGED <<part, XVars>>
  \/ part = "16x50" /\ Uart16x50!Next /\ UNCHANGED <<part, From12>>
  \/ part = "polled uart" /\ UartPolled!Next /\ UNCHANGED <<part, From12>>
  \/ part = "pl011" /\ UartPl011!Next /\ UNCHANGED <<part, From12>>
  \/ part = "keys polled" /\ KeysPolled!Next /\ UNCHANGED <<part, vars>>
  \/ part = "keys awaited" /\ KeysAwaited!Next /\ UNCHANGED <<part, vars>>
  \/ part = "terminal" /\ Screen!Next /\ UNCHANGED <<part, From8>>
  \/ part = "wait" /\ Waits!Next /\ UNCHANGED <<part, From12>>
  \/ part = "exit" /\ Exiting!Next /\ UNCHANGED <<part, From12>>
  \/ part = "threads" /\ Pthreads!Next /\ UNCHANGED <<part, From11>>
  \/ part = "strings" /\ Str!Next /\ UNCHANGED <<part, From3>>
  \/ part = "format" /\ Fmt!Next /\ UNCHANGED <<part, From4>>
  \/ part = "scan" /\ Scanner!Next /\ UNCHANGED <<part, From3>>
  \/ part = "calendar" /\ Clock!Next /\ UNCHANGED <<part, From7>>

DevicesSpec == DevicesInit /\ [][DevicesNext]_<<part, x1, x2, From3>>
-----------------------------------------------------------------------------
(* Data stays as it was written: in the files of ext2, also when the system*)
(* starts again, of FAT and of stdio streams, and in the sectors of a disk;*)
(* and who reads a directory to the end has seen every file that was there.*)
FilesKeepData ==
  /\ part = "ext2 files" => Ext2Files!TypeOK /\ Ext2Files!FilesKeepData
  /\ part = "ext2 directories" => Ext2Dirs!TypeOK /\ Ext2Dirs!FilesKeepData /\ Ext2Dirs!DirectoryWhollyRead
  /\ part = "fat" => FatFiles!TypeOK /\ FatFiles!FilesKeepData
  /\ part = "ide errors" => IdeErrors!TypeOK /\ IdeErrors!DiskKeepsData
  /\ part = "ide long" => IdeLong!TypeOK /\ IdeLong!DiskKeepsData
  /\ part = "stdio" => Streams!TypeOK /\ Streams!FilesKeepData

(* No block of an ext2 disk, no cluster of a FAT disk is in two files, or  *)
(* in one and free.                                                        *)
BlocksOwnedOnce ==
  /\ part = "ext2 files" => Ext2Files!BlocksOwnedOnce
  /\ part = "ext2 directories" => Ext2Dirs!BlocksOwnedOnce
  /\ part = "fat" => FatFiles!ChainsApart

(* What a serial line, a keyboard or a terminal takes in comes out, each   *)
(* byte once and in order, and a key with the shifts held when it was hit. *)
BytesInOrder ==
  /\ part = "16x50" => Uart16x50!TypeOK /\ Uart16x50!BytesInOrder /\ Uart16x50!SentInOrder
  /\ part = "polled uart" => UartPolled!TypeOK /\ UartPolled!BytesInOrder /\ UartPolled!SentInOrder
  /\ part = "pl011" => UartPl011!TypeOK /\ UartPl011!BytesInOrder /\ UartPl011!SentInOrder
  /\ part = "keys polled" => KeysPolled!TypeOK /\ KeysPolled!KeysInOrder /\ KeysPolled!ShiftAsHeld
  /\ part = "keys awaited" => KeysAwaited!TypeOK /\ KeysAwaited!KeysInOrder /\ KeysAwaited!ShiftAsHeld
  /\ part = "terminal" => Screen!TypeOK /\ Screen!ShowsItsText

(* An open descriptor, and only one, has a structure, that of what was     *)
(* opened, and its counts tell how many hold it (io.c).                    *)
DescriptorsSound ==
  /\ part = "io" => Files!TypeOK /\ Files!DescriptorsSound

(* Nobody sleeps on what already happened: a task in select() whose        *)
(* descriptor is ready or whose time is up, a reader of a serial line that *)
(* holds data, a task in sleep() that is due; and no timer outlives its    *)
(* sleeper.                                                                *)
WaitersWake ==
  /\ part = "select" => Selectors!TypeOK /\ Selectors!ReadySelectorsWake /\ Selectors!EventsMulWakes /\ Selectors!NoStrayTimer
  /\ part = "16x50" => Uart16x50!NobodySleepsOverData
  /\ part = "polled uart" => UartPolled!NobodySleepsOverData
  /\ part = "pl011" => UartPl011!NobodySleepsOverData
  /\ part = "threads" => Pthreads!TypeOK /\ Pthreads!SleepersWake

(* A process or thread runs with what it was given, who waits for it gets  *)
(* its end, and it leaves nothing behind.                                  *)
ProcessesReaped ==
  /\ part = "wait" => Waits!TypeOK /\ Waits!ProcessesReaped /\ Waits!NothingLeftOver
  /\ part = "exit" => Exiting!TypeOK /\ Exiting!ProcessesReaped /\ Exiting!NothingLeftOver
  /\ part = "threads" => Pthreads!ThreadsRunAsAsked

(* String calls, scans, conversions of numbers, addresses and time give    *)
(* what the C standard says they give.                                     *)
CallsAgree ==
  /\ part = "strings" => Str!TypeOK /\ Str!CallsAgree
  /\ part = "format" => Fmt!TypeOK /\ Fmt!CallsAgree
  /\ part = "scan" => Scanner!TypeOK /\ Scanner!ScansAgree
  /\ part = "calendar" => Clock!TypeOK /\ Clock!ClockAgrees
=============================================================================
