--------------------------------- MODULE Io ---------------------------------
(***************************************************************************)
(* File descriptors (posix/io.c) and the calls of the device manager under *)
(* them (base/devman.c): what a descriptor refers to, who frees it, and    *)
(* which descriptors a failed call takes out of use.                       *)
(*                                                                         *)
(* Descriptors and their structures are shared by all tasks; the calls are *)
(* taken as atomic.  Careful assumes of the clients what the code does not *)
(* check: they duplicate only descriptors of files (a structure of another *)
(* kind has no count and is freed by the first close), and dup2() only     *)
(* onto a free descriptor (it closes the file under an open one without    *)
(* counting).  Pipes and FIFOs never get a structure; their descriptors    *)
(* can be made but not used or closed.                                     *)
(***************************************************************************)
EXTENDS Integers, FiniteSets, FiniteSetsExt

CONSTANTS
  MaxFiles,     \* MAX_FILES
  Structs,      \* addresses of reg_file, dev_file and sock_file structures
  Paths,        \* the paths clients name
  Kind,         \* what get_file_type() makes of each: "file" or "device"
  FileSystem,   \* the paths under a mount point
  Directories,  \* the files that are directories
  Drivers,      \* the devices in dev_tbl
  Socks,        \* entries of psockets
  Size,         \* the length of every file
  Careful

NULL == 0

VARIABLES
  files,        \* files[]: file_type and file_struct
  struct,       \* the allocated structures
  exist,        \* the files that exist
  entries,      \* fs_entry structures the file systems hold for open files
  socks,        \* psockets in use
  known,        \* the descriptors clients hold
  dirs,         \* the DIR pointers clients hold

  fault         \* a freed structure was used
vars == <<files, struct, exist, entries, socks, known, dirs, fault>>

Fds == 0 .. MaxFiles - 1
Types == {"none", "file", "device", "socket", "pipe", "fifo"}
Absent == [kind |-> "free", count |-> 0, pos |-> 0, refers |-> NULL]
NewFile == [kind |-> "file", count |-> 1, pos |-> 0, refers |-> NULL]
NewDevice(p) == [kind |-> "device", count |-> 0, pos |-> 0, refers |-> p]
NewSocket(s) == [kind |-> "socket", count |-> 0, pos |-> 0, refers |-> s]

FreeFds == {fd \in Fds : files[fd].type = "none"}
LowestFd == Min(FreeFds)
FreeStructs == {a \in Structs : struct[a].kind = "free"}
Slot(type, a) == [type |-> type, struct |-> a]
ClosedSlot == Slot("none", NULL)
At(fd) == files[fd].struct
dataVars == <<exist, entries, socks>>

(* A call that failed after it had chosen fd, leaving its type as written. *)
Fails(fd, type) ==
  /\ files' = [files EXCEPT ![fd].type = type]
  /\ UNCHANGED <<struct, known, dirs, fault>>
(* A call that made structure a, of contents st, behind fd.                *)
Makes(fd, type, a, st) ==
  /\ files' = [files EXCEPT ![fd] = Slot(type, a)]
  /\ struct' = [struct EXCEPT ![a] = st]
  /\ known' = known \cup {fd}
  /\ UNCHANGED <<dirs, fault>>
-----------------------------------------------------------------------------
(* init_io() opens the three standard devices on a zeroed table.           *)
Init ==
  /\ files = [fd \in Fds |-> ClosedSlot]
  /\ struct = [a \in Structs |-> Absent]
  /\ exist \in {{}, {p \in FileSystem : Kind[p] = "file"}}
  /\ entries = {} /\ socks = {} /\ known = {} /\ dirs = {}
  /\ fault = FALSE

(* open() of a file: O_TRUNC unlinks it first; a failed open creates it    *)
(* for writers.  calloc() or the file system may fail.                     *)
OpenFile(p, creates, truncates) ==
  /\ Kind[p] = "file" /\ FreeFds # {}
  /\ UNCHANGED socks
  /\ \/ /\ p \notin FileSystem
        /\ Fails(LowestFd, "none") /\ UNCHANGED <<exist, entries>>
     \/ /\ p \in FileSystem
        /\ LET left == IF truncates THEN exist \ {p} ELSE exist IN
           \/ /\ p \in left \/ creates
              /\ exist' = left \cup {p}
              /\ \/ \E a \in FreeStructs :
                      /\ Makes(LowestFd, "file", a, NewFile)
                      /\ entries' = entries \cup {a}
                 \/ Fails(LowestFd, "none") /\ UNCHANGED entries
           \/ /\ exist' = left
              /\ Fails(LowestFd, "none") /\ UNCHANGED entries

(* open_drv(): a driver with an open entry, and it may refuse too.         *)
OpenDrv(p) == p \in Drivers
(* open() of a device: an unknown name or a driver that refuses leaves the *)
(* descriptor typed, with no structure to close it by.                     *)
OpenDevice(p) ==
  /\ Kind[p] = "device" /\ FreeFds # {}
  /\ UNCHANGED dataVars
  /\ \/ Fails(LowestFd, "device")
     \/ /\ OpenDrv(p)
        /\ \/ \E a \in FreeStructs : Makes(LowestFd, "device", a, NewDevice(p))
           \/ Fails(LowestFd, "none")

(* socket(): open_socket() takes the lowest free socket first, and keeps   *)
(* it when no descriptor or no memory is left for it.                      *)
OpenSocket ==
  \E s \in Socks \ socks :
    /\ socks' = socks \cup {s}
    /\ UNCHANGED <<exist, entries>>
    /\ \/ /\ FreeFds # {}
          /\ \E a \in FreeStructs : Makes(LowestFd, "socket", a, NewSocket(s))
       \/ UNCHANGED <<files, struct, known, dirs, fault>>

(* pipe(): the second search finds the descriptor of the first again, and  *)
(* neither is given its structure.                                         *)
Pipe ==
  /\ FreeFds # {}
  /\ Fails(LowestFd, "pipe") /\ UNCHANGED dataVars
Fifo ==
  /\ FreeFds # {}
  /\ Fails(LowestFd, "fifo") /\ UNCHANGED dataVars

(* Using the structure behind fd; a freed one is a fault.                  *)
Uses(fd) == IF At(fd) # NULL /\ struct[At(fd)].kind = "free" THEN TRUE ELSE fault

CloseUncounted(fd) ==                      \* mutant: the first close frees
  /\ struct' = [struct EXCEPT ![At(fd)] = Absent]
  /\ entries' = entries \ {At(fd)}
CloseFile(fd) ==
  IF struct[At(fd)].count = 1
  THEN /\ struct' = [struct EXCEPT ![At(fd)] = Absent]
       /\ entries' = entries \ {At(fd)}
  ELSE /\ struct' = [struct EXCEPT ![At(fd)].count = @ - 1]
       /\ UNCHANGED entries
(* close(): a driver may refuse; close_socket() may too.                   *)
CloseOther(fd) ==
  /\ struct' = [struct EXCEPT ![At(fd)] = Absent]
  /\ socks' = IF files[fd].type = "socket" THEN socks \ {struct[At(fd)].refers}
                                           ELSE socks
  /\ UNCHANGED entries
Close(fd) ==
  /\ fd \in known /\ At(fd) # NULL /\ ~fault
  /\ fault' = Uses(fd)
  /\ known' = known \ {fd}
  /\ files' = [files EXCEPT ![fd] = ClosedSlot]
  /\ IF fault' THEN UNCHANGED <<struct, entries, socks>>
     ELSE \/ files[fd].type = "file" /\ CloseFile(fd) /\ UNCHANGED socks
          \/ files[fd].type \in {"device", "socket"} /\ CloseOther(fd)
  /\ UNCHANGED <<exist, dirs>>

(* read(), write() and lseek(): the position belongs to the structure and  *)
(* is shared by the duplicates of a descriptor.                            *)
Transfer(fd, n) ==
  /\ fd \in known /\ files[fd].type = "file" /\ At(fd) # NULL /\ ~fault
  /\ fault' = Uses(fd)
  /\ struct' = IF fault' THEN struct
               ELSE [struct EXCEPT ![At(fd)].pos = Min({@ + n, Size})]
  /\ UNCHANGED <<files, known, dirs, dataVars>>
Lseek(fd, offset) ==
  /\ fd \in known /\ files[fd].type = "file" /\ At(fd) # NULL /\ ~fault
  /\ fault' = Uses(fd)
  /\ struct' = IF fault' THEN struct ELSE [struct EXCEPT ![At(fd)].pos = offset]
  /\ UNCHANGED <<files, known, dirs, dataVars>>

CountDuplicate(old, a) ==
  struct' = IF files[old].type = "file" THEN [struct EXCEPT ![a].count = @ + 1]
                                        ELSE struct
(* dup() returns 0 for success: the client knows the new descriptor only   *)
(* because it is the lowest free one.                                      *)
Dup(old) ==
  /\ old \in known /\ At(old) # NULL /\ FreeFds # {} /\ ~fault
  /\ Careful => files[old].type = "file"
  /\ files' = [files EXCEPT ![LowestFd] = files[old]]
  /\ known' = known \cup {LowestFd}
  /\ CountDuplicate(old, At(old))
  /\ UNCHANGED <<dirs, dataVars, fault>>
Dup2(old, new) ==
  /\ old \in known /\ At(old) # NULL /\ ~fault
  /\ Careful => files[old].type = "file" /\ files[new] = ClosedSlot
  /\ entries' = entries \ {At(new)}
  /\ files' = [files EXCEPT ![new] = files[old]]
  /\ known' = known \cup {new}
  /\ CountDuplicate(old, At(old))
  /\ UNCHANGED <<exist, socks, dirs, fault>>

Unlink(p) ==
  /\ p \in exist
  /\ exist' = exist \ {p}
  /\ UNCHANGED <<files, struct, entries, socks, known, dirs, fault>>
-----------------------------------------------------------------------------
(* opendir(): every failure leaves the descriptor typed.  closedir() frees *)
(* the structure and leaves the descriptor pointing to it.                 *)
OpenDir(p) ==
  /\ FreeFds # {} /\ UNCHANGED <<exist, socks, known>>
  /\ \/ /\ files' = [files EXCEPT ![LowestFd].type = Kind[p]]
        /\ UNCHANGED <<struct, entries, dirs, fault>>
     \/ /\ p \in exist \cap Directories
        /\ \E a \in FreeStructs :
             /\ files' = [files EXCEPT ![LowestFd] = Slot("file", a)]
             /\ struct' = [struct EXCEPT ![a] = NewFile]
             /\ entries' = entries \cup {a}
        /\ dirs' = dirs \cup {LowestFd}
        /\ UNCHANGED fault
CloseDir(fd) ==
  /\ fd \in dirs /\ ~fault
  /\ struct' = [struct EXCEPT ![At(fd)] = Absent]
  /\ entries' = entries \ {At(fd)}
  /\ dirs' = dirs \ {fd}
  /\ fault' = Uses(fd)
  /\ UNCHANGED <<files, known, exist, socks>>

Next ==
  \/ \E p \in Paths : \/ \E c, t \in BOOLEAN : OpenFile(p, c, t)
                      \/ OpenDevice(p) \/ OpenDir(p) \/ Unlink(p)
  \/ OpenSocket \/ Pipe \/ Fifo
  \/ \E fd \in Fds : \/ Close(fd) \/ Dup(fd) \/ CloseDir(fd)
                     \/ \E n \in 1 .. Size : Transfer(fd, n)
                     \/ \E o \in 0 .. Size : Lseek(fd, o)
                     \/ \E new \in Fds : Dup2(fd, new)

Spec == Init /\ [][Next]_vars
-----------------------------------------------------------------------------
TypeOK ==
  /\ files \in [Fds -> [type : Types, struct : Structs \cup {NULL}]]
  /\ struct \in [Structs -> [kind : {"free", "file", "device", "socket"},
                             count : 0 .. MaxFiles, pos : 0 .. Size,
                             refers : Paths \cup Socks \cup {NULL}]]
  /\ exist \subseteq Paths /\ entries \subseteq Structs /\ socks \subseteq Socks
  /\ known \subseteq Fds /\ dirs \subseteq Fds
  /\ fault \in BOOLEAN

(* What a client may use is there: every descriptor it holds refers to an  *)
(* allocated structure of the descriptor's kind, an open file is closed in *)
(* its file system exactly when its last descriptor is closed, and no two  *)
(* descriptors share a device or a socket.                                 *)
DescriptorsSound ==
  /\ ~fault
  /\ \A fd \in known \cup dirs :
       /\ At(fd) # NULL
       /\ struct[At(fd)].kind = files[fd].type
       /\ files[fd].type = "file" => At(fd) \in entries
       /\ files[fd].type # "file" =>
            \A other \in known \ {fd} : At(other) # At(fd)
  /\ \A a \in entries :
       struct[a].count = Cardinality({fd \in known \cup dirs : At(fd) = a})
=============================================================================
