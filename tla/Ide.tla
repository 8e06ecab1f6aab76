---------------------------------- MODULE Ide ----------------------------------
(***************************************************************************)
(* drivers/bus/ide/ide.c: reading and writing a disk through the registers *)
(* of one IDE bus, polled.  A request is cut into a fragment up to the     *)
(* next sector, runs of sectors within a track, and a last fragment.  The  *)
(* drive works between the steps of the processor.                         *)
(*                                                                         *)
(* Careful assumes requests that are whole sectors or lie in one sector,   *)
(* as the file systems make them, and one request at a time; that the drive*)
(* has the later sectors of a read ready before the processor comes for    *)
(* them, without an error, for nobody looks (ide.c:570-578); and no error  *)
(* in a last fragment.                                                     *)
(***************************************************************************)
EXTENDS Integers, Sequences, SequencesExt, FiniteSets

CONSTANTS
  SECTOR_SIZE, SectPerTrack, NumHeads, NumCyls,
  Lengths,      \* lengths of requests
  Tasks,        \* tasks that make them
  MaxRequests,  \* bound: requests made
  Errors,       \* commands may fail
  Careful

VARIABLES
  present,      \* the drives on the bus
  disks,        \* disks[]: the drives ide_init() found
  disk,         \* what the drives hold: drive -> byte
  ref,          \* what they should hold
  reg,          \* the drive's side: its status, command, place and count
  req,          \* the request of each task, and how far it is
  requests,     \* requests made
  fault         \* a command for no sectors, or memory that is not the caller's

vars == <<present, disks, disk, ref, reg, req, requests, fault>>

Drives == {0, 1}
Total == SECTOR_SIZE * SectPerTrack * NumHeads * NumCyls
Places == 0 .. Total - 1
Sector(d, lba, data) ==
  [i \in Places |-> IF i \div SECTOR_SIZE = lba THEN data[i % SECTOR_SIZE] ELSE d[i]]
Content(d, lba) == [i \in 0 .. SECTOR_SIZE - 1 |->
  IF (lba * SECTOR_SIZE) + i \in Places THEN d[(lba * SECTOR_SIZE) + i] ELSE -1]
Garbage == [i \in 0 .. SECTOR_SIZE - 1 |-> -1]

(* The cylinder, head and sector of an offset, and the sector the drive    *)
(* makes of them: four bits of head reach it.                              *)
Chs(offs) ==
  LET track == SECTOR_SIZE * SectPerTrack
      cyl == offs \div (track * NumHeads)
      head == (offs - (cyl * track * NumHeads)) \div track
  IN [cyl |-> cyl, head |-> head,
      sector |-> ((offs - (cyl * track * NumHeads) - (head * track)) \div SECTOR_SIZE) + 1]
Lba(c) == ((c.cyl * NumHeads + (c.head % 16)) * SectPerTrack) + c.sector - 1

Idle == [status |-> "idle", kind |-> "none", drive |-> 0, lba |-> 0, left |-> 0,
         data |-> Garbage]
NoRequest == [pc |-> "idle"]

(* ide_init: the drives that answer "identify", in order.                  *)
Scan(there) == SelectSeq(<<0, 1>>, LAMBDA d : d \in there)

Init ==
  /\ present \in (SUBSET Drives) \ {{}}
  /\ disks = Scan(present)
  /\ disk = [d \in Drives |-> [i \in Places |-> i]]
  /\ ref = disk
  /\ reg = Idle
  /\ req = [t \in Tasks |-> NoRequest]
  /\ requests = 0 /\ fault = FALSE
-----------------------------------------------------------------------------
(* The requests the file systems make.                                     *)
Plain(offs, len) ==
  \/ (offs % SECTOR_SIZE = 0 /\ len % SECTOR_SIZE = 0)
  \/ (offs % SECTOR_SIZE) + len <= SECTOR_SIZE

(* ide_disk_read and ide_disk_write: their check refuses the last byte of  *)
(* the disk too.                                                           *)
Refused(offs, len) == offs + len >= Total

Request(t, n, op, offs, len) ==
  /\ req[t].pc \in {"idle", "done"} /\ requests < MaxRequests /\ ~fault
  /\ Careful => /\ Plain(offs, len)
                /\ \A u \in Tasks : req[u].pc \in {"idle", "done"}
  /\ requests' = requests + 1
  /\ LET given == [i \in 0 .. len - 1 |->
                     IF op = "write" THEN 100 * (requests + 1) + i ELSE -1]
     IN /\ req' = [req EXCEPT ![t] =
               [pc |-> IF Refused(offs, len) THEN "done" ELSE "next",
                result |-> -1, op |-> op, drive |-> disks[n],
                from |-> offs, size |-> len, buf |-> given,
                offs |-> offs, len |-> len, ptr |-> 0, tmp |-> Garbage,
                sub |-> "none", lba |-> 0, count |-> 0, j |-> 0]]
        /\ ref' = IF op = "write" /\ ~Refused(offs, len)
                    THEN [ref EXCEPT ![disks[n]] = [i \in Places |->
                            IF i \in offs .. offs + len - 1 THEN given[i - offs] ELSE @[i]]]
                    ELSE ref
  /\ UNCHANGED <<present, disks, disk, reg, fault>>

Part(r) == IF r.offs % SECTOR_SIZE # 0 THEN "head"
           ELSE IF r.len > SECTOR_SIZE THEN "middle" ELSE "tail"
Min2(a, b) == IF a < b THEN a ELSE b
NumSectors(r) ==
  Min2((r.len \div SECTOR_SIZE) - 1, SectPerTrack - Chs(r.offs).sector + 1)

(* The next command: a fragment is read first, also to be written.         *)
NextPart(t) ==
  /\ req[t].pc = "next" /\ req[t].len > 0 /\ ~fault
  /\ LET r == req[t]
         n == IF Part(r) = "middle" THEN NumSectors(r) ELSE 1
     IN /\ req' = [req EXCEPT ![t].pc = "command",
                              ![t].sub = IF Part(r) = "middle" THEN r.op ELSE "read",
                              ![t].lba = Lba(Chs(r.offs)), ![t].count = n, ![t].j = 0]
        /\ fault' = (n = 0)
  /\ UNCHANGED <<present, disks, disk, ref, reg, requests>>

(* ide_seek, the parameter registers and the command: each waits for a     *)
(* drive that is not busy, no more.                                        *)
Command(t) ==
  /\ req[t].pc = "command" /\ reg.status # "busy" /\ ~fault
  /\ reg' = [status |-> "busy", kind |-> req[t].sub, drive |-> req[t].drive,
             lba |-> req[t].lba, left |-> req[t].count, data |-> Garbage]
  /\ req' = [req EXCEPT ![t].pc = "wait"]
  /\ UNCHANGED <<present, disks, disk, ref, requests, fault>>

Fail(t) == req' = [req EXCEPT ![t].pc = "done", ![t].result = -1]

(* The wait for the drive's request; an error ends it.  ide_disk_write()   *)
(* does not look at the result of writing the last fragment.               *)
Ready(t) ==
  /\ req[t].pc = "wait" /\ reg.status = "drq" /\ ~fault
  /\ req' = [req EXCEPT ![t].pc = "transfer"]
  /\ UNCHANGED <<present, disks, disk, ref, reg, requests, fault>>

LastUnchecked(r) == r.op = "write" /\ r.sub = "write" /\ Part(r) = "tail"

CommandFailed(t) ==
  /\ reg.status = "err" /\ ~fault
  /\ req[t].pc = "wait" \/ (req[t].pc = "transfer" /\ req[t].sub = "write")
  /\ reg' = Idle
  /\ IF LastUnchecked(req[t])
       THEN req' = [req EXCEPT ![t].pc = "done", ![t].result = 0] ELSE Fail(t)
  /\ ref' = IF LastUnchecked(req[t]) THEN ref ELSE disk
  /\ UNCHANGED <<present, disks, disk, requests, fault>>

(* The drive moves on to the next sector of the command, and is busy until *)
(* it has it or has room for it.                                           *)
AfterSector(g) ==
  IF g.left = 1 THEN Idle
  ELSE [g EXCEPT !.lba = @ + 1, !.left = @ - 1, !.status = "busy", !.data = Garbage]

(* ide_read_sectors: after the first request the words are read without    *)
(* looking at the status again.                                            *)
Store(r, data) ==
  IF Part(r) = "middle"
    THEN [r EXCEPT !.buf = [i \in DOMAIN r.buf |->
            IF i - r.ptr - r.j \in 0 .. SECTOR_SIZE - 1 THEN data[i - r.ptr - r.j] ELSE @[i]]]
    ELSE [r EXCEPT !.tmp = data]

ReadSector(t) ==
  /\ req[t].pc = "transfer" /\ req[t].sub = "read" /\ ~fault
  /\ Careful => reg.status = "drq"
  /\ LET r == Store(req[t], IF reg.status = "drq" THEN reg.data ELSE Garbage)
     IN /\ req' = [req EXCEPT ![t] = [r EXCEPT !.count = @ - 1, !.j = @ + SECTOR_SIZE,
                                     !.pc = IF r.count = 1 THEN "advance" ELSE "transfer"]]
        /\ fault' = (Part(r) = "middle" /\ r.ptr + r.j + SECTOR_SIZE > r.size)
  /\ reg' = IF reg.status = "drq" THEN AfterSector(reg) ELSE reg
  /\ UNCHANGED <<present, disks, disk, ref, requests>>

(* ide_write_sectors looks before every word.                              *)
Given(r) ==
  IF Part(r) = "middle"
    THEN [i \in 0 .. SECTOR_SIZE - 1 |-> IF r.ptr + r.j + i < r.size THEN r.buf[r.ptr + r.j + i] ELSE -1]
    ELSE r.tmp

WriteSector(t) ==
  /\ req[t].pc = "transfer" /\ req[t].sub = "write" /\ reg.status = "drq" /\ ~fault
  /\ disk' = [disk EXCEPT ![reg.drive] = Sector(@, reg.lba, Given(req[t]))]
  /\ reg' = AfterSector(reg)
  /\ req' = [req EXCEPT ![t].count = @ - 1, ![t].j = @ + SECTOR_SIZE,
                        ![t].pc = IF req[t].count = 1 THEN "advance" ELSE "transfer"]
  /\ fault' = (Part(req[t]) = "middle" /\ req[t].ptr + req[t].j + SECTOR_SIZE > req[t].size)
  /\ UNCHANGED <<present, disks, ref, requests>>

(* After the command: a fragment is copied or merged, and the place, the   *)
(* length and the buffer move on, the buffer by a whole sector after the   *)
(* first fragment, whatever its size.                                      *)
Piece(r) == IF Part(r) = "head" THEN Min2(SECTOR_SIZE - (r.offs % SECTOR_SIZE), r.len) ELSE r.len
At(r) == r.offs % SECTOR_SIZE
CopyOut(r) == [i \in DOMAIN r.buf |->
  IF i - r.ptr \in 0 .. Piece(r) - 1 THEN r.tmp[At(r) + i - r.ptr] ELSE r.buf[i]]
Merged(r) == [k \in 0 .. SECTOR_SIZE - 1 |->
  IF k - At(r) \in 0 .. Piece(r) - 1
    THEN IF r.ptr + k - At(r) < r.size THEN r.buf[r.ptr + k - At(r)] ELSE -1
    ELSE r.tmp[k]]
NextSector(r) == r.offs + SECTOR_SIZE - At(r)

MoveOn(r) ==
  CASE Part(r) = "middle" -> [r EXCEPT !.pc = "next", !.offs = @ + r.j, !.len = @ - r.j, !.ptr = @ + r.j]
    [] Part(r) = "head" -> [r EXCEPT !.pc = "next", !.offs = NextSector(r),
                                     !.len = @ - Piece(r), !.ptr = @ + SECTOR_SIZE]
    [] OTHER -> [r EXCEPT !.pc = "next", !.len = 0]

Advance(t) ==
  /\ req[t].pc = "advance" /\ ~fault
  /\ LET r == req[t] IN
     req' = [req EXCEPT ![t] =
       IF Part(r) # "middle" /\ r.op = "write" /\ r.sub = "read"
         THEN [r EXCEPT !.tmp = Merged(r), !.sub = "write", !.pc = "command", !.count = 1, !.j = 0]
       ELSE IF Part(r) # "middle" /\ r.op = "read" THEN MoveOn([r EXCEPT !.buf = CopyOut(r)])
       ELSE MoveOn(r)]
  /\ UNCHANGED <<present, disks, disk, ref, reg, requests, fault>>

Done(t) ==
  /\ req[t].pc = "next" /\ req[t].len = 0 /\ ~fault
  /\ req' = [req EXCEPT ![t].pc = "done", ![t].result = 0]
  /\ UNCHANGED <<present, disks, disk, ref, reg, requests, fault>>

(* The drive finishes what it is busy with: the next sector is ready, its  *)
(* buffer is free, or the command fails.                                   *)
DriveReady ==
  /\ reg.status = "busy"
  /\ reg' = [reg EXCEPT !.status = "drq",
                        !.data = IF reg.kind = "read" THEN Content(disk[reg.drive], reg.lba) ELSE @]
  /\ UNCHANGED <<present, disks, disk, ref, req, requests, fault>>

DriveFails ==
  /\ Errors /\ reg.status = "busy"
  /\ Careful => \A t \in Tasks : req[t].pc # "idle" =>
       ~LastUnchecked(req[t]) /\ ~(req[t].pc = "transfer" /\ req[t].sub = "read")
  /\ reg' = [reg EXCEPT !.status = "err"]
  /\ UNCHANGED <<present, disks, disk, ref, req, requests, fault>>

Next ==
  \/ \E t \in Tasks :
       \/ \E n \in 1 .. Len(disks), op \in {"read", "write"}, offs \in Places, len \in Lengths :
            Request(t, n, op, offs, len)
       \/ NextPart(t) \/ Command(t) \/ Ready(t) \/ CommandFailed(t)
       \/ ReadSector(t) \/ WriteSector(t) \/ Advance(t) \/ Done(t)
  \/ DriveReady \/ DriveFails

Spec == Init /\ [][Next]_vars
-----------------------------------------------------------------------------
TypeOK ==
  /\ present \subseteq Drives /\ requests \in 0 .. MaxRequests /\ fault \in BOOLEAN
  /\ reg.status \in {"idle", "busy", "drq", "err"}
  /\ \A t \in Tasks : req[t].pc \in {"idle", "next", "command", "wait", "transfer", "advance", "done"}

Succeeded(t) == req[t].pc = "done" /\ req[t].result = 0

(* The disk keeps what is written to it: a read that succeeds returns the  *)
(* bytes last written to its place, a write that succeeds changes just the *)
(* bytes it names, and neither leaves the caller's buffer.                 *)
DiskKeepsData ==
  /\ ~fault
  /\ \A t \in Tasks : Succeeded(t) =>
       IF req[t].op = "read"
         THEN req[t].buf = [i \in 0 .. req[t].size - 1 |-> ref[req[t].drive][req[t].from + i]]
         ELSE disk = ref
================================================================================
