------------------------------- MODULE Stdio -------------------------------
(***************************************************************************)
(* The streams of libc.c over the descriptors of io.c: fopen() and         *)
(* freopen(), reading and writing, positioning, buffering modes, and       *)
(* rename() and copy_file() across file systems.                           *)
(*                                                                         *)
(* A byte is the number of the call that wrote it.  The file systems are   *)
(* external: a file is a sequence of bytes, read and written at the        *)
(* descriptor's position.                                                  *)
(*                                                                         *)
(* Careful callers make a stream unbuffered as soon as they have it, write *)
(* a file through one stream at a time, never append to a file that has    *)
(* something in it, go back only to the start of a file, and rename to     *)
(* another file system only where there is no file yet and nothing fails.  *)
(***************************************************************************)
EXTENDS Integers, Sequences

CONSTANTS Streams,
          ByBytes,      \* the streams read with fgetc() and fgets()
          Paths,
          FsOf,         \* the file system of a path
          Modes,        \* the modes streams are opened with
          Sizes,        \* the sizes of an element
          NewLines,     \* the bytes that are newlines
          BUFSIZ,
          MaxSize,      \* bound on the size of a file
          MaxCalls,     \* bound on the calls that change a file
          Careful

VARIABLES
  content,      \* the files
  stream,       \* the FILE structures, each with its descriptor's position
  ref,          \* what the files should be
  place,        \* where the streams should be
  calls, wrong, fault

vars == <<content, stream, ref, place, calls, wrong, fault>>

NoFile == <<-1>>
Exists(p) == content[p] # NoFile
Min2(a, b) == IF a < b THEN a ELSE b
Overwrite(s, pos, data) ==
  [i \in 1 .. (IF pos + Len(data) > Len(s) THEN pos + Len(data) ELSE Len(s)) |->
     IF i \in pos + 1 .. pos + Len(data) THEN data[i - pos]
     ELSE IF i <= Len(s) THEN s[i] ELSE 0]
After(s, pos, n) == SubSeq(s, pos + 1, Min2(pos + n, Len(s)))

(* mode_to_pos: the flags of a mode and whether writing starts at the end. *)
Reads(m) == m \in {"r", "r+", "w+", "a+"}
Writes(m) == m # "r"
Truncates(m) == m \in {"w", "w+"}
AtEnd(m) == m \in {"a", "a+"}

Closed == [open |-> FALSE]
Open(s) == stream[s].open
Users(p) == {s \in Streams : Open(s) /\ stream[s].path = p}

Init ==
  /\ content = [p \in Paths |-> NoFile] /\ ref = content
  /\ stream = [s \in Streams |-> Closed]
  /\ place = [s \in Streams |-> 0]
  /\ calls = 0 /\ wrong = FALSE /\ fault = FALSE
-----------------------------------------------------------------------------
(* freopen(), and fopen(), which is freopen() of no stream.  A file that   *)
(* is truncated is unlinked and made again; whatever the mode, the         *)
(* descriptor starts at 0, and the stream is fully buffered.               *)
Freopen(s, p, m) ==
  /\ calls < MaxCalls /\ ~fault
  /\ Careful =>
       /\ \A t \in Users(p) \ {s} : ~Writes(m) /\ ~Writes(stream[t].mode)
       /\ AtEnd(m) /\ Exists(p) => content[p] = <<>>
  /\ LET found == Exists(p) /\ ~Truncates(m)
         made == IF found THEN content[p] ELSE <<>>
         start == IF AtEnd(m) THEN Len(made) ELSE 0
     IN IF found \/ Writes(m)
          THEN /\ content' = [content EXCEPT ![p] = made]
               /\ ref' = [ref EXCEPT ![p] = IF Exists(p) /\ ~Truncates(m) THEN @ ELSE <<>>]
               /\ stream' = [stream EXCEPT ![s] =
                    [open |-> TRUE, path |-> p, mode |-> m, pos |-> 0, rd_pos |-> 0,
                     wr_pos |-> start, buf_mode |-> "full",
                     eof |-> FALSE]]
               /\ place' = [place EXCEPT ![s] = start]
          ELSE /\ stream' = [stream EXCEPT ![s] = Closed]
               /\ place' = [place EXCEPT ![s] = 0]
               /\ UNCHANGED <<content, ref>>
  /\ calls' = calls + 1
  /\ UNCHANGED <<wrong, fault>>

(* fclose() closes the descriptor and writes nothing that is buffered.     *)
Fclose(s) ==
  /\ Open(s) /\ ~fault
  /\ stream' = [stream EXCEPT ![s] = Closed] /\ place' = [place EXCEPT ![s] = 0]
  /\ UNCHANGED <<content, ref, calls, wrong, fault>>

Setvbuf(s, mode) ==
  /\ Open(s) /\ stream[s].buf_mode # mode /\ ~fault
  /\ Careful => mode = "none"
  /\ stream' = [stream EXCEPT ![s].buf_mode = mode]
  /\ UNCHANGED <<content, ref, place, calls, wrong, fault>>

(* fread(): the two positions of the stream move together if they are the  *)
(* same; the end is noticed when it is reached.                            *)
Fread(s, n) ==
  /\ Open(s) /\ s \notin ByBytes /\ ~fault
  /\ Careful => Reads(stream[s].mode) /\ stream[s].buf_mode = "none"
  /\ LET f == stream[s]
         data == After(content[f.path], f.pos, n)
     IN /\ stream' = [stream EXCEPT ![s].pos = @ + Len(data),
                        ![s].rd_pos = @ + Len(data),
                        ![s].wr_pos = IF f.wr_pos = f.rd_pos THEN @ + Len(data) ELSE @,
                        ![s].eof = @ \/ f.rd_pos + Len(data) >= Len(content[f.path])]
        /\ wrong' = (wrong \/ data # After(ref[f.path], place[s], n))
  /\ place' = [place EXCEPT ![s] = @ + Len(After(ref[stream[s].path], @, n))]
  /\ UNCHANGED <<content, ref, calls, fault>>

(* fgets() of n bytes with its NUL, one fgetc() after the other: up to a   *)
(* newline or the end, and the stream's own positions stay.                *)
LineLen(s, pos, n) ==
  LET stops == {k \in 1 .. n - 1 : pos + k = Len(s) \/ (pos + k <= Len(s) /\ s[pos + k] \in NewLines)}
  IN IF pos >= Len(s) THEN 0
     ELSE IF stops = {} THEN n - 1 ELSE CHOOSE k \in stops : \A j \in stops : k <= j

Fgets(s, n) ==
  /\ Open(s) /\ s \in ByBytes /\ ~fault
  /\ Careful => Reads(stream[s].mode) /\ stream[s].buf_mode = "none"
  /\ LET f == stream[s]
         c == content[f.path]
         k == LineLen(c, f.pos, n)
         want == LineLen(ref[f.path], place[s], n)
     IN /\ stream' = [stream EXCEPT ![s].pos = @ + k,
                        ![s].eof = @ \/ (k < n - 1 /\ (k = 0 \/ c[f.pos + k] \notin NewLines))]
        /\ wrong' = (wrong \/ After(c, f.pos, k) # After(ref[f.path], place[s], want))
        /\ place' = [place EXCEPT ![s] = @ + want]
  /\ UNCHANGED <<content, ref, calls, fault>>

(* fwrite() of n elements.  Unbuffered, and for an element larger than the *)
(* buffer, it writes at once.  Otherwise each element goes to the buffer's *)
(* end, which never moves: nothing of it will ever be written, by fflush() *)
(* either.  A line buffer that fills up has nothing to write, and never    *)
(* gets out of the loop that should make room.                             *)
Direct(f, size) == f.buf_mode = "none" \/ size > BUFSIZ

Fwrite(s, size, n) ==
  /\ Open(s) /\ calls < MaxCalls /\ ~fault
  /\ place[s] + size * n <= MaxSize
  /\ Careful => Writes(stream[s].mode) /\ stream[s].buf_mode = "none"
  /\ LET f == stream[s]
         data == [i \in 1 .. size * n |-> calls + 1]
     IN /\ ref' = [ref EXCEPT ![f.path] = Overwrite(@, place[s], data)]
        /\ IF Direct(f, size)
             THEN /\ content' = [content EXCEPT ![f.path] = Overwrite(@, f.pos, data)]
                  /\ LET rd == IF f.wr_pos = f.rd_pos THEN f.rd_pos + Len(data) ELSE f.rd_pos
                     IN stream' = [stream EXCEPT ![s].pos = @ + Len(data),
                          ![s].wr_pos = @ + Len(data), ![s].rd_pos = rd,
                          ![s].eof = @ \/ rd >= Len(content'[f.path])]
             ELSE /\ stream' = [stream EXCEPT ![s].eof = @ \/ f.rd_pos >= Len(content[f.path])]
                  /\ UNCHANGED content
        /\ fault' = (f.buf_mode = "line" /\ size <= BUFSIZ /\ size * n > BUFSIZ)
  /\ place' = [place EXCEPT ![s] = @ + size * n]
  /\ calls' = calls + 1
  /\ UNCHANGED wrong

Clearerr(s) ==
  /\ Open(s) /\ stream[s].eof /\ ~fault
  /\ stream' = [stream EXCEPT ![s].eof = FALSE]
  /\ UNCHANGED <<content, ref, place, calls, wrong, fault>>

(* fseek(), rewind(), fsetpos(): lseek() returns 0 wherever it goes, which *)
(* becomes the position of the stream, and does not go to the end at all.  *)
Fseek(s, offset, whence) ==
  /\ Open(s) /\ ~fault
  /\ Careful => whence = "set" /\ offset = 0
  /\ stream' = [stream EXCEPT
       ![s].pos = CASE whence = "set" -> offset [] whence = "cur" -> @ + offset [] OTHER -> @,
       ![s].rd_pos = 0, ![s].wr_pos = 0]
  /\ place' = [place EXCEPT ![s] = CASE whence = "set" -> offset [] whence = "cur" -> @ + offset
                                     [] OTHER -> Len(ref[stream[s].path]) + offset]
  /\ UNCHANGED <<content, ref, calls, wrong, fault>>
-----------------------------------------------------------------------------
(* copy_file() writes over what is there already; a write that fails ends  *)
(* it, and is not reported.                                                *)
Copy(p, q, copied) ==
  Overwrite(IF Exists(q) THEN content[q] ELSE <<>>, 0, SubSeq(content[p], 1, copied))

(* rename(): to another file system it copies and unlinks the old file.    *)
Rename(p, q, copied) ==
  /\ p # q /\ Exists(p) /\ Users(p) = {} /\ Users(q) = {}
  /\ calls < MaxCalls /\ ~fault
  /\ copied \in 0 .. Len(content[p])
  /\ Careful => ~Exists(q) /\ copied = Len(content[p])
  /\ content' = [content EXCEPT ![p] = NoFile,
       ![q] = IF FsOf[p] = FsOf[q] THEN content[p] ELSE Copy(p, q, copied)]
  /\ ref' = [ref EXCEPT ![p] = NoFile, ![q] = ref[p]]
  /\ calls' = calls + 1
  /\ UNCHANGED <<stream, place, wrong, fault>>

Next ==
  \/ \E s \in Streams :
       \/ \E p \in Paths, m \in Modes : Freopen(s, p, m)
       \/ \E mode \in {"none", "line", "full"} : Setvbuf(s, mode)
       \/ \E n \in 1 .. MaxSize : Fread(s, n) \/ Fgets(s, n + 1)
       \/ \E size \in Sizes, n \in 1 .. 2 : Fwrite(s, size, n)
       \/ \E offset \in 0 .. MaxSize, whence \in {"set", "cur", "end"} : Fseek(s, offset, whence)
       \/ Fclose(s) \/ Clearerr(s)
  \/ \E p, q \in Paths, n \in 0 .. MaxSize : Rename(p, q, n)

Spec == Init /\ [][Next]_vars
-----------------------------------------------------------------------------
TypeOK ==
  /\ content \in [Paths -> Seq(-1 .. MaxCalls)] /\ ref \in [Paths -> Seq(-1 .. MaxCalls)]
  /\ \A s \in Streams : Open(s) => stream[s].path \in Paths /\ stream[s].pos \in Nat
  /\ calls \in 0 .. MaxCalls /\ fault \in BOOLEAN

Ftell(s) == stream[s].rd_pos

(* The files hold what was written to them, whichever streams wrote it and *)
(* wherever they were renamed, every read returns it, and a stream knows   *)
(* where in its file it is.                                                *)
FilesKeepData ==
  /\ content = ref /\ ~wrong /\ ~fault
  /\ \A s \in Streams \ ByBytes : Open(s) => Ftell(s) = place[s]
=============================================================================
