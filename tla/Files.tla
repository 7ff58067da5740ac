-------------------------------- MODULE Files ---------------------------------
(***************************************************************************)
(* PlatformFilesystem and its BufferedFile (src/src/io/                    *)
(* platformFilesystem.cpp) beside the plain File (src/src/io/file.cpp): a  *)
(* file reached through a stdio stream, or through its descriptor.  Paths  *)
(* lead to files, files outlive their names while they are open, and what  *)
(* a BufferedFile has written stays in the process until its stream        *)
(* decides otherwise.                                                      *)
(*                                                                         *)
(* Clients check with exists() before they create or open, and other       *)
(* clients act in between.  The kernel may refuse to take more bytes.      *)
(***************************************************************************)
EXTENDS Integers, Sequences, FiniteSets

CONSTANTS
  Handle,       \* places for File objects
  Dir,          \* directories
  Name,         \* file names
  Request,      \* the paths clients use: [dir, name], dir = "." if relative
  Data,         \* sequences of bytes that clients write
  Lengths,      \* lengths that clients read
  Offsets,      \* offsets that clients seek to
  BufferSize,   \* bytes a stream holds
  Programs,      \* what the program may be doing in a behaviour
  MaxFiles,     \* bound, for each client: files ever made
  MaxLength,    \* bound, for each client: bytes of a file
  MaxRefusals   \* bound: refusals of the kernel to take bytes

ASSUME FilesAssumption ==
  /\ IsFiniteSet(Handle)
  /\ Dir # {}
  /\ Request \subseteq [dir : Dir \cup {"."}, name : Name]
  /\ BufferSize \in Nat
  /\ Lengths \subseteq 1..BufferSize
  /\ Data \subseteq Seq(Nat) \ {<<>>}
  /\ Offsets \subseteq Int

Path == [dir : Dir, name : Name]
None == 0
Hole == 0

VARIABLES
  program,    \* what the program is doing
  names,     \* path -> the file it leads to, or None
  files,     \* file -> its bytes, as the kernel has them
  cwd,       \* the working directory of the process
  object,    \* object -> its state, Closed when it has no file
  checked,   \* object -> the path its client asked exists() about: [path, found]
  refusals,  \* bytes refused so far
  ideal,     \* file -> its bytes, had every write gone straight to the kernel
  spoiled,   \* files written to while two objects have them open, or refused bytes
  misread    \* did a read give something else than the unbuffered file would?

fileVars == <<program, names, files, cwd, object, checked, refusals, ideal, spoiled, misread>>

(* A stream is "idle", or holds bytes in buf that start at base: "put"     *)
(* bytes wait to be written, "got" bytes were read ahead.  place is where  *)
(* the unbuffered file would be.                                           *)
Closed == [kind |-> "closed"]
Fresh(kind, f) ==
  [kind |-> kind, file |-> f, at |-> 0, mode |-> "idle", base |-> 0, buf |-> <<>>,
   eof |-> FALSE, place |-> 0]

isOpenFile(o) == object[o] # Closed
Sharing(f) == {o \in Handle : isOpenFile(o) /\ object[o].file = f}

NoCheck == [path |-> <<>>, found |-> FALSE]

FilesInit ==
  /\ program \in Programs
  /\ names = [p \in Path |-> None]
  /\ files = <<>> /\ ideal = <<>>
  /\ cwd = CHOOSE d \in Dir : TRUE
  /\ object = [o \in Handle |-> Closed]
  /\ checked = [o \in Handle |-> NoCheck]
  /\ refusals = 0 /\ spoiled = {} /\ misread = FALSE
-----------------------------------------------------------------------------
(* Bytes                                                                   *)

(* The bytes c with b over them from offset on.                            *)
Over(c, offset, b) ==
  IF b = <<>> THEN c
  ELSE [i \in 1..(IF offset + Len(b) > Len(c) THEN offset + Len(b) ELSE Len(c)) |->
          IF i \in offset + 1..offset + Len(b) THEN b[i - offset]
          ELSE IF i <= Len(c) THEN c[i] ELSE Hole]

(* At most n of the bytes of c from offset on.                             *)
Part(c, offset, n) ==
  SubSeq(c, offset + 1, IF offset + n < Len(c) THEN offset + n ELSE Len(c))

Pending(s) == IF s.mode = "put" THEN s.buf ELSE <<>>

(* The bytes of file f, once k of the bytes that s holds back are written. *)
Flushed(s, k) == [files EXCEPT ![s.file] = Over(@, s.base, SubSeq(Pending(s), 1, k))]

(* How many of them the kernel takes: all, or it refuses some.             *)
Taken(s) ==
  {Len(Pending(s))} \cup
    (IF refusals < MaxRefusals /\ Pending(s) # <<>> THEN 0..Len(Pending(s)) - 1 ELSE {})

(* A refusal leaves no promise about the file.                             *)
Refused(s, k) == k < Len(Pending(s))
Count(s, k) ==
  /\ refusals' = refusals + (IF Refused(s, k) THEN 1 ELSE 0)
  /\ spoiled' = spoiled \cup (IF Refused(s, k) THEN {s.file} ELSE {})
-----------------------------------------------------------------------------
(* The filesystem                                                          *)

(* A Path turned into the string the kernel resolves.                      *)
pathString(p) == IF p.dir = "." THEN [p EXCEPT !.dir = cwd] ELSE p

exists(p) == names[pathString(p)] # None
getFileSize(p) == Len(files[names[pathString(p)]])

(* A client asks exists() and remembers the answer.                        *)
Check(o, p) ==
  /\ ~isOpenFile(o) /\ checked[o] = NoCheck
  /\ checked' = [checked EXCEPT ![o] = [path |-> p, found |-> exists(p)]]
  /\ UNCHANGED <<program, names, files, cwd, object, refusals, ideal, spoiled, misread>>

Opens(o, kind, f) ==
  /\ object' = [object EXCEPT ![o] = Fresh(kind, f)]
  /\ checked' = [checked EXCEPT ![o] = NoCheck]

(* fopen or open fails, and an exception says so.                          *)
Fails(o) ==
  /\ checked' = [checked EXCEPT ![o] = NoCheck]
  /\ UNCHANGED <<names, files, object, ideal>>

NewFile(o, bind) ==
  /\ Len(files) < MaxFiles[program]
  /\ files' = Append(files, <<>>) /\ ideal' = Append(ideal, <<>>)
  /\ names' = [p \in Path |-> IF p \in bind THEN Len(files) + 1 ELSE names[p]]
  /\ Opens(o, "buffered", Len(files) + 1)

(* Variant, as others below, for a mistake that the properties must        *)
(* notice: fopen(path, "w+") truncates a file that is there.               *)
createOver(o) ==
  LET p == checked[o].path IN
  /\ ~isOpenFile(o) /\ checked[o] # NoCheck /\ ~checked[o].found
  /\ \/ exists(p) /\ names' = names /\ ideal' = ideal
        /\ files' = [files EXCEPT ![names[pathString(p)]] = <<>>]
        /\ Opens(o, "buffered", names[pathString(p)])
     \/ ~exists(p) /\ NewFile(o, {pathString(p)})
  /\ UNCHANGED <<program, cwd, refusals, spoiled, misread>>

(* create: fopen(path, "w+x").                                             *)
create(o) ==
  LET p == checked[o].path IN
  /\ ~isOpenFile(o) /\ checked[o] # NoCheck /\ ~checked[o].found
  /\ \/ exists(p) /\ Fails(o)
     \/ ~exists(p) /\ NewFile(o, {pathString(p)})
  /\ UNCHANGED <<program, cwd, refusals, spoiled, misread>>

(* open: fopen(path, "r+"); or a File made from the path.                  *)
open(o, kind) ==
  LET p == checked[o].path IN
  /\ ~isOpenFile(o) /\ checked[o] # NoCheck /\ checked[o].found
  /\ \/ ~exists(p) /\ Fails(o)
        /\ UNCHANGED spoiled
     \/ exists(p) /\ Opens(o, kind, names[pathString(p)]) /\ UNCHANGED <<names, files, ideal>>
        /\ spoiled' = spoiled \cup {object[q].file : q \in {q \in Sharing(names[pathString(p)]) : Pending(object[q]) # <<>>}}
  /\ UNCHANGED <<program, cwd, refusals, misread>>

(* tmpfile: a file with no name.                                           *)
createTemp(o) ==
  /\ ~isOpenFile(o) /\ checked[o] = NoCheck
  /\ NewFile(o, {})
  /\ UNCHANGED <<program, cwd, refusals, spoiled, misread>>

(* remove: the name goes, and the file with it once no object has it open. *)
unlink(p) ==
  /\ exists(p)
  /\ names' = [names EXCEPT ![pathString(p)] = None]
  /\ UNCHANGED <<program, files, cwd, object, checked, refusals, ideal, spoiled, misread>>

(* Relative paths, the checked ones too, mean something else from here on. *)
setWorkingDirectory(d) ==
  /\ d # cwd
  /\ cwd' = d
  /\ UNCHANGED <<program, names, files, object, checked, refusals, ideal, spoiled, misread>>
-----------------------------------------------------------------------------
(* BufferedFile and File                                                   *)

(* fwrite goes over whatever was read ahead, and the stream holds the      *)
(* bytes back or passes some of them on.                                   *)
Put(s, b) ==
  [s EXCEPT !.mode = "put", !.base = IF s.mode = "put" THEN @ ELSE s.at,
            !.buf = Pending(s) \o b, !.at = @ + Len(b), !.place = @ + Len(b)]

Passed(s, k) ==
  IF k = Len(s.buf) THEN [s EXCEPT !.mode = "idle", !.base = 0, !.buf = <<>>]
  ELSE [s EXCEPT !.base = @ + k, !.buf = SubSeq(@, k + 1, Len(@))]

(* The stream with nothing held back.                                      *)
Emptied(s) == IF s.mode = "put" THEN Passed(s, Len(s.buf)) ELSE s

Eyes(s) == IF Cardinality(Sharing(s.file)) > 1 THEN {s.file} ELSE {}

BufferedWrite(o, b) ==
  LET s == object[o]
      t == Put(s, b)
  IN  /\ isOpenFile(o) /\ s.kind = "buffered" /\ t.at <= MaxLength[program]
      /\ \E k \in 0..Len(t.buf) :
           /\ Len(t.buf) - k <= BufferSize
           /\ files' = Flushed(t, k)
           /\ object' = [object EXCEPT ![o] = Passed(t, k)]
      /\ ideal' = [ideal EXCEPT ![s.file] = Over(@, s.place, b)]
      /\ spoiled' = spoiled \cup Eyes(s)
      /\ UNCHANGED <<program, names, cwd, checked, refusals, misread>>

(* A refusal raises an IOException.  The bytes that were not taken are     *)
(* gone, those of earlier calls too.                                       *)
BufferedWriteRefused(o, b) ==
  LET s == object[o]
      t == Put(s, b)
  IN  /\ isOpenFile(o) /\ s.kind = "buffered" /\ t.at <= MaxLength[program]
      /\ \E k \in Taken(t) :
           /\ Refused(t, k)
           /\ files' = Flushed(t, k)
           /\ object' = [object EXCEPT ![o] = [Emptied(t) EXCEPT !.at = t.base + k, !.place = t.base + k]]
           /\ Count(t, k)
      /\ UNCHANGED <<program, names, cwd, checked, ideal, misread>>

(* File::write reports how many bytes the kernel took.                     *)
PlainWrite(o, b) ==
  LET s == object[o]
      t == Put(s, b)
  IN  /\ isOpenFile(o) /\ s.kind = "plain" /\ t.at <= MaxLength[program]
      /\ \E k \in Taken(t) :
           /\ k > 0
           /\ files' = Flushed(t, k)
           /\ object' = [object EXCEPT ![o].at = @ + k, ![o].place = @ + k]
           /\ ideal' = [ideal EXCEPT ![s.file] = Over(@, s.place, SubSeq(b, 1, k))]
           /\ refusals' = refusals + (IF Refused(t, k) THEN 1 ELSE 0)
      /\ spoiled' = spoiled \cup Eyes(s)
      /\ UNCHANGED <<program, names, cwd, checked, misread>>

(* What fread gives for n bytes of a stream that holds nothing back, and   *)
(* the stream after it: the bytes read ahead, and when they do not suffice *)
(* the next BufferSize bytes of the file, unless the end was met before.   *)
Ahead(s) == IF s.mode = "got" THEN Part(s.buf, s.at - s.base, BufferSize) ELSE <<>>

fread(s, n, bytes) ==
  LET ahead == Ahead(s)
      more == IF Len(ahead) >= n \/ s.eof THEN <<>>
              ELSE Part(bytes, s.at + Len(ahead), BufferSize)
      given == Part(ahead \o more, 0, n)
  IN  [given |-> given,
       stream |-> [s EXCEPT !.mode = "got", !.base = s.at, !.buf = ahead \o more,
                            !.at = @ + Len(given), !.eof = @ \/ Len(given) < n]]

(* Does a read of n bytes that gave these differ from the unbuffered one?  *)
Misread(s, n, given) == s.file \notin spoiled /\ given # Part(ideal[s.file], s.place, n)

(* Variant: the base class's read, from the descriptor, past the stream.   *)
BufferedReadPast(o, n) ==
  LET s == object[o]
      given == Part(files[s.file], s.at, n)
  IN  /\ isOpenFile(o) /\ s.kind = "buffered"
      /\ misread' = (misread \/ Misread(s, n, given))
      /\ object' = [object EXCEPT ![o].at = @ + Len(given), ![o].place = @ + Len(given)]
      /\ UNCHANGED <<program, names, files, cwd, checked, ideal, refusals, spoiled>>

(* BufferedFile::read: fread writes first what is held back.  It returns   *)
(* what it got, and a refusal looks like the end of the file.              *)
BufferedRead(o, n) ==
  LET s == object[o]
  IN  /\ isOpenFile(o) /\ s.kind = "buffered"
      /\ \E k \in Taken(s) :
           LET r == fread(Emptied(s), n, Flushed(s, k)[s.file])
           IN  /\ files' = Flushed(s, k)
               /\ Count(s, k)
               /\ \/ /\ ~Refused(s, k)
                     /\ misread' = (misread \/ Misread(s, n, r.given))
                     /\ object' = [object EXCEPT ![o] =
                          [r.stream EXCEPT !.place = @ + Len(r.given)]]
                  \/ /\ Refused(s, k)
                     /\ misread' = misread
                     /\ object' = [object EXCEPT ![o] = [Emptied(s) EXCEPT !.eof = TRUE]]
      /\ UNCHANGED <<program, names, cwd, checked, ideal>>

PlainRead(o, n) ==
  LET s == object[o]
      given == Part(files[s.file], s.at, n)
  IN  /\ isOpenFile(o) /\ s.kind = "plain"
      /\ misread' = (misread \/ Misread(s, n, given))
      /\ object' = [object EXCEPT ![o].at = @ + Len(given), ![o].place = @ + Len(given)]
      /\ UNCHANGED <<program, names, files, cwd, checked, refusals, ideal, spoiled>>

tell(o) == object[o].at

(* Where a seek from position at leads, in a file of length n.             *)
Target(offset, whence, at, n) ==
  CASE whence = "Set" -> offset
    [] whence = "Current" -> at + offset
    [] whence = "End" -> n + offset

(* seek: a stream writes what is held back, and may keep what it has read  *)
(* ahead when it stays within it.  A refusal raises an IOException, as     *)
(* does a target before the file, which leaves the position alone.         *)
seek(o, offset, whence) ==
  LET s == object[o]
      t == Emptied(s)
      to(k) == Target(offset, whence, s.at, Len(Flushed(s, k)[s.file]))
      ideally == Target(offset, whence, s.place, Len(ideal[s.file]))
      stays(k) == t.mode = "got" /\ to(k) \in t.base..t.base + Len(t.buf)
      there(k, keeps) ==
        [t EXCEPT !.at = to(k), !.place = IF s.file \in spoiled THEN to(k) ELSE ideally, !.eof = FALSE,
                  !.mode = IF keeps THEN @ ELSE "idle",
                  !.base = IF keeps THEN @ ELSE 0, !.buf = IF keeps THEN @ ELSE <<>>]
  IN  /\ isOpenFile(o)
      /\ \E k \in Taken(s) :
           /\ files' = Flushed(s, k)
           /\ Count(s, k)
           /\ IF Refused(s, k) \/ to(k) < 0
              THEN object' = [object EXCEPT ![o] = t]
              ELSE /\ to(k) <= MaxLength[program]
                   /\ \E keeps \in {FALSE, stays(k)} :
                        object' = [object EXCEPT ![o] = there(k, keeps)]
      /\ UNCHANGED <<program, names, cwd, checked, ideal, misread>>

(* close: fclose writes what is held back, and nobody looks at what it     *)
(* returns.                                                                *)
closeFile(o) ==
  LET s == object[o]
  IN  /\ isOpenFile(o)
      /\ \E k \in Taken(s) : files' = Flushed(s, k) /\ Count(s, k)
      /\ object' = [object EXCEPT ![o] = Closed]
      /\ UNCHANGED <<program, names, cwd, checked, ideal, misread>>

(* BufferedFile::swap: the streams and the descriptors together.           *)
swapFiles(o, q) ==
  /\ isOpenFile(o) /\ object[o].kind = "buffered"
  /\ isOpenFile(q) => object[q].kind = "buffered"
  /\ checked[q] = NoCheck
  /\ object' = [object EXCEPT ![o] = object[q], ![q] = object[o]]
  /\ UNCHANGED <<program, names, files, cwd, checked, refusals, ideal, spoiled, misread>>

FilesNext ==
  \/ \E o \in Handle :
       \/ \E p \in Request : Check(o, p)
       \/ create(o) \/ createTemp(o)
       \/ \E kind \in {"plain", "buffered"} : open(o, kind)
       \/ \E b \in Data : BufferedWrite(o, b) \/ BufferedWriteRefused(o, b) \/ PlainWrite(o, b)
       \/ \E n \in Lengths : BufferedRead(o, n) \/ PlainRead(o, n)
       \/ \E offset \in Offsets, whence \in {"Set", "Current", "End"} : seek(o, offset, whence)
       \/ closeFile(o)
       \/ \E q \in Handle \ {o} : swapFiles(o, q)
  \/ \E p \in Request : unlink(p)
  \/ \E d \in Dir : setWorkingDirectory(d)
-----------------------------------------------------------------------------
(* Properties                                                              *)

(* A BufferedFile gives and leaves the bytes that a file without a buffer  *)
(* would, whatever its stream holds back or has read ahead, through any    *)
(* sequence of reads, writes and seeks that follow each other without a    *)
(* flush: for a file that is not written while two objects have it, and    *)
(* lost no bytes to the kernel.  Once nobody has it open the file itself,  *)
(* and getFileSize of its path, is what was written.                       *)
SameAsUnbuffered ==
  /\ ~misread
  /\ \A f \in DOMAIN files \ spoiled :
       /\ Sharing(f) = {} => files[f] = ideal[f]
       /\ \A p \in Request : exists(p) /\ names[pathString(p)] = f /\ Sharing(f) = {}
                               => getFileSize(p) = Len(ideal[f])
       /\ \A o \in Sharing(f) :
            /\ tell(o) = object[o].place
            /\ Pending(object[o]) # <<>> => Over(files[f], object[o].base, object[o].buf) = ideal[f]

(* Opening or making a file never harms another one: whatever exists()     *)
(* said, and whoever made the file or changed directory since, every byte  *)
(* and every name that was there stays, and a client that set out to       *)
(* create gets a file that no other object has.                            *)
CreateKeeps ==
  [][\A o \in Handle :
       ~isOpenFile(o) /\ isOpenFile(o)'
         => /\ \A f \in DOMAIN files : files'[f] = files[f]
            /\ \A p \in Path : names[p] # None => names'[p] = names[p]
            /\ checked[o] # NoCheck /\ ~checked[o].found
                 => \A q \in Handle \ {o} : object'[q] # Closed => object'[q].file # object'[o].file]_fileVars
====
