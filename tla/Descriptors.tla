----------------------------- MODULE Descriptors -----------------------------
(***************************************************************************)
(* Who owns a descriptor: File (src/src/io/file.cpp), the two Files of a   *)
(* Duplex or a Pipe (duplex.hpp, duplex.cpp, pipe.cpp), and SharedMemory   *)
(* (sharedMemory.cpp), which may own the name of its segment as well.      *)
(* Objects are made, moved, swapped, closed and destroyed; the kernel      *)
(* gives out the lowest free number, so that one that was closed comes     *)
(* back soon.                                                              *)
(*                                                                         *)
(* Every open(2), shm_open(3) or end of a pipe(2) makes an open file       *)
(* description, and these are numbered.  A segment has the number of the   *)
(* description that created it.                                            *)
(***************************************************************************)
EXTENDS Naturals, FiniteSets

CONSTANTS
  Object,      \* places for objects of the library
  Name,        \* names of segments
  NoName,      \* an empty Path
  MaxFd,       \* descriptors the process may have open
  MaxOpens     \* bound: descriptions made

ASSUME DescriptorsAssumption ==
  /\ NoName \notin Name
  /\ MaxFd \in Nat
  /\ MaxOpens \in Nat

InvalidFd == 0
Fd == 1..MaxFd
Description == 1..MaxOpens

VARIABLES
  kind,     \* object -> its class, or "none"
  fd,       \* object -> _fd
  path,     \* object -> _linkedPath
  table,    \* the process's descriptors: Fd -> description, 0 if free
  opens,    \* descriptions made
  segment,  \* description -> the segment it refers to, 0 if none
  called,   \* description -> the name create made it for, NoName if it did not
  names,    \* name -> segment, 0 if not linked
  holds,    \* object -> the description it was given, 0 if none
  raw,      \* descriptions the client holds by itself
  leaked,   \* descriptions that create left behind
  failed    \* has close(2) reported an error?

objects == <<kind, fd, path, holds>>
vars == <<objects, table, opens, segment, called, names, raw, leaked, failed>>

Init ==
  /\ kind = [o \in Object |-> "none"]
  /\ fd = [o \in Object |-> InvalidFd]
  /\ path = [o \in Object |-> NoName]
  /\ table = [f \in Fd |-> 0]
  /\ opens = 0
  /\ segment = [d \in Description |-> 0]
  /\ called = [d \in Description |-> NoName]
  /\ names = [n \in Name |-> 0]
  /\ holds = [o \in Object |-> 0]
  /\ raw = {} /\ leaked = {} /\ failed = FALSE
-----------------------------------------------------------------------------
(* The kernel                                                              *)

Free == {f \in Fd : table[f] = 0}
Lowest(S) == CHOOSE f \in S : \A g \in S : f <= g

(* A description of segment s (0 if it is none of a segment's) is made,    *)
(* unless the process has too many and the caller is given an exception.   *)
(* n is the name that create made it for.                                  *)
NewDescription(s, n) ==
  /\ Free # {} /\ opens < MaxOpens
  /\ opens' = opens + 1
  /\ table' = [table EXCEPT ![Lowest(Free)] = opens + 1]
  /\ segment' = [segment EXCEPT ![opens + 1] = s]
  /\ called' = [called EXCEPT ![opens + 1] = n]

(* close(2) frees the number, also when it reports an error.               *)
Closed(f) == [table EXCEPT ![f] = 0]
-----------------------------------------------------------------------------
(* Construction                                                            *)

isOpened(o) == fd[o] # InvalidFd

(* An object of class k made at o around the descriptor f.                 *)
Construct(o, k, f, n, d) ==
  /\ kind[o] = "none"
  /\ kind' = [kind EXCEPT ![o] = k]
  /\ fd' = [fd EXCEPT ![o] = f]
  /\ path' = [path EXCEPT ![o] = n]
  /\ holds' = [holds EXCEPT ![o] = d]

(* File() and SharedMemory(): an object without a descriptor.              *)
Default(o, k) ==
  /\ Construct(o, k, InvalidFd, NoName, 0)
  /\ UNCHANGED <<table, opens, segment, called, names, raw, leaked, failed>>

(* The client has a descriptor of its own.                                 *)
ClientOpen ==
  /\ NewDescription(0, NoName)
  /\ raw' = raw \cup {opens + 1}
  /\ UNCHANGED <<objects, names, leaked, failed>>

(* fromFd: the object takes over the client's descriptor.                  *)
fromFd(o, k) ==
  \E f \in Fd :
    /\ table[f] \in raw
    /\ Construct(o, k, f, NoName, table[f])
    /\ raw' = raw \ {table[f]}
    /\ UNCHANGED <<table, opens, segment, called, names, leaked, failed>>

(* File(path, flags), which tries again after EINTR.                       *)
FileOpen(o) ==
  /\ NewDescription(0, NoName)
  /\ Construct(o, "File", Lowest(Free), NoName, opens + 1)
  /\ UNCHANGED <<names, raw, leaked, failed>>

(* createPipe: two Files, or none.                                         *)
createPipe(i, o) ==
  LET f == Lowest(Free)
      g == Lowest(Free \ {f})
  IN  /\ i # o /\ kind[i] = "none" /\ kind[o] = "none"
      /\ Cardinality(Free) >= 2 /\ opens + 2 <= MaxOpens
      /\ opens' = opens + 2
      /\ table' = [table EXCEPT ![f] = opens + 1, ![g] = opens + 2]
      /\ kind' = [kind EXCEPT ![i] = "File", ![o] = "File"]
      /\ fd' = [fd EXCEPT ![i] = f, ![o] = g]
      /\ holds' = [holds EXCEPT ![i] = opens + 1, ![o] = opens + 2]
      /\ UNCHANGED <<path, segment, called, names, raw, leaked, failed>>

(* SharedMemory::create opens the segment of that name, whoever made it,   *)
(* or makes one; if ftruncate refuses, the descriptor is not closed.       *)
create(o, n, truncated) ==
  LET s == IF names[n] = 0 THEN opens + 1 ELSE names[n]
  IN  /\ NewDescription(s, n)
      /\ names' = [names EXCEPT ![n] = s]
      /\ IF truncated
         THEN Construct(o, "SharedMemory", Lowest(Free), n, opens + 1) /\ UNCHANGED leaked
         ELSE leaked' = leaked \cup {opens + 1} /\ UNCHANGED objects
      /\ UNCHANGED <<raw, failed>>

(* SharedMemory::open: the name stays the creator's.                       *)
open(o, n) ==
  /\ names[n] # 0
  /\ NewDescription(names[n], NoName)
  /\ Construct(o, "SharedMemory", Lowest(Free), NoName, opens + 1)
  /\ UNCHANGED <<names, raw, leaked, failed>>

unlink(n) ==
  /\ names[n] # 0
  /\ names' = [names EXCEPT ![n] = 0]
  /\ UNCHANGED <<objects, table, opens, segment, called, raw, leaked, failed>>
-----------------------------------------------------------------------------
(* Transfer                                                                *)

(* Variants of the code, here and below, are mistakes that the properties  *)
(* must notice: the object moved from keeps its descriptor.                *)
moveKeepsFd(p, o) ==
  /\ kind[o] # "none"
  /\ Construct(p, kind[o], fd[o], path[o], holds[o])
  /\ UNCHANGED <<table, opens, segment, called, names, raw, leaked, failed>>

(* The move constructors: p is made from o, which is left without.         *)
move(p, o) ==
  /\ kind[o] # "none" /\ kind[p] = "none"
  /\ kind' = [kind EXCEPT ![p] = kind[o]]
  /\ fd' = [fd EXCEPT ![p] = fd[o], ![o] = InvalidFd]
  /\ path' = [path EXCEPT ![p] = path[o], ![o] = NoName]
  /\ holds' = [holds EXCEPT ![p] = holds[o], ![o] = 0]
  /\ UNCHANGED <<table, opens, segment, called, names, raw, leaked, failed>>

(* Variant: the name stays where it was.                                   *)
swapKeepsPath(o, p) ==
  /\ o # p /\ kind[o] # "none" /\ kind[p] = kind[o]
  /\ fd' = [fd EXCEPT ![o] = fd[p], ![p] = fd[o]]
  /\ holds' = [holds EXCEPT ![o] = holds[p], ![p] = holds[o]]
  /\ UNCHANGED <<kind, path, table, opens, segment, called, names, raw, leaked, failed>>

(* swap, and the move assignments, which are swaps.                        *)
swap(o, p) ==
  /\ o # p /\ kind[o] # "none" /\ kind[p] = kind[o]
  /\ fd' = [fd EXCEPT ![o] = fd[p], ![p] = fd[o]]
  /\ path' = [path EXCEPT ![o] = path[p], ![p] = path[o]]
  /\ holds' = [holds EXCEPT ![o] = holds[p], ![p] = holds[o]]
  /\ UNCHANGED <<kind, table, opens, segment, called, names, raw, leaked, failed>>
-----------------------------------------------------------------------------
(* Closing                                                                 *)

(* close of a File, or of a SharedMemory that is open: when close(2)       *)
(* reports an error, as it does for a number that is free, the exception   *)
(* comes before invalidateFd.                                              *)
close(o) ==
  /\ isOpened(o)
  /\ table' = Closed(fd[o])
  /\ \/ /\ table[fd[o]] # 0
        /\ fd' = [fd EXCEPT ![o] = InvalidFd]
        /\ holds' = [holds EXCEPT ![o] = 0]
        /\ UNCHANGED failed
     \/ failed' = TRUE /\ UNCHANGED <<fd, holds>>
  /\ UNCHANGED <<kind, path, opens, segment, called, names, raw, leaked>>

(* Duplex::close: the second File is closed if the first raised nothing;   *)
(* else it is a failed close of the first.                                 *)
DuplexClose(i, o) ==
  /\ i # o /\ kind[i] = "File" /\ kind[o] = "File"
  /\ isOpened(i) /\ isOpened(o) /\ fd[i] # fd[o]
  /\ table[fd[i]] # 0 /\ table[fd[o]] # 0
  /\ table' = [Closed(fd[i]) EXCEPT ![fd[o]] = 0]
  /\ fd' = [fd EXCEPT ![i] = InvalidFd, ![o] = InvalidFd]
  /\ holds' = [holds EXCEPT ![i] = 0, ![o] = 0]
  /\ UNCHANGED <<kind, path, opens, segment, called, names, raw, leaked, failed>>

(* Variant: an object that was not closed keeps its descriptor for ever.   *)
destroyOnly(o) ==
  /\ kind[o] # "none"
  /\ kind' = [kind EXCEPT ![o] = "none"]
  /\ fd' = [fd EXCEPT ![o] = InvalidFd]
  /\ path' = [path EXCEPT ![o] = NoName]
  /\ holds' = [holds EXCEPT ![o] = 0]
  /\ UNCHANGED <<table, opens, segment, called, names, raw, leaked, failed>>

(* The destructors close what is open; ~SharedMemory then unlinks the name *)
(* it owns, and does neither when the object was closed before.  An error  *)
(* of close(2) is ignored by ~SharedMemory and ends the process in ~File.  *)
destroy(o) ==
  /\ kind[o] # "none"
  /\ kind[o] = "File" /\ isOpened(o) => table[fd[o]] # 0
  /\ kind' = [kind EXCEPT ![o] = "none"]
  /\ fd' = [fd EXCEPT ![o] = InvalidFd]
  /\ path' = [path EXCEPT ![o] = NoName]
  /\ holds' = [holds EXCEPT ![o] = 0]
  /\ table' = IF isOpened(o) THEN Closed(fd[o]) ELSE table
  /\ names' = IF isOpened(o) /\ path[o] # NoName THEN [names EXCEPT ![path[o]] = 0] ELSE names
  /\ UNCHANGED <<opens, segment, called, raw, leaked, failed>>

Next ==
  \/ ClientOpen
  \/ \E o \in Object : \E k \in {"File", "SharedMemory"} : Default(o, k) \/ fromFd(o, k)
  \/ \E o \in Object : FileOpen(o) \/ close(o) \/ destroy(o)
  \/ \E o, p \in Object : createPipe(o, p) \/ move(p, o) \/ swap(o, p) \/ DuplexClose(o, p)
  \/ \E o \in Object, n \in Name, truncated \in BOOLEAN : create(o, n, truncated)
  \/ \E o \in Object, n \in Name : open(o, n)
  \/ \E n \in Name : unlink(n)

Spec == Init /\ [][Next]_vars
-----------------------------------------------------------------------------
(* Properties                                                              *)

(* An object that is open owns its descriptor: no other object has the     *)
(* number, and it still is what the object was given, not closed behind    *)
(* its back and not given out again for something else.  A file that was   *)
(* closed "cannot be read or written to any more" (file.hpp:172), so that  *)
(* an object never passes for open with a number that close(2) freed.      *)
OpenOwns ==
  \A o \in Object : isOpened(o) =>
    /\ table[fd[o]] = holds[o] /\ holds[o] # 0
    /\ \A p \in Object : fd[p] = fd[o] => p = o

(* That is so until close(2) reports an error: then File::close and        *)
(* SharedMemory::close keep a number that is free (file.cpp:199).          *)
SoleOwner == ~failed => OpenOwns

(* No descriptor is lost: each one open belongs to an object or to the     *)
(* client, but those that create forgot when ftruncate refused             *)
(* (sharedMemory.cpp:249).                                                 *)
NoneLost ==
  \A f \in Fd : table[f] # 0 =>
    table[f] \in raw \cup leaked \/ \E o \in Object : fd[o] = f

(* The name that ~SharedMemory will unlink is the one that create made the *)
(* object's descriptor for, through every move and swap, and one made by   *)
(* open or fromFd will unlink none.                                        *)
NameFollows == \A o \in Object : isOpened(o) => path[o] = called[holds[o]]

(* "Create a new NAMED shared memory buffer ... @return A newly create     *)
(* shared memory segment" (sharedMemory.hpp:90, 97): two objects that      *)
(* create made do not share a segment.                                     *)
CreatesNew ==
  \A o, p \in Object :
    /\ o # p /\ isOpened(o) /\ isOpened(p)
    /\ path[o] # NoName /\ path[p] # NoName
    => segment[holds[o]] # segment[holds[p]]

(* "if the file has been unlinked alredy - we don't care"                  *)
(* (sharedMemory.cpp:103): the name that ~SharedMemory will unlink is      *)
(* linked to the object's own segment or to nothing, not to a segment that *)
(* another has made since.                                                 *)
NameIsMine ==
  \A o \in Object : isOpened(o) /\ path[o] # NoName =>
    names[path[o]] \in {0, segment[holds[o]]}

(* "the object will be unlinked automatically when the object goes out of  *)
(* scope" (sharedMemory.hpp:282): once an object that has a name is        *)
(* destroyed, nothing is linked to the name.                               *)
UnlinkedInTheEnd ==
  [][\A o \in Object : path[o] # NoName /\ kind'[o] = "none" => names'[path[o]] = 0]_vars
=============================================================================
