----------------------------- MODULE SharedMaps -----------------------------
(***************************************************************************)
(* The memory of a SharedMemory (src/src/io/sharedMemory.cpp): the size of *)
(* its segment and the mappings of it, over the descriptors and names of   *)
(* module Descriptors.  A mapping outlives its object, its descriptor and  *)
(* its name; the size of a segment is whatever the last create of it made. *)
(*                                                                         *)
(* The client of a behaviour either deals with objects of every class, or  *)
(* maps the memory of SharedMemory objects, one mapping at a time.         *)
(***************************************************************************)
EXTENDS Descriptors

CONSTANTS
  Clients,    \* what the client of a behaviour may be doing
  Sizes,      \* sizes asked for, in pages; 0 is refused by create
  MapOpens    \* bound: descriptions made by a client that maps

ASSUME MapsAssumption ==
  /\ Clients \subseteq {"owns", "maps"}
  /\ Sizes \subseteq Nat
  /\ MapOpens \in Nat

VARIABLES
  client,
  length,    \* segment -> its size
  mapping    \* the MemoryResource the client holds, or NoMapping

mapVars == <<length, mapping>>
allVars == <<vars, client, mapVars>>

NoMapping == [segment |-> 0]

MapsInit ==
  /\ Init
  /\ client \in Clients
  /\ length = [s \in Description |-> 0]
  /\ mapping = NoMapping
-----------------------------------------------------------------------------
(* create: ftruncate, also of a segment that was there.  One that gets     *)
(* shorter cuts off what is mapped of it.                                  *)
createSized(o, n, memSize, truncated) ==
  /\ memSize # 0
  /\ create(o, n, truncated)
  /\ LET s == names'[n]
     IN  IF truncated
         THEN /\ length' = [length EXCEPT ![s] = memSize]
              /\ mapping' = IF mapping.segment = s /\ memSize < mapping.size
                            THEN [mapping EXCEPT !.cut = TRUE]
                            ELSE mapping
         ELSE UNCHANGED mapVars

(* size: fstat asks the kernel for the size of the descriptor's segment.   *)
size(o) == length[segment[table[fd[o]]]]

(* mapMemory: mmap of memSize pages of segment s, 0 for anonymous memory.  *)
(* given holds what the client asked to be mapped, if there is such a      *)
(* thing; whole says that it asked for the segment as it is.               *)
mapMem(s, memSize, given, whole) ==
  /\ mapping = NoMapping
  /\ memSize # 0
  /\ mapping' = [segment |-> s, size |-> memSize, given |-> given, whole |-> whole, cut |-> FALSE]
  /\ UNCHANGED <<vars, length>>

Given(o) == {segment[d] : d \in {holds[o]} \ {0}}

(* Variant of the code, a mistake that the property must notice: without   *)
(* validateFd, an fd of -1 asks mmap for anonymous memory.                 *)
mapAnything(o, mapSize) ==
  /\ kind[o] = "SharedMemory"
  /\ IF isOpened(o)
     THEN /\ table[fd[o]] # 0
          /\ mapMem(segment[table[fd[o]]], IF mapSize = 0 THEN size(o) ELSE mapSize,
                    Given(o), mapSize = 0)
     ELSE mapMem(0, mapSize, Given(o), FALSE)

(* map: a mapSize of 0 is the size of the segment.                         *)
map(o, mapSize) ==
  /\ kind[o] = "SharedMemory"
  /\ isOpened(o) /\ table[fd[o]] # 0
  /\ mapMem(segment[table[fd[o]]], IF mapSize = 0 THEN size(o) ELSE mapSize,
            Given(o), mapSize = 0)

createAnon(memSize) == mapMem(0, memSize, {0}, FALSE)

(* MappedMemoryDisposer: munmap of the view.                               *)
dispose ==
  /\ mapping # NoMapping
  /\ mapping' = NoMapping
  /\ UNCHANGED <<vars, length>>

(* A client that maps uses a few SharedMemory objects.                     *)
MapNext ==
  \/ \E o \in Object, n \in Name, memSize \in Sizes, truncated \in BOOLEAN :
       opens < MapOpens /\ createSized(o, n, memSize, truncated)
  \/ \E o \in Object : \E mapSize \in Sizes : map(o, mapSize)
  \/ \E memSize \in Sizes : createAnon(memSize)
  \/ dispose
  \/ /\ \/ \E o \in Object, n \in Name : opens < MapOpens /\ open(o, n)
        \/ \E o \in Object : close(o) \/ destroy(o)
        \/ \E o, p \in Object : move(p, o) \/ swap(o, p)
        \/ \E n \in Name : unlink(n)
     /\ UNCHANGED mapVars

MapsNext ==
  /\ \/ client = "owns" /\ Next /\ UNCHANGED mapVars
     \/ client = "maps" /\ MapNext
  /\ UNCHANGED client

MapsSpec == MapsInit /\ [][MapsNext]_allVars
-----------------------------------------------------------------------------
(* Properties                                                              *)

(* What map returns is memory of the segment the object was given when it  *)
(* was made, through every move, swap and reuse of a descriptor's number,  *)
(* and never anonymous memory, which mmap returns for an fd of -1.  (That  *)
(* is so until close(2) reports an error: the number that close then keeps *)
(* may be another segment's.)  And a mapping of the whole segment has all  *)
(* its memory behind it until a later create makes the segment shorter,    *)
(* whatever is closed, unlinked or destroyed.                              *)
MapsItsSegment ==
  mapping # NoMapping =>
    /\ ~failed => mapping.segment \in mapping.given
    /\ mapping.whole /\ ~mapping.cut => mapping.size <= length[mapping.segment]
=============================================================================
