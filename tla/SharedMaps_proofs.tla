-------------------------- MODULE SharedMaps_proofs --------------------------
(***************************************************************************)
(* Who owns a descriptor, a name and a mapping, for any number of objects, *)
(* names and descriptors.                                                  *)
(*                                                                         *)
(* SoleOwner is not inductive: fromFd (file.cpp, sharedMemory.cpp) trusts  *)
(* that the client's descriptor is nobody else's, and open that a number   *)
(* that is free belongs to no object.  The invariant Ownership adds what   *)
(* they trust in: two numbers never have one description, what the client  *)
(* holds by itself no object holds, and an object has a number exactly     *)
(* when it was given a description.  NameFollows needs to know, with       *)
(* Nameless, that what fromFd takes over was not made by create.           *)
(***************************************************************************)
EXTENDS SharedMaps, Vector_proofs, FiniteSetTheorems, TLAPS

DTypeOK ==
  /\ opens \in 0..MaxOpens
  /\ kind \in [Object -> {"none", "File", "SharedMemory"}]
  /\ fd \in [Object -> 0..MaxFd]
  /\ path \in [Object -> Name \cup {NoName}]
  /\ holds \in [Object -> 0..opens]
  /\ table \in [Fd -> 0..opens]
  /\ segment \in [Description -> 0..opens]
  /\ called \in [Description -> Name \cup {NoName}]
  /\ names \in [Name -> 0..opens]
  /\ raw \in SUBSET (1..opens)
  /\ leaked \in SUBSET (1..opens)
  /\ failed \in BOOLEAN

(* A description has one number at most.                                   *)
OneNumber == \A f, g \in Fd : table[f] = table[g] /\ table[f] # 0 => f = g

(* What the objects have, in step with each other and apart from what the  *)
(* client has.                                                             *)
Ownership ==
  \A o \in Object :
    /\ fd[o] = InvalidFd <=> holds[o] = 0
    /\ kind[o] = "none" => fd[o] = InvalidFd /\ path[o] = NoName
    /\ holds[o] \notin raw

(* The client's own descriptions, and those not made yet, have no name.    *)
Nameless == \A d \in Description : d \in raw \/ d > opens => called[d] = NoName

OInv ==
  /\ DTypeOK /\ OneNumber /\ Ownership /\ Nameless
  /\ SoleOwner /\ NoneLost /\ NameFollows

(* A mapping is one of a segment that there is, and its length and flags   *)
(* are what mapMemory was given.                                           *)
MTypeOK ==
  /\ length \in [Description -> Nat]
  /\ \/ mapping = NoMapping
     \/ mapping \in [segment : 0..opens, size : Nat, given : SUBSET Nat,
                     whole : BOOLEAN, cut : BOOLEAN]

(* The objects of a client that maps have segments, all of them.           *)
AllShared == client = "maps" => \A d \in 1..opens : segment[d] # 0

WholeIsShared == mapping # NoMapping /\ mapping.whole => mapping.segment # 0

MInv == OInv /\ MTypeOK /\ AllShared /\ WholeIsShared /\ MapsItsSegment
-----------------------------------------------------------------------------
(* The kernel                                                              *)

(* The number the kernel gives out is a free one (open(2), pipe(2)).       *)
LEMMA LowestFree ==
  ASSUME NEW S \in SUBSET Fd, S # {}
  PROVE  Lowest(S) \in S
<1>1. S \in SUBSET Nat
  BY DescriptorsAssumption DEF Fd
<1>2. \E m \in S : \A x \in S : m <= x
  BY <1>1, LeastElement
<1> QED BY <1>2 DEF Lowest

(* Two numbers for the ends of a pipe (createPipe, pipe.cpp).              *)
LEMMA TwoFree ==
  ASSUME Cardinality(Free) >= 2
  PROVE  LET f == Lowest(Free)
             g == Lowest(Free \ {f})
         IN  f \in Free /\ g \in Free /\ f # g
<1> DEFINE f == Lowest(Free)
<1>1. Free \in SUBSET Fd
  BY DEF Free
<1>2. Free # {}
  BY FS_EmptySet
<1>3. f \in Free
  BY <1>1, <1>2, LowestFree
<1>4. Free \ {f} # {}
  <2>1. SUFFICES ASSUME Free = {f} PROVE FALSE
    BY <1>3
  <2>2. Cardinality({f}) = 1
    BY FS_Singleton
  <2> QED BY <2>1, <2>2
<1>5. Lowest(Free \ {f}) \in Free \ {f}
  BY <1>1, <1>4, LowestFree
<1> QED BY <1>3, <1>5

(* What open(2) and shm_open(3) do to the process's descriptors.           *)
LEMMA NewFacts ==
  ASSUME OInv, NEW s, s \in 0..(opens + 1), NEW n \in Name \cup {NoName}, NewDescription(s, n)
  PROVE  /\ Lowest(Free) \in Fd /\ table[Lowest(Free)] = 0
         /\ opens + 1 \in 1..MaxOpens /\ opens' = opens + 1
         /\ opens' \in 0..MaxOpens
         /\ table' = [table EXCEPT ![Lowest(Free)] = opens + 1]
         /\ table' \in [Fd -> 0..opens']
         /\ segment' = [segment EXCEPT ![opens + 1] = s]
         /\ segment' \in [Description -> 0..opens']
         /\ called' = [called EXCEPT ![opens + 1] = n]
         /\ called' \in [Description -> Name \cup {NoName}]
         /\ OneNumber'
<1>1. Lowest(Free) \in Free
  <2>1. Free \in SUBSET Fd /\ Free # {}
    BY DEF Free, NewDescription
  <2> QED BY <2>1, LowestFree
<1>2. Lowest(Free) \in Fd /\ table[Lowest(Free)] = 0
  BY <1>1 DEF Free
<1>3. opens + 1 \in 1..MaxOpens /\ opens' = opens + 1 /\ opens' \in 0..MaxOpens
  BY DescriptorsAssumption DEF NewDescription, OInv, DTypeOK
<1>4. /\ table' = [table EXCEPT ![Lowest(Free)] = opens + 1]
      /\ segment' = [segment EXCEPT ![opens + 1] = s]
      /\ called' = [called EXCEPT ![opens + 1] = n]
  BY DEF NewDescription
<1>5. /\ table' \in [Fd -> 0..opens'] /\ segment' \in [Description -> 0..opens']
      /\ called' \in [Description -> Name \cup {NoName}]
  BY <1>2, <1>3, <1>4 DEF OInv, DTypeOK, Description
<1>6. OneNumber'
  BY <1>2, <1>3, <1>4, <1>5 DEF OInv, DTypeOK, OneNumber
<1> QED BY <1>2, <1>3, <1>4, <1>5, <1>6
-----------------------------------------------------------------------------
(* Construction                                                            *)

(* What a constructor does to the objects: the others keep what they have. *)
LEMMA ConstructFacts ==
  ASSUME OInv, NEW o \in Object, NEW k \in {"File", "SharedMemory"}, NEW f \in 0..MaxFd,
         NEW n \in Name \cup {NoName}, NEW d \in 0..opens', Construct(o, k, f, n, d),
         opens' \in Nat, opens <= opens'
  PROVE  /\ kind' \in [Object -> {"none", "File", "SharedMemory"}]
         /\ fd' \in [Object -> 0..MaxFd]
         /\ path' \in [Object -> Name \cup {NoName}]
         /\ holds' \in [Object -> 0..opens']
         /\ kind[o] = "none" /\ fd[o] = InvalidFd /\ path[o] = NoName /\ holds[o] = 0
         /\ kind'[o] = k /\ fd'[o] = f /\ path'[o] = n /\ holds'[o] = d
         /\ \A p \in Object : p # o =>
              /\ kind'[p] = kind[p] /\ fd'[p] = fd[p]
              /\ path'[p] = path[p] /\ holds'[p] = holds[p]
BY DEF OInv, DTypeOK, Ownership, Construct

(* A constructor that opens a descriptor (File, SharedMemory::create and   *)
(* open): the object is the only one that has it, and takes the name with  *)
(* it that create made it for.                                             *)
LEMMA MadeWithDescription ==
  ASSUME OInv, NEW o \in Object,
         NEW k \in {"File", "SharedMemory"}, NEW n \in Name \cup {NoName},
         NEW s, s \in 0..(opens + 1),
         NewDescription(s, n), Construct(o, k, Lowest(Free), n, opens + 1),
         names' = names \/ names' = [names EXCEPT ![n] = s],
         UNCHANGED <<raw, leaked, failed>>
  PROVE  OInv'
<1> DEFINE f == Lowest(Free)
<1>0. NoName \notin Name /\ MaxFd \in Nat /\ MaxOpens \in Nat
  BY DescriptorsAssumption
<1>1. /\ f \in Fd /\ table[f] = 0
      /\ opens + 1 \in 1..MaxOpens /\ opens' = opens + 1
      /\ opens' \in 0..MaxOpens
      /\ table' = [table EXCEPT ![f] = opens + 1]
      /\ table' \in [Fd -> 0..opens']
      /\ segment' = [segment EXCEPT ![opens + 1] = s]
      /\ segment' \in [Description -> 0..opens']
      /\ called' = [called EXCEPT ![opens + 1] = n]
      /\ called' \in [Description -> Name \cup {NoName}]
      /\ OneNumber'
  BY NewFacts
<1>2. opens \in 0..MaxOpens /\ f \in 1..MaxFd /\ f \in 0..MaxFd /\ opens + 1 \in 0..opens'
  BY <1>0, <1>1 DEF OInv, DTypeOK, Fd
<1>3. /\ kind' \in [Object -> {"none", "File", "SharedMemory"}]
      /\ fd' \in [Object -> 0..MaxFd]
      /\ path' \in [Object -> Name \cup {NoName}]
      /\ holds' \in [Object -> 0..opens']
      /\ kind[o] = "none" /\ fd[o] = InvalidFd /\ path[o] = NoName /\ holds[o] = 0
      /\ kind'[o] = k /\ fd'[o] = f /\ path'[o] = n /\ holds'[o] = opens + 1
      /\ \A p \in Object : p # o =>
           /\ kind'[p] = kind[p] /\ fd'[p] = fd[p]
           /\ path'[p] = path[p] /\ holds'[p] = holds[p]
  <2>1. opens' \in Nat /\ opens <= opens'
    BY <1>1, <1>2
  <2> QED BY <2>1, <1>2, ConstructFacts
<1> HIDE DEF f
<1>4. DTypeOK'
  BY <1>0, <1>1, <1>2, <1>3 DEF OInv, DTypeOK
<1>5. Ownership'
  BY <1>0, <1>1, <1>2, <1>3 DEF OInv, DTypeOK, Ownership, InvalidFd
<1>6. SoleOwner'
  <2> SUFFICES ASSUME ~failed, NEW p \in Object, fd'[p] # 0
               PROVE  /\ table'[fd'[p]] = holds'[p] /\ holds'[p] # 0
                      /\ \A q \in Object : fd'[q] = fd'[p] => q = p
    BY DEF SoleOwner, OpenOwns, isOpened, InvalidFd
  <2>1. \A q \in Object : q # o /\ fd[q] # 0 =>
          fd[q] \in Fd /\ table[fd[q]] = holds[q] /\ holds[q] # 0 /\ fd[q] # f
    BY <1>0, <1>1 DEF OInv, DTypeOK, SoleOwner, OpenOwns, isOpened, InvalidFd, Fd
  <2>2. CASE p = o
    BY <2>2, <2>1, <1>1, <1>2, <1>3 DEF OInv, DTypeOK
  <2>3. CASE p # o
    BY <2>3, <2>1, <1>1, <1>2, <1>3 DEF OInv, DTypeOK, SoleOwner, OpenOwns, isOpened, InvalidFd
  <2> QED BY <2>2, <2>3
<1>7. NoneLost'
  <2> SUFFICES ASSUME NEW h \in Fd, table'[h] # 0
               PROVE  table'[h] \in raw \cup leaked \/ \E p \in Object : fd'[p] = h
    BY DEF NoneLost
  <2>1. CASE h = f
    BY <2>1, <1>3
  <2>2. CASE h # f
    <3>1. table'[h] = table[h]
      BY <2>2, <1>1 DEF OInv, DTypeOK
    <3>2. \A p \in Object : fd[p] = h => fd'[p] = h
      BY <1>0, <1>3 DEF InvalidFd, Fd
    <3> QED BY <3>1, <3>2 DEF OInv, NoneLost
  <2> QED BY <2>1, <2>2
<1>8. NameFollows'
  <2> SUFFICES ASSUME NEW p \in Object, fd'[p] # 0
               PROVE  path'[p] = called'[holds'[p]]
    BY DEF NameFollows, isOpened, InvalidFd
  <2>1. CASE p = o
    BY <2>1, <1>1, <1>2, <1>3 DEF OInv, DTypeOK, Description
  <2>2. CASE p # o
    <3>1. fd[p] # 0 /\ holds[p] \in 1..opens
      BY <2>2, <1>2, <1>3 DEF OInv, DTypeOK, Ownership, InvalidFd
    <3>2. called'[holds[p]] = called[holds[p]]
      BY <3>1, <1>1, <1>2 DEF OInv, DTypeOK, Description
    <3>3. path[p] = called[holds[p]]
      BY <3>1 DEF OInv, NameFollows, isOpened, InvalidFd
    <3> QED BY <2>2, <3>2, <3>3, <1>3
  <2> QED BY <2>1, <2>2
<1>9. Nameless'
  BY <1>1, <1>2 DEF OInv, DTypeOK, Nameless, Description
<1> QED BY <1>1, <1>4, <1>5, <1>6, <1>7, <1>8, <1>9 DEF OInv

(* A descriptor that no object gets: the client's own, or the one that     *)
(* create leaves behind when ftruncate refuses (sharedMemory.cpp:249).     *)
LEMMA MadeForNobody ==
  ASSUME OInv, NEW s, s \in 0..(opens + 1), NEW n \in Name \cup {NoName}, NewDescription(s, n),
         raw' = raw \/ (n = NoName /\ raw' = raw \cup {opens + 1}), leaked \subseteq leaked',
         raw' \cup leaked' = raw \cup leaked \cup {opens + 1},
         names' = names \/ names' = [names EXCEPT ![n] = s],
         UNCHANGED <<objects, failed>>
  PROVE  OInv'
<1> DEFINE f == Lowest(Free)
<1>0. NoName \notin Name /\ MaxFd \in Nat /\ MaxOpens \in Nat
  BY DescriptorsAssumption
<1>1. /\ f \in Fd /\ table[f] = 0
      /\ opens + 1 \in 1..MaxOpens /\ opens' = opens + 1
      /\ opens' \in 0..MaxOpens
      /\ table' = [table EXCEPT ![f] = opens + 1]
      /\ table' \in [Fd -> 0..opens']
      /\ segment' = [segment EXCEPT ![opens + 1] = s]
      /\ segment' \in [Description -> 0..opens']
      /\ called' = [called EXCEPT ![opens + 1] = n]
      /\ called' \in [Description -> Name \cup {NoName}]
      /\ OneNumber'
  BY NewFacts
<1>2. UNCHANGED <<kind, fd, path, holds, failed>> /\ opens \in 0..MaxOpens
  BY DEF objects, OInv, DTypeOK
<1> HIDE DEF f
<1>4. DTypeOK'
  <2>1. raw' \in SUBSET (1..opens') /\ leaked' \in SUBSET (1..opens')
    <3>1. raw \cup leaked \cup {opens + 1} \in SUBSET (1..opens')
      BY <1>1, <1>2 DEF OInv, DTypeOK
    <3> QED BY <3>1
  <2>2. names' \in [Name -> 0..opens'] /\ holds' \in [Object -> 0..opens']
    BY <1>1, <1>2 DEF OInv, DTypeOK
  <2> QED BY <2>1, <2>2, <1>1, <1>2 DEF OInv, DTypeOK
<1>5. Ownership'
  <2>1. \A o \in Object : holds[o] # opens + 1
    BY <1>2 DEF OInv, DTypeOK
  <2> QED BY <2>1, <1>2 DEF OInv, Ownership
<1>6. SoleOwner'
  <2>1. \A q \in Object : ~failed /\ fd[q] # 0 => fd[q] \in Fd /\ fd[q] # f
    BY <1>0, <1>1 DEF OInv, DTypeOK, SoleOwner, OpenOwns, isOpened, InvalidFd, Fd
  <2> QED BY <2>1, <1>1, <1>2 DEF OInv, DTypeOK, SoleOwner, OpenOwns, isOpened, InvalidFd
<1>7. NoneLost'
  BY <1>1, <1>2 DEF OInv, DTypeOK, NoneLost
<1>8. NameFollows'
  <2> SUFFICES ASSUME NEW p \in Object, fd[p] # 0
               PROVE  path[p] = called'[holds[p]]
    BY <1>2 DEF NameFollows, isOpened, InvalidFd
  <2>1. holds[p] \in 1..opens
    BY <1>2 DEF OInv, DTypeOK, Ownership, InvalidFd
  <2>2. called'[holds[p]] = called[holds[p]]
    BY <2>1, <1>1, <1>2 DEF OInv, DTypeOK, Description
  <2> QED BY <2>2 DEF OInv, NameFollows, isOpened, InvalidFd
<1>9. Nameless'
  BY <1>1, <1>2 DEF OInv, DTypeOK, Nameless, Description
<1> QED BY <1>1, <1>4, <1>5, <1>6, <1>7, <1>8, <1>9 DEF OInv

(* File() and SharedMemory().                                              *)
LEMMA DefaultStep ==
  ASSUME OInv, NEW o \in Object, NEW k \in {"File", "SharedMemory"},
         Default(o, k)
  PROVE  OInv'
<1>0. MaxFd \in Nat /\ opens \in Nat /\ UNCHANGED <<table, opens, segment, called, names, raw, leaked, failed>>
  BY DescriptorsAssumption DEF OInv, DTypeOK, Default
<1>1. fd' = fd /\ path' = path /\ holds' = holds /\ kind' = [kind EXCEPT ![o] = k]
  BY DEF OInv, DTypeOK, Ownership, Default, Construct
<1> QED
  BY <1>0, <1>1
     DEF OInv, DTypeOK, OneNumber, Ownership, Nameless, SoleOwner, OpenOwns, NoneLost, NameFollows, isOpened

(* fromFd: what the client held the object holds, and nobody else did      *)
(* (File and SharedMemory, fromFd).                                        *)
LEMMA FromFdStep ==
  ASSUME OInv, NEW o \in Object, NEW k \in {"File", "SharedMemory"},
         fromFd(o, k)
  PROVE  OInv'
<1>0. MaxFd \in Nat /\ opens \in Nat /\ UNCHANGED <<table, opens, segment, called, names, leaked, failed>>
  BY DescriptorsAssumption DEF OInv, DTypeOK, fromFd
<1>1. PICK f \in Fd : /\ table[f] \in raw
                      /\ Construct(o, k, f, NoName, table[f])
                      /\ raw' = raw \ {table[f]}
  BY DEF fromFd
<1>2. f \in 0..MaxFd /\ f # 0 /\ table[f] \in 0..opens' /\ table[f] # 0
  BY <1>0, <1>1 DEF OInv, DTypeOK, Fd
<1>3. /\ kind' \in [Object -> {"none", "File", "SharedMemory"}]
      /\ fd' \in [Object -> 0..MaxFd]
      /\ path' \in [Object -> Name \cup {NoName}]
      /\ holds' \in [Object -> 0..opens']
      /\ kind[o] = "none" /\ fd[o] = InvalidFd /\ path[o] = NoName /\ holds[o] = 0
      /\ kind'[o] = k /\ fd'[o] = f /\ path'[o] = NoName /\ holds'[o] = table[f]
      /\ \A p \in Object : p # o =>
           /\ kind'[p] = kind[p] /\ fd'[p] = fd[p]
           /\ path'[p] = path[p] /\ holds'[p] = holds[p]
  BY <1>0, <1>1, <1>2, ConstructFacts
<1>4. DTypeOK' /\ OneNumber'
  BY <1>0, <1>1, <1>3 DEF OInv, DTypeOK, OneNumber
<1>5. Ownership'
  BY <1>1, <1>2, <1>3 DEF OInv, Ownership, InvalidFd
<1>6. SoleOwner'
  <2>1. \A p \in Object : ~failed /\ p # o => fd[p] # f
    BY <1>1, <1>2 DEF OInv, Ownership, SoleOwner, OpenOwns, isOpened, InvalidFd
  <2> QED BY <2>1, <1>0, <1>2, <1>3 DEF OInv, SoleOwner, OpenOwns, isOpened, InvalidFd
<1>7. NoneLost'
  <2>1. \A h \in Fd : h # f /\ table[h] # 0 => table[h] # table[f]
    BY DEF OInv, OneNumber
  <2>2. \A p \in Object : fd[p] # 0 => fd'[p] = fd[p]
    BY <1>3 DEF InvalidFd
  <2>3. \A h \in Fd : h # 0
    BY <1>0 DEF Fd
  <2> QED BY <2>1, <2>2, <2>3, <1>0, <1>1, <1>3 DEF OInv, NoneLost
<1>8. NameFollows'
  <2>1. called[table[f]] = NoName
    <3>1. table[f] \in Description
      BY <1>0, <1>1, DescriptorsAssumption DEF OInv, DTypeOK, Description
    <3> QED BY <1>1, <3>1 DEF OInv, Nameless
  <2> QED BY <1>0, <1>3, <2>1 DEF OInv, NameFollows, isOpened
<1>9. Nameless'
  BY <1>0, <1>1 DEF OInv, Nameless
<1> QED BY <1>4, <1>5, <1>6, <1>7, <1>8, <1>9 DEF OInv

(* createPipe (pipe.cpp): two objects, two descriptors.                    *)
LEMMA PipeStep ==
  ASSUME OInv, NEW i \in Object, NEW o \in Object, createPipe(i, o)
  PROVE  OInv'
<1> DEFINE f == Lowest(Free)
           g == Lowest(Free \ {f})
<1>0. /\ MaxFd \in Nat /\ MaxOpens \in Nat /\ opens \in Nat /\ opens \in 0..MaxOpens
      /\ UNCHANGED <<path, segment, called, names, raw, leaked, failed>>
  BY DescriptorsAssumption DEF OInv, DTypeOK, createPipe
<1>1. f \in Fd /\ g \in Fd /\ f # g /\ table[f] = 0 /\ table[g] = 0
  <2>1. Cardinality(Free) >= 2
    BY DEF createPipe
  <2> QED BY <2>1, TwoFree DEF Free
<1>2. /\ i # o /\ kind[i] = "none" /\ kind[o] = "none"
      /\ opens + 2 <= MaxOpens /\ opens' = opens + 2
      /\ table' = [table EXCEPT ![f] = opens + 1, ![g] = opens + 2]
      /\ kind' = [kind EXCEPT ![i] = "File", ![o] = "File"]
      /\ fd' = [fd EXCEPT ![i] = f, ![o] = g]
      /\ holds' = [holds EXCEPT ![i] = opens + 1, ![o] = opens + 2]
  BY DEF createPipe
<1> HIDE DEF f, g
<1>3. f \in 0..MaxFd /\ g \in 0..MaxFd /\ f # 0 /\ g # 0
  BY <1>0, <1>1 DEF Fd
<1>4. DTypeOK'
  <2>1. table' \in [Fd -> 0..opens'] /\ holds' \in [Object -> 0..opens']
    BY <1>0, <1>1, <1>2 DEF OInv, DTypeOK
  <2>2. kind' \in [Object -> {"none", "File", "SharedMemory"}] /\ fd' \in [Object -> 0..MaxFd]
    BY <1>2, <1>3 DEF OInv, DTypeOK
  <2>3. opens' \in 0..MaxOpens /\ 0..opens \subseteq 0..opens' /\ 1..opens \subseteq 1..opens'
    BY <1>0, <1>2
  <2> QED BY <1>0, <2>1, <2>2, <2>3 DEF OInv, DTypeOK
<1>5. OneNumber'
  BY <1>0, <1>1, <1>2 DEF OInv, DTypeOK, OneNumber
<1>6. Ownership'
  BY <1>0, <1>2, <1>3 DEF OInv, DTypeOK, Ownership, InvalidFd
<1>7. SoleOwner'
  <2> SUFFICES ASSUME ~failed, NEW p \in Object, fd'[p] # 0
               PROVE  /\ table'[fd'[p]] = holds'[p] /\ holds'[p] # 0
                      /\ \A q \in Object : fd'[q] = fd'[p] => q = p
    BY <1>0 DEF SoleOwner, OpenOwns, isOpened, InvalidFd
  <2>1. \A q \in Object : fd[q] # 0 =>
          /\ fd[q] \in Fd /\ table[fd[q]] = holds[q] /\ holds[q] # 0
          /\ fd[q] # f /\ fd[q] # g /\ q # i /\ q # o
    BY <1>0, <1>1, <1>2 DEF OInv, DTypeOK, Ownership, SoleOwner, OpenOwns, isOpened, InvalidFd, Fd
  <2>2. CASE p \in {i, o}
    BY <2>2, <2>1, <1>0, <1>1, <1>2, <1>3 DEF OInv, DTypeOK
  <2>3. CASE p \notin {i, o}
    BY <2>3, <2>1, <1>0, <1>1, <1>2 DEF OInv, DTypeOK, SoleOwner, OpenOwns, isOpened, InvalidFd
  <2> QED BY <2>2, <2>3
<1>8. NoneLost'
  <2>1. \A p \in Object : fd[p] # 0 => fd'[p] = fd[p]
    BY <1>2 DEF OInv, DTypeOK, Ownership, InvalidFd
  <2>2. fd'[i] = f /\ fd'[o] = g
    BY <1>2 DEF OInv, DTypeOK
  <2>3. \A h \in Fd : h # 0 /\ (h \notin {f, g} => table'[h] = table[h])
    BY <1>0, <1>2 DEF OInv, DTypeOK, Fd
  <2> QED BY <2>1, <2>2, <2>3, <1>0 DEF OInv, NoneLost
<1>9. NameFollows'
  <2>1. called[opens + 1] = NoName /\ called[opens + 2] = NoName
    BY <1>0, <1>2 DEF OInv, Nameless, Description
  <2>2. path[i] = NoName /\ path[o] = NoName
    BY <1>2 DEF OInv, Ownership
  <2>3. /\ holds'[i] = opens + 1 /\ holds'[o] = opens + 2
        /\ \A p \in Object \ {i, o} : fd'[p] = fd[p] /\ holds'[p] = holds[p]
    BY <1>2 DEF OInv, DTypeOK
  <2> QED BY <1>0, <2>1, <2>2, <2>3 DEF OInv, NameFollows, isOpened
<1>10. Nameless'
  BY <1>0, <1>2 DEF OInv, Nameless, Description
<1> QED BY <1>4, <1>5, <1>6, <1>7, <1>8, <1>9, <1>10 DEF OInv
-----------------------------------------------------------------------------
(* Transfer and closing                                                    *)

(* The move constructors: p has what o had.                                *)
LEMMA MoveStep ==
  ASSUME OInv, NEW o \in Object, NEW p \in Object, move(p, o)
  PROVE  OInv'
<1>0. /\ UNCHANGED <<table, opens, segment, called, names, raw, leaked, failed>>
      /\ MaxFd \in Nat /\ opens \in Nat /\ p # o
  BY DescriptorsAssumption DEF OInv, DTypeOK, move
<1>1. /\ kind'[p] = kind[o] /\ fd'[p] = fd[o] /\ path'[p] = path[o] /\ holds'[p] = holds[o]
      /\ kind'[o] = kind[o] /\ fd'[o] = 0 /\ path'[o] = NoName /\ holds'[o] = 0
      /\ kind[o] # "none" /\ fd[p] = 0
      /\ \A q \in Object \ {o, p} :
           kind'[q] = kind[q] /\ fd'[q] = fd[q] /\ path'[q] = path[q] /\ holds'[q] = holds[q]
  BY <1>0 DEF move, OInv, DTypeOK, Ownership, InvalidFd
<1>2. DTypeOK' /\ OneNumber'
  BY <1>0 DEF move, OInv, DTypeOK, OneNumber, InvalidFd
<1>3. Ownership'
  <2>1. 0 \notin raw
    BY DEF OInv, DTypeOK
  <2> QED BY <1>0, <1>1, <2>1 DEF OInv, Ownership, InvalidFd
<1>4. SoleOwner'
  BY <1>0, <1>1 DEF OInv, SoleOwner, OpenOwns, isOpened, InvalidFd
<1>5. NoneLost'
  <2>1. \A h \in Fd : h # 0
    BY <1>0 DEF Fd
  <2> QED BY <1>0, <1>1, <2>1 DEF OInv, NoneLost
<1>6. NameFollows'
  BY <1>0, <1>1 DEF OInv, NameFollows, isOpened, InvalidFd
<1>7. Nameless'
  BY <1>0 DEF OInv, Nameless
<1> QED BY <1>2, <1>3, <1>4, <1>5, <1>6, <1>7 DEF OInv

(* swap and the move assignments.                                          *)
LEMMA SwapStep ==
  ASSUME OInv, NEW o \in Object, NEW p \in Object, swap(o, p)
  PROVE  OInv'
<1>0. /\ UNCHANGED <<kind, table, opens, segment, called, names, raw, leaked, failed>>
      /\ MaxFd \in Nat /\ opens \in Nat /\ p # o
  BY DescriptorsAssumption DEF OInv, DTypeOK, swap
<1>1. /\ fd'[p] = fd[o] /\ path'[p] = path[o] /\ holds'[p] = holds[o]
      /\ fd'[o] = fd[p] /\ path'[o] = path[p] /\ holds'[o] = holds[p]
      /\ kind[o] # "none" /\ kind[p] = kind[o]
      /\ \A q \in Object \ {o, p} :
           fd'[q] = fd[q] /\ path'[q] = path[q] /\ holds'[q] = holds[q]
  BY <1>0 DEF swap, OInv, DTypeOK
<1>2. DTypeOK' /\ OneNumber'
  BY <1>0 DEF swap, OInv, DTypeOK, OneNumber
<1>3. Ownership'
  BY <1>0, <1>1 DEF OInv, Ownership
<1>4. SoleOwner'
  BY <1>0, <1>1 DEF OInv, SoleOwner, OpenOwns, isOpened
<1>5. NoneLost'
  BY <1>0, <1>1 DEF OInv, NoneLost
<1>6. NameFollows'
  BY <1>0, <1>1 DEF OInv, NameFollows, isOpened
<1>7. Nameless'
  BY <1>0 DEF OInv, Nameless
<1> QED BY <1>2, <1>3, <1>4, <1>5, <1>6, <1>7 DEF OInv

(* close of one object: its number is free, or close(2) failed.            *)
LEMMA CloseStep ==
  ASSUME OInv, NEW o \in Object, close(o)
  PROVE  OInv'
<1>0. /\ UNCHANGED <<kind, path, opens, segment, called, names, raw, leaked>>
      /\ MaxFd \in Nat /\ opens \in Nat /\ fd[o] # 0 /\ fd[o] \in Fd
  BY DescriptorsAssumption DEF OInv, DTypeOK, close, isOpened, InvalidFd, Fd
<1>1. /\ table'[fd[o]] = 0
      /\ \A h \in Fd : h # fd[o] => table'[h] = table[h]
  BY <1>0 DEF close, Closed, OInv, DTypeOK
<1>2. /\ \A q \in Object : q # o => fd'[q] = fd[q] /\ holds'[q] = holds[q]
      /\ \/ fd'[o] = 0 /\ holds'[o] = 0 /\ UNCHANGED failed
         \/ failed' = TRUE /\ UNCHANGED <<fd, holds>>
  BY DEF close, OInv, DTypeOK, InvalidFd
<1>3. DTypeOK'
  <2>1. failed' \in BOOLEAN
    <3>1. failed \in BOOLEAN
      BY DEF OInv, DTypeOK
    <3> QED BY <1>2, <3>1, Zenon
  <2>2. /\ table' \in [Fd -> 0..opens] /\ fd' \in [Object -> 0..MaxFd]
        /\ holds' \in [Object -> 0..opens]
    BY <1>0 DEF close, Closed, OInv, DTypeOK, InvalidFd
  <2> QED BY <1>0, <2>1, <2>2 DEF OInv, DTypeOK
<1>4. OneNumber'
  BY <1>1 DEF OInv, OneNumber
<1>5. Ownership'
  <2>1. 0 \notin raw
    BY DEF OInv, DTypeOK
  <2> QED BY <1>0, <1>2, <2>1 DEF OInv, Ownership, InvalidFd
<1>6. SoleOwner'
  <2> SUFFICES ASSUME ~failed', NEW p \in Object, fd'[p] # 0
               PROVE  /\ table'[fd'[p]] = holds'[p] /\ holds'[p] # 0
                      /\ \A q \in Object : fd'[q] = fd'[p] => q = p
    BY DEF SoleOwner, OpenOwns, isOpened, InvalidFd
  <2>1. ~failed /\ p # o /\ fd'[p] = fd[p] /\ fd'[o] = 0
    BY <1>2
  <2>2. fd[p] \in Fd /\ fd[p] # fd[o]
    BY <1>0, <2>1 DEF OInv, DTypeOK, SoleOwner, OpenOwns, isOpened, InvalidFd, Fd
  <2> QED BY <1>1, <1>2, <2>1, <2>2 DEF OInv, SoleOwner, OpenOwns, isOpened, InvalidFd
<1>7. NoneLost'
  BY <1>0, <1>1, <1>2 DEF OInv, NoneLost
<1>8. NameFollows'
  BY <1>0, <1>2 DEF OInv, NameFollows, isOpened, InvalidFd
<1>9. Nameless'
  BY <1>0 DEF OInv, Nameless
<1> QED BY <1>3, <1>4, <1>5, <1>6, <1>7, <1>8, <1>9 DEF OInv

(* Duplex::close (duplex.cpp) of two objects that both close.              *)
LEMMA DuplexCloseStep ==
  ASSUME OInv, NEW i \in Object, NEW o \in Object, DuplexClose(i, o)
  PROVE  OInv'
<1>0. /\ UNCHANGED <<kind, path, opens, segment, called, names, raw, leaked, failed>>
      /\ MaxFd \in Nat /\ opens \in Nat /\ i # o
      /\ fd[i] # 0 /\ fd[i] \in Fd /\ fd[o] # 0 /\ fd[o] \in Fd
  BY DescriptorsAssumption DEF OInv, DTypeOK, DuplexClose, isOpened, InvalidFd, Fd
<1>1. /\ table'[fd[i]] = 0 /\ table'[fd[o]] = 0
      /\ \A h \in Fd : h \notin {fd[i], fd[o]} => table'[h] = table[h]
  BY <1>0 DEF DuplexClose, Closed, OInv, DTypeOK
<1>2. /\ \A q \in Object : q \notin {i, o} => fd'[q] = fd[q] /\ holds'[q] = holds[q]
      /\ fd'[o] = 0 /\ holds'[o] = 0 /\ fd'[i] = 0 /\ holds'[i] = 0
  BY <1>0 DEF DuplexClose, OInv, DTypeOK, InvalidFd
<1>3. DTypeOK'
  BY <1>0 DEF DuplexClose, Closed, OInv, DTypeOK, InvalidFd
<1>4. OneNumber'
  BY <1>1 DEF OInv, OneNumber
<1>5. Ownership'
  <2>1. 0 \notin raw
    BY DEF OInv, DTypeOK
  <2> QED BY <1>0, <1>2, <2>1 DEF OInv, Ownership, InvalidFd
<1>6. SoleOwner'
  <2> SUFFICES ASSUME ~failed, NEW p \in Object, fd'[p] # 0
               PROVE  /\ table'[fd'[p]] = holds'[p] /\ holds'[p] # 0
                      /\ \A q \in Object : fd'[q] = fd'[p] => q = p
    BY <1>0 DEF SoleOwner, OpenOwns, isOpened, InvalidFd
  <2>1. p \notin {i, o} /\ fd'[p] = fd[p]
    BY <1>2
  <2>2. fd[p] \in Fd /\ fd[p] # fd[o] /\ fd[p] # fd[i]
    BY <1>0, <2>1 DEF OInv, DTypeOK, SoleOwner, OpenOwns, isOpened, InvalidFd, Fd
  <2> QED BY <1>1, <1>2, <2>1, <2>2 DEF OInv, SoleOwner, OpenOwns, isOpened, InvalidFd
<1>7. NoneLost'
  BY <1>0, <1>1, <1>2 DEF OInv, NoneLost
<1>8. NameFollows'
  BY <1>0, <1>2 DEF OInv, NameFollows, isOpened, InvalidFd
<1>9. Nameless'
  BY <1>0 DEF OInv, Nameless
<1> QED BY <1>3, <1>4, <1>5, <1>6, <1>7, <1>8, <1>9 DEF OInv

(* The destructors.                                                        *)
LEMMA DestroyStep ==
  ASSUME OInv, NEW o \in Object, destroy(o)
  PROVE  OInv'
<1>0. /\ UNCHANGED <<opens, segment, called, raw, leaked, failed>>
      /\ MaxFd \in Nat /\ opens \in Nat
      /\ fd[o] # 0 => fd[o] \in Fd
  BY DescriptorsAssumption DEF OInv, DTypeOK, destroy, Fd
<1>1. /\ fd[o] # 0 => table'[fd[o]] = 0
      /\ \A h \in Fd : h # fd[o] => table'[h] = table[h]
      /\ \A h \in Fd : h # 0
      /\ table' \in [Fd -> 0..opens]
  BY <1>0 DEF destroy, Closed, isOpened, InvalidFd, OInv, DTypeOK, Fd
<1>2. /\ kind'[o] = "none" /\ fd'[o] = 0 /\ path'[o] = NoName /\ holds'[o] = 0
      /\ \A q \in Object : q # o =>
           kind'[q] = kind[q] /\ fd'[q] = fd[q] /\ path'[q] = path[q] /\ holds'[q] = holds[q]
  BY DEF destroy, OInv, DTypeOK, InvalidFd
<1>3. names' \in [Name -> 0..opens]
  BY <1>0 DEF destroy, OInv, DTypeOK
<1>4. DTypeOK'
  BY <1>0, <1>1, <1>3 DEF destroy, OInv, DTypeOK, InvalidFd
<1>5. OneNumber'
  BY <1>1 DEF OInv, OneNumber
<1>6. Ownership'
  <2>1. 0 \notin raw
    BY DEF OInv, DTypeOK
  <2> QED BY <1>0, <1>2, <2>1 DEF OInv, Ownership, InvalidFd
<1>7. SoleOwner'
  <2> SUFFICES ASSUME ~failed, NEW p \in Object, fd'[p] # 0
               PROVE  /\ table'[fd'[p]] = holds'[p] /\ holds'[p] # 0
                      /\ \A q \in Object : fd'[q] = fd'[p] => q = p
    BY <1>0 DEF SoleOwner, OpenOwns, isOpened, InvalidFd
  <2>1. p # o /\ fd'[p] = fd[p]
    BY <1>2
  <2>2. fd[p] \in Fd /\ fd[p] # fd[o]
    BY <1>0, <2>1 DEF OInv, DTypeOK, SoleOwner, OpenOwns, isOpened, InvalidFd, Fd
  <2> QED BY <1>1, <1>2, <2>1, <2>2 DEF OInv, SoleOwner, OpenOwns, isOpened, InvalidFd
<1>8. NoneLost'
  BY <1>0, <1>1, <1>2 DEF OInv, NoneLost
<1>9. NameFollows'
  BY <1>0, <1>2 DEF OInv, NameFollows, isOpened, InvalidFd
<1>10. Nameless'
  BY <1>0 DEF OInv, Nameless
<1> QED BY <1>4, <1>5, <1>6, <1>7, <1>8, <1>9, <1>10 DEF OInv

(* SharedMemory::create, in both outcomes of ftruncate.                    *)
LEMMA CreateStep ==
  ASSUME OInv, NEW o \in Object, NEW n \in Name,
         NEW truncated \in BOOLEAN, create(o, n, truncated)
  PROVE  OInv'
<1> DEFINE s == IF names[n] = 0 THEN opens + 1 ELSE names[n]
<1>1. s \in 0..(opens + 1)
  BY DEF OInv, DTypeOK
<1>2. /\ NewDescription(s, n) /\ names' = [names EXCEPT ![n] = s]
      /\ UNCHANGED <<raw, failed>>
  BY DEF create
<1>3. CASE truncated
  <2>1. Construct(o, "SharedMemory", Lowest(Free), n, opens + 1) /\ UNCHANGED leaked
    BY <1>3 DEF create
  <2> HIDE DEF s
  <2> QED BY <1>1, <1>2, <2>1, MadeWithDescription
<1>4. CASE ~truncated
  <2>1. leaked' = leaked \cup {opens + 1} /\ UNCHANGED objects
    BY <1>4 DEF create
  <2> HIDE DEF s
  <2>2. /\ leaked \subseteq leaked' /\ raw' = raw
        /\ raw' \cup leaked' = raw \cup leaked \cup {opens + 1}
    BY <1>2, <2>1
  <2>3. UNCHANGED <<objects, failed>>
    BY <1>2, <2>1
  <2> QED BY <1>1, <1>2, <2>2, <2>3, MadeForNobody
<1> QED BY <1>3, <1>4

(* SharedMemory::open (sharedMemory.cpp): the object has no name.          *)
LEMMA OpenStep ==
  ASSUME OInv, NEW o \in Object, NEW n \in Name, open(o, n)
  PROVE  OInv'
<1>1. names[n] \in 0..(opens + 1)
  BY DEF OInv, DTypeOK
<1>2. /\ NewDescription(names[n], NoName) /\ UNCHANGED <<names, raw, leaked, failed>>
      /\ Construct(o, "SharedMemory", Lowest(Free), NoName, opens + 1)
  BY DEF open
<1> QED BY <1>1, <1>2, MadeWithDescription

(* SharedMemory::unlink: a name goes, nothing else does.                   *)
LEMMA UnlinkStep ==
  ASSUME OInv, NEW n \in Name, unlink(n)
  PROVE  OInv'
<1>1. UNCHANGED <<kind, fd, path, holds, table, opens, segment, called, raw, leaked, failed>>
  BY DEF unlink, objects
<1>2. names' \in [Name -> 0..opens]
  BY DEF unlink, OInv, DTypeOK
<1> QED
  BY <1>1, <1>2
     DEF OInv, DTypeOK, OneNumber, Ownership, Nameless, SoleOwner, OpenOwns, NoneLost, NameFollows, isOpened
-----------------------------------------------------------------------------
(* The invariants of a behaviour                                           *)

(* Before the first object there is nothing to own.                        *)
LEMMA OwnershipInit ==
  ASSUME Init
  PROVE  OInv
<1>1. MaxFd \in Nat /\ MaxOpens \in Nat
  BY DescriptorsAssumption
<1>2. DTypeOK
  <2>1. opens \in 0..MaxOpens /\ 0..opens = {0}
    BY <1>1 DEF Init
  <2>2. failed \in BOOLEAN
    BY DEF Init
  <2> QED BY <1>1, <2>1, <2>2 DEF Init, DTypeOK, InvalidFd
<1>3. OneNumber /\ NoneLost
  BY DEF Init, OneNumber, NoneLost
<1>4. Ownership /\ Nameless /\ SoleOwner /\ NameFollows
  BY DEF Init, Ownership, Nameless, SoleOwner, OpenOwns, NameFollows, isOpened, InvalidFd
<1> QED BY <1>2, <1>3, <1>4 DEF OInv

(* Every operation of the library keeps the ownership right.               *)
LEMMA OwnershipStep ==
  ASSUME OInv, [Next]_vars
  PROVE  OInv'
<1>1. CASE ClientOpen
  <2>1. /\ NewDescription(0, NoName) /\ 0 \in 0..(opens + 1)
        /\ raw' = raw \cup {opens + 1} /\ leaked \subseteq leaked'
        /\ raw' \cup leaked' = raw \cup leaked \cup {opens + 1}
        /\ UNCHANGED <<objects, names, failed>>
    BY <1>1 DEF ClientOpen, OInv, DTypeOK
  <2> QED BY <2>1, MadeForNobody
<1>2. ASSUME NEW o \in Object, NEW k \in {"File", "SharedMemory"}, Default(o, k) \/ fromFd(o, k)
      PROVE  OInv'
  BY <1>2, DefaultStep, FromFdStep
<1>3. ASSUME NEW o \in Object, FileOpen(o)
      PROVE  OInv'
  <2>1. /\ NewDescription(0, NoName) /\ 0 \in 0..(opens + 1)
        /\ Construct(o, "File", Lowest(Free), NoName, opens + 1)
        /\ UNCHANGED <<names, raw, leaked, failed>>
    BY <1>3 DEF FileOpen, OInv, DTypeOK
  <2> QED BY <2>1, MadeWithDescription
<1>4. ASSUME NEW o \in Object, close(o) \/ destroy(o)
      PROVE  OInv'
  BY <1>4, CloseStep, DestroyStep
<1>5. ASSUME NEW o \in Object, NEW p \in Object,
             createPipe(o, p) \/ move(p, o) \/ swap(o, p) \/ DuplexClose(o, p)
      PROVE  OInv'
  BY <1>5, PipeStep, MoveStep, SwapStep, DuplexCloseStep
<1>6. ASSUME NEW o \in Object, NEW n \in Name, NEW truncated \in BOOLEAN, create(o, n, truncated)
      PROVE  OInv'
  BY <1>6, CreateStep
<1>7. ASSUME NEW o \in Object, NEW n \in Name, open(o, n)
      PROVE  OInv'
  BY <1>7, OpenStep
<1>8. ASSUME NEW n \in Name, unlink(n)
      PROVE  OInv'
  BY <1>8, UnlinkStep
<1>9. CASE UNCHANGED vars
  BY <1>9 DEF vars, objects, OInv, DTypeOK, OneNumber, Ownership, Nameless, SoleOwner, OpenOwns, NoneLost,
              NameFollows, isOpened
<1> QED BY <1>1, <1>2, <1>3, <1>4, <1>5, <1>6, <1>7, <1>8, <1>9 DEF Next

(* What a client that maps does to objects, descriptors and names is among *)
(* the steps of module Descriptors.                                        *)
LEMMA MapsNextOwnership ==
  ASSUME MapsNext
  PROVE  [Next]_vars
<1>1. CASE client = "owns" /\ Next
  BY <1>1
<1>2. CASE MapNext
  <2>1. ASSUME NEW o \in Object, NEW n \in Name, NEW memSize \in Sizes,
               NEW truncated \in BOOLEAN, createSized(o, n, memSize, truncated)
        PROVE  Next
    BY <2>1 DEF createSized, Next
  <2>2. ASSUME \/ \E o \in Object : \E mapSize \in Sizes : map(o, mapSize)
               \/ \E memSize \in Sizes : createAnon(memSize)
               \/ dispose
        PROVE  UNCHANGED vars
    BY <2>2 DEF map, createAnon, mapMem, dispose
  <2>3. ASSUME \/ \E o \in Object, n \in Name : open(o, n)
               \/ \E o \in Object : close(o) \/ destroy(o)
               \/ \E o, p \in Object : move(p, o) \/ swap(o, p)
               \/ \E n \in Name : unlink(n)
        PROVE  Next
    BY <2>3 DEF Next
  <2> QED BY <1>2, <2>1, <2>2, <2>3 DEF MapNext
<1> QED BY <1>1, <1>2 DEF MapsNext

(* Files, pipes and shared memory, whatever order they are opened, moved,  *)
(* swapped, closed and destroyed in (file.cpp, duplex.cpp, pipe.cpp,       *)
(* sharedMemory.cpp): an open object owns its descriptor, none is lost,    *)
(* and the name a SharedMemory will unlink is the one it was created with. *)
THEOREM OwnershipAlways == Spec => [](SoleOwner /\ NoneLost /\ NameFollows)
<1>1. OInv => SoleOwner /\ NoneLost /\ NameFollows
  BY DEF OInv
<1> QED BY <1>1, OwnershipInit, OwnershipStep, PTL DEF Spec

(* The descriptions of a client that maps are of segments, and the size of *)
(* a segment is what the last create made it: one step of createSized.     *)
LEMMA CreateSizedStep ==
  ASSUME MInv, client = "maps", UNCHANGED client, NEW o \in Object, NEW n \in Name,
         NEW memSize \in Sizes, NEW truncated \in BOOLEAN,
         createSized(o, n, memSize, truncated), OInv'
  PROVE  MTypeOK' /\ AllShared' /\ WholeIsShared' /\ MapsItsSegment'
<1> DEFINE s == IF names[n] = 0 THEN opens + 1 ELSE names[n]
<1>0. memSize \in Nat /\ MaxOpens \in Nat /\ opens \in 0..MaxOpens
  BY MapsAssumption, DescriptorsAssumption DEF MInv, OInv, DTypeOK
<1>1. NewDescription(s, n) /\ names' = [names EXCEPT ![n] = s] /\ UNCHANGED failed
  BY DEF createSized, create
<1>2. opens' = opens + 1 /\ opens < MaxOpens /\ segment' = [segment EXCEPT ![opens + 1] = s]
  BY <1>1 DEF NewDescription
<1>3. s \in 1..(opens + 1) /\ names'[n] = s /\ s \in Description
  BY <1>0, <1>1, <1>2 DEF MInv, OInv, DTypeOK, Description
<1>4. \/ UNCHANGED <<length, mapping>>
      \/ /\ length' = [length EXCEPT ![s] = memSize]
         /\ mapping' = IF mapping.segment = s /\ memSize < mapping.size
                       THEN [mapping EXCEPT !.cut = TRUE]
                       ELSE mapping
  BY <1>3 DEF createSized, mapVars
<1> HIDE DEF s
<1>5. AllShared'
  BY <1>0, <1>2, <1>3 DEF MInv, OInv, DTypeOK, AllShared, Description
<1>6. CASE UNCHANGED <<length, mapping>>
  <2>1. MTypeOK'
    BY <1>0, <1>2, <1>6 DEF MInv, MTypeOK
  <2> QED BY <1>1, <1>5, <1>6, <2>1 DEF MInv, WholeIsShared, MapsItsSegment
<1>7. CASE /\ length' = [length EXCEPT ![s] = memSize]
           /\ mapping' = IF mapping.segment = s /\ memSize < mapping.size
                         THEN [mapping EXCEPT !.cut = TRUE]
                         ELSE mapping
  <2>1. length' \in [Description -> Nat] /\ length'[s] = memSize
    BY <1>0, <1>3, <1>7 DEF MInv, MTypeOK
  <2>2. CASE mapping = NoMapping
    <3>1. mapping' = NoMapping
      BY <1>3, <1>7, <2>2 DEF NoMapping
    <3> QED BY <1>5, <2>1, <3>1 DEF MTypeOK, WholeIsShared, MapsItsSegment
  <2>3. CASE mapping # NoMapping
    <3> DEFINE M(k) == [segment : 0..k, size : Nat, given : SUBSET Nat,
                        whole : BOOLEAN, cut : BOOLEAN]
    <3>1. mapping \in M(opens)
      BY <2>3 DEF MInv, MTypeOK
    <3>2. /\ mapping' \in M(opens')
          /\ mapping'.segment = mapping.segment /\ mapping'.size = mapping.size
          /\ mapping'.given = mapping.given /\ mapping'.whole = mapping.whole
          /\ mapping.cut => mapping'.cut
          /\ mapping.segment = s /\ memSize < mapping.size => mapping'.cut
      <4>1. CASE mapping.segment = s /\ memSize < mapping.size
        <5>1. mapping' = [mapping EXCEPT !.cut = TRUE] /\ mapping'.cut
          BY <1>7, <3>1, <4>1
        <5>2. /\ mapping'.segment = mapping.segment /\ mapping'.size = mapping.size
              /\ mapping'.given = mapping.given /\ mapping'.whole = mapping.whole
          BY <3>1, <5>1
        <5>3. mapping' \in M(opens')
          <6>1. mapping \in M(opens')
            BY <1>0, <1>2, <3>1
          <6>2. mapping' = [mapping EXCEPT !.cut = TRUE]
            BY <5>1
          <6> QED BY <6>1, <6>2
        <5> QED BY <5>1, <5>2, <5>3
      <4>2. CASE ~(mapping.segment = s /\ memSize < mapping.size)
        <5>1. mapping' = mapping
          BY <1>7, <4>2, Zenon
        <5>2. mapping' \in M(opens')
          BY <1>0, <1>2, <3>1, <5>1
        <5> QED BY <4>2, <5>1, <5>2
      <4> QED BY <4>1, <4>2
    <3>3. mapping' # NoMapping
      <4>1. CASE mapping' = mapping
        BY <2>3, <4>1
      <4>2. CASE mapping' # mapping
        BY <1>3, <1>7, <3>2, <4>2 DEF NoMapping
      <4> QED BY <4>1, <4>2
    <3>4. MTypeOK' /\ WholeIsShared'
      BY <2>1, <2>3, <3>2, <3>3 DEF MInv, MTypeOK, WholeIsShared
    <3>5. mapping.segment \in 0..MaxOpens /\ (mapping.whole => mapping.segment \in Description)
      BY <1>0, <2>3, <3>1 DEF MInv, WholeIsShared, Description
    <3>6. mapping.whole /\ ~mapping'.cut => mapping.size <= length'[mapping.segment]
      <4> SUFFICES ASSUME mapping.whole, ~mapping'.cut
                   PROVE  mapping.size <= length'[mapping.segment]
        OBVIOUS
      <4>1. ~mapping.cut /\ ~(mapping.segment = s /\ memSize < mapping.size)
        BY <3>2
      <4>2. mapping.size <= length[mapping.segment]
        BY <2>3, <4>1 DEF MInv, MapsItsSegment
      <4>3. mapping.size \in Nat
        BY <3>1
      <4>4. CASE mapping.segment = s
        BY <4>4, <4>1, <4>3, <2>1, <1>0
      <4>5. CASE mapping.segment # s
        BY <4>5, <4>2, <1>7, <3>5 DEF MInv, MTypeOK
      <4> QED BY <4>4, <4>5
    <3>7. ~failed' => mapping.segment \in mapping.given
      BY <1>1, <2>3 DEF MInv, MapsItsSegment
    <3>8. MapsItsSegment'
      BY <3>2, <3>6, <3>7 DEF MapsItsSegment
    <3> QED BY <1>5, <3>4, <3>8
  <2> QED BY <2>2, <2>3
<1> QED BY <1>4, <1>6, <1>7

(* map of an object that is open: its descriptor is still the one it was   *)
(* given, so the memory is its segment's (sharedMemory.cpp, map).          *)
LEMMA MapStep ==
  ASSUME MInv, client = "maps", UNCHANGED client, NEW o \in Object, NEW mapSize \in Sizes,
         map(o, mapSize)
  PROVE  MTypeOK' /\ AllShared' /\ WholeIsShared' /\ MapsItsSegment'
<1> DEFINE d == table[fd[o]]
           n == IF mapSize = 0 THEN size(o) ELSE mapSize
<1>0. mapSize \in Nat /\ MaxOpens \in Nat /\ MaxFd \in Nat /\ opens \in 0..MaxOpens
  BY MapsAssumption, DescriptorsAssumption DEF MInv, OInv, DTypeOK
<1>1. /\ isOpened(o) /\ d # 0 /\ UNCHANGED length
      /\ UNCHANGED <<segment, called, opens, failed>>
      /\ mapping' = [segment |-> segment[d], size |-> n, given |-> Given(o),
                     whole |-> (mapSize = 0), cut |-> FALSE]
  BY DEF map, mapMem, vars
<1>2. d \in 1..opens /\ d \in Description
  BY <1>0, <1>1 DEF MInv, OInv, DTypeOK, isOpened, InvalidFd, Fd, Description
<1>3. segment[d] \in 1..opens /\ segment[d] \in Description
  BY <1>0, <1>2 DEF MInv, OInv, DTypeOK, AllShared, Description
<1>4. n \in Nat /\ (mapSize = 0 => n = length[segment[d]])
  BY <1>0, <1>3 DEF size, MInv, MTypeOK
<1>5. Given(o) \in SUBSET Nat /\ (~failed => segment[d] \in Given(o))
  <2>1. holds[o] \in 0..opens /\ \A e \in 1..opens : segment[e] \in Nat
    BY <1>0 DEF MInv, OInv, DTypeOK, Description
  <2>2. ~failed => d = holds[o]
    BY <1>1 DEF MInv, OInv, SoleOwner, OpenOwns
  <2> QED BY <1>1, <2>1, <2>2 DEF Given
<1> HIDE DEF d, n
<1>6. AllShared'
  BY <1>1 DEF MInv, AllShared
<1>7. MTypeOK'
  BY <1>1, <1>3, <1>4, <1>5 DEF MInv, MTypeOK
<1>8. WholeIsShared' /\ MapsItsSegment'
  <2>1. /\ mapping'.segment = segment[d] /\ mapping'.size = n /\ mapping'.given = Given(o)
        /\ mapping'.whole => mapSize = 0
    BY <1>1
  <2>2. mapping'.whole => mapping'.size <= length'[mapping'.segment]
    BY <1>1, <1>4, <2>1
  <2> QED BY <1>1, <1>3, <1>5, <2>1, <2>2 DEF WholeIsShared, MapsItsSegment
<1> QED BY <1>6, <1>7, <1>8

(* Steps that leave the segments' sizes and the mapping alone.             *)
LEMMA SameMapping ==
  ASSUME MInv, UNCHANGED <<client, length, mapping>>, AllShared', opens' \in Nat, opens <= opens',
         failed => failed'
  PROVE  MTypeOK' /\ WholeIsShared' /\ MapsItsSegment'
<1>1. opens \in Nat
  BY DEF MInv, OInv, DTypeOK
<1>2. MTypeOK'
  BY <1>1 DEF MInv, MTypeOK
<1> QED BY <1>2 DEF MInv, WholeIsShared, MapsItsSegment

(* Descriptions are only ever added, and an error of close(2) is for ever. *)
LEMMA OnlyGrows ==
  ASSUME OInv, [Next]_vars
  PROVE  opens \in Nat /\ opens <= opens' /\ (failed => failed')
<1>1. opens \in Nat
  BY DEF OInv, DTypeOK
<1>2. opens' \in {opens, opens + 1, opens + 2}
  BY DEF Next, vars, ClientOpen, Default, fromFd, FileOpen, close, destroy, createPipe, move,
         swap, DuplexClose, create, open, unlink, NewDescription
<1>3. failed' = failed \/ failed' = TRUE
  BY Zenon DEF Next, vars, ClientOpen, Default, fromFd, FileOpen, close, destroy, createPipe,
         move, swap, DuplexClose, create, open, unlink
<1> QED BY <1>1, <1>2, <1>3

(* The invariant of the mappings is kept by every step of either client.   *)
LEMMA MapsStep ==
  ASSUME MInv, [MapsNext]_allVars
  PROVE  MInv'
<1>0. OInv' /\ opens \in Nat /\ opens <= opens' /\ (failed => failed') /\ opens' \in Nat
  <2>1. [Next]_vars
    BY MapsNextOwnership DEF allVars
  <2>2. OInv'
    BY <2>1, OwnershipStep DEF MInv
  <2> QED BY <2>1, <2>2, OnlyGrows DEF MInv, OInv, DTypeOK
<1>1. CASE client = "owns" /\ UNCHANGED <<client, mapVars>>
  <2>1. AllShared'
    BY <1>1 DEF AllShared
  <2> QED BY <1>0, <1>1, <2>1, SameMapping DEF MInv, mapVars
<1>2. CASE client = "maps" /\ MapNext /\ UNCHANGED client
  <2>1. ASSUME NEW o \in Object, NEW n \in Name, NEW memSize \in Sizes,
               NEW truncated \in BOOLEAN, createSized(o, n, memSize, truncated)
        PROVE  MInv'
    BY <1>0, <1>2, <2>1, CreateSizedStep DEF MInv
  <2>2. ASSUME NEW o \in Object, NEW mapSize \in Sizes, map(o, mapSize)
        PROVE  MInv'
    BY <1>0, <1>2, <2>2, MapStep DEF MInv
  <2>3. ASSUME NEW memSize \in Sizes, createAnon(memSize)
        PROVE  MInv'
    <3>1. /\ mapping' = [segment |-> 0, size |-> memSize, given |-> {0}, whole |-> FALSE,
                         cut |-> FALSE]
          /\ UNCHANGED <<length, segment, called, opens>> /\ memSize \in Nat
      BY <2>3, MapsAssumption DEF createAnon, mapMem, vars
    <3>2. AllShared'
      BY <1>2, <3>1 DEF MInv, AllShared
    <3>3. MTypeOK'
      BY <1>0, <3>1 DEF MInv, MTypeOK
    <3>4. WholeIsShared' /\ MapsItsSegment'
      BY <3>1 DEF WholeIsShared, MapsItsSegment
    <3> QED BY <1>0, <3>2, <3>3, <3>4 DEF MInv
  <2>4. CASE dispose
    <3>1. mapping' = NoMapping /\ UNCHANGED <<length, segment, called, opens>>
      BY <2>4 DEF dispose, vars
    <3> QED BY <1>0, <1>2, <3>1 DEF MInv, MTypeOK, AllShared, WholeIsShared, MapsItsSegment
  <2>5. ASSUME NEW o \in Object, NEW n \in Name, open(o, n), UNCHANGED mapVars
        PROVE  MInv'
    <3>1. /\ opens' = opens + 1 /\ opens' \in 0..MaxOpens /\ names[n] # 0
          /\ segment' = [segment EXCEPT ![opens + 1] = names[n]]
      BY <1>0, <2>5 DEF open, NewDescription, OInv, DTypeOK
    <3>2. AllShared'
      <4>1. opens + 1 \in Description /\ \A d \in 1..opens : d \in Description /\ d # opens + 1
        BY <1>0, <3>1, DescriptorsAssumption DEF Description
      <4>2. segment \in [Description -> Nat]
        BY DEF MInv, OInv, DTypeOK
      <4>3. \A d \in 1..(opens + 1) : segment'[d] # 0
        BY <1>0, <1>2, <3>1, <4>1, <4>2 DEF MInv, AllShared
      <4> QED BY <1>0, <3>1, <4>3 DEF AllShared
    <3> QED BY <1>0, <1>2, <2>5, <3>2, SameMapping DEF MInv, mapVars
  <2>6. ASSUME \/ \E o \in Object : close(o) \/ destroy(o)
               \/ \E o, p \in Object : move(p, o) \/ swap(o, p)
               \/ \E n \in Name : unlink(n),
               UNCHANGED mapVars
        PROVE  MInv'
    <3>1. UNCHANGED <<opens, segment, called>>
      BY <2>6 DEF close, destroy, move, swap, unlink
    <3>2. AllShared'
      BY <1>2, <3>1 DEF MInv, AllShared
    <3> QED BY <1>0, <1>2, <2>6, <3>2, SameMapping DEF MInv, mapVars
  <2> QED BY <1>2, <2>1, <2>2, <2>3, <2>4, <2>5, <2>6 DEF MapNext
<1>3. CASE UNCHANGED allVars
  <2>1. UNCHANGED <<client, length, mapping, opens, segment, called>>
    BY <1>3 DEF allVars, mapVars, vars
  <2>2. AllShared'
    BY <2>1 DEF MInv, AllShared
  <2> QED BY <1>0, <2>1, <2>2, SameMapping DEF MInv
<1> QED BY <1>1, <1>2, <1>3 DEF MapsNext

(* Nothing is mapped at first.                                             *)
LEMMA MapsInitially ==
  ASSUME MapsInit
  PROVE  MInv
<1>1. OInv /\ opens = 0 /\ mapping = NoMapping
  BY OwnershipInit DEF MapsInit, Init
<1>2. length \in [Description -> Nat]
  BY DEF MapsInit
<1> QED BY <1>1, <1>2 DEF MInv, MTypeOK, AllShared, WholeIsShared, MapsItsSegment

(* An open object owns its descriptor, whatever it is moved to and however *)
(* numbers are given out again, until close(2) reports an error            *)
(* (file.cpp, duplex.cpp, pipe.cpp, sharedMemory.cpp).                     *)
THEOREM DescriptorsOwned == MapsSpec => []SoleOwner
<1>1. MInv => SoleOwner
  BY DEF MInv, OInv
<1> QED BY <1>1, MapsInitially, MapsStep, PTL DEF MapsSpec

(* No descriptor is lost but the ones that SharedMemory::create leaves     *)
(* behind when ftruncate refuses, also after errors of close(2).           *)
THEOREM DescriptorsNoneLost == MapsSpec => []NoneLost
<1>1. MInv => NoneLost
  BY DEF MInv, OInv
<1> QED BY <1>1, MapsInitially, MapsStep, PTL DEF MapsSpec

(* The name that ~SharedMemory will unlink is the one that create made the *)
(* object's descriptor for, through every move, swap and reuse of a number *)
(* (sharedMemory.cpp:97, 134, sharedMemory.hpp:186).  Whose segment is     *)
(* linked to it by then is another matter.                                 *)
THEOREM NamesOwned == MapsSpec => []NameFollows
<1>1. MInv => NameFollows
  BY DEF MInv, OInv
<1> QED BY <1>1, MapsInitially, MapsStep, PTL DEF MapsSpec

(* SharedMemory::map returns memory of the segment that the object was     *)
(* given, and all of it while no later create cuts it off.                 *)
THEOREM MappingsRight == MapsSpec => []MapsItsSegment
<1>1. MInv => MapsItsSegment
  BY DEF MInv
<1> QED BY <1>1, MapsInitially, MapsStep, PTL DEF MapsSpec
=============================================================================
