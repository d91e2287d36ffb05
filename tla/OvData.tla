------------------------------- MODULE OvData -------------------------------
(* ov::Data (common/src/core/data.cpp, data.h): a sequence of bytes that is a  *)
(* part of a vector shared with other objects (copy on write), or that refers  *)
(* to memory of the caller. Every operation that changes bytes detaches the    *)
(* object first: it keeps its vector when it is the only user and uses all of  *)
(* it, and otherwise copies its part into a vector of its own.                 *)
(*                                                                             *)
(* Some calls the class does not serve: a copy of a part that does not begin   *)
(* its vector takes the part's offset over with the copied bytes; GetData      *)
(* ignores the offset of a part of referenced memory; Erase takes the number   *)
(* of bytes for the end of the range; and an object that alone uses its vector *)
(* cannot be inserted into itself. "lost" is the objects whose value such a    *)
(* call left open; they are not used again before they are made anew.          *)
EXTENDS Integers, Sequences

CONSTANTS
  Objects, Vectors, NoVector, NoCall,
  Original,   \* the bytes of the caller that objects may refer to
  Given,      \* sequences of bytes that are given to calls
  MaxLength,  \* bound on the length of a value
  MaxDataCalls \* bound on the number of calls

Operations == {"create", "is", "move", "subdata", "keep", "resize", "insert", "add",
               "erase", "write"}

ASSUME DataAssumption ==
  /\ NoVector \notin Vectors
  /\ NoCall \notin [op : Operations, on : Objects, from : Objects, at : Int, n : Nat,
                    bytes : Seq(Nat), served : BOOLEAN]
  /\ MaxLength \in Nat
  /\ MaxDataCalls \in Nat
  /\ Original \in Seq(Nat)
  /\ Given \subseteq Seq(Nat)

VARIABLES objects, heap, lost, call, calls

dataVars == <<objects, heap, lost, call, calls>>

Hollow == [ref |-> FALSE, vec |-> NoVector, offset |-> 0, length |-> 0]
Own(v, length) == [ref |-> FALSE, vec |-> v, offset |-> 0, length |-> length]

Users(v) == {o \in Objects : objects[o].vec = v}
Free == {v \in Vectors : Users(v) = {}}

(* What GetData and GetLength show.                                            *)
Content(o) ==
  LET d == objects[o]
  IN IF d.ref THEN SubSeq(Original, 1, d.length)
     ELSE IF d.vec = NoVector THEN <<>>
     ELSE SubSeq(heap[d.vec], d.offset + 1, d.offset + d.length)

Place(o, at) == IF at < 0 THEN objects[o].length + at ELSE at
Parts(o) == {at \in -MaxLength..MaxLength :
               Place(o, at) \in 0..objects[o].length}

DataInit ==
  /\ objects = [o \in Objects |-> Hollow]
  /\ heap = [v \in Vectors |-> <<>>]
  /\ lost = {}
  /\ call = NoCall
  /\ calls = 0

(* A call that gives o the fields d and the vector v the bytes; the vectors    *)
(* nobody uses any more are freed.                                             *)
Put(objs, v, bytes) ==
  /\ objects' = objs
  /\ heap' = [w \in Vectors |-> IF \A o \in Objects : objs[o].vec # w THEN <<>>
                                ELSE IF w = v THEN bytes ELSE heap[w]]

Refer(o, d) == Put([objects EXCEPT ![o] = d], NoVector, <<>>)

InNewVector(o, bytes, offset) ==
  /\ Free # {}
  /\ LET v == CHOOSE v \in Free : TRUE
     IN Put([objects EXCEPT ![o] = [Own(v, Len(bytes)) EXCEPT !.offset = offset]], v, bytes)

(* The test of Detach on an object that refers to nothing (any more).          *)
KeepsVector(o) ==
  LET d == objects[o]
  IN /\ d.vec # NoVector
     /\ Users(d.vec) = {o}
     /\ Len(heap[d.vec]) = IF d.ref THEN 0 ELSE d.length

(* Detach, and what is done to the bytes then.                                 *)
Store(o, bytes, length) ==
  \/ /\ KeepsVector(o)
     /\ Put([objects EXCEPT ![o] = Own(objects[o].vec, length)], objects[o].vec, bytes)
  \/ /\ ~KeepsVector(o)
     /\ Free # {}
     /\ LET v == CHOOSE v \in Free : TRUE
        IN Put([objects EXCEPT ![o] = Own(v, length)], v, bytes)

Call(op, on, from, at, n, bytes, served) ==
  /\ call' = [op |-> op, on |-> on, from |-> from, at |-> at, n |-> n, bytes |-> bytes,
              served |-> served]
  /\ calls < MaxDataCalls /\ calls' = calls + 1
  /\ lost' = IF served THEN lost \ {on} ELSE lost \cup {on}

Usable(o) == o \notin lost
IsHollow(o) == ~objects[o].ref /\ objects[o].vec = NoVector

(* Data(data, length) and Data(data, length, true).                            *)
CreateCopy(o) ==
  \E bytes \in Given :
    /\ InNewVector(o, bytes, 0)
    /\ Call("create", o, o, 0, 0, bytes, TRUE)

CreateReference(o) ==
  \E n \in 0..Len(Original) :
    /\ Refer(o, [ref |-> TRUE, vec |-> NoVector, offset |-> 0, length |-> n])
    /\ Call("create", o, o, 0, 0, SubSeq(Original, 1, n), TRUE)

CopyConstruct(o, s) ==
  /\ o # s /\ Usable(s)
  /\ IF objects[s].vec = NoVector THEN Refer(o, objects[s])
     ELSE InNewVector(o, Content(s), objects[s].offset)
  /\ Call("is", o, s, 0, 0, <<>>, objects[s].offset = 0)

(* The new object takes what the source had, and the source what an object has *)
(* before it is given anything.                                                *)
MoveConstruct(o, s) ==
  /\ o # s /\ Usable(s)
  /\ Put([objects EXCEPT ![o] = objects[s], ![s] = Hollow], NoVector, <<>>)
  /\ Call("move", o, s, 0, 0, <<>>, TRUE)

Assign(o, s) ==
  /\ Usable(s)
  /\ Refer(o, objects[s])
  /\ Call("is", o, s, 0, 0, <<>>, TRUE)

(* o becomes a part of s (or of what it was itself); nothing is copied.        *)
Subdata(o, s) ==
  /\ Usable(s)
  /\ \E at \in Parts(s), n \in 0..MaxLength :
       LET d == objects[s]  start == d.offset + Place(s, at)
       IN /\ Place(s, at) + n <= d.length
          /\ IF d.ref /\ Free # {}
             THEN LET v == CHOOSE v \in Free : TRUE
                  IN Put([objects EXCEPT ![o] = [ref |-> TRUE, vec |-> v, offset |-> start,
                                                 length |-> n]], v, <<>>)
             ELSE Refer(o, [d EXCEPT !.offset = start, !.length = n])
          /\ Call("subdata", o, s, at, n, <<>>, ~d.ref \/ start = 0)

Reserve(o) ==
  /\ Usable(o)
  /\ Store(o, Content(o), objects[o].length)
  /\ Call("keep", o, o, 0, 0, <<>>, TRUE)

SetLength(o) ==
  /\ Usable(o)
  /\ \E n \in 0..MaxLength :
       /\ Store(o, [i \in 1..n |-> IF i <= objects[o].length THEN Content(o)[i] ELSE 0], n)
       /\ Call("resize", o, o, 0, n, <<>>, TRUE)

Clear(o) ==
  /\ InNewVector(o, <<>>, 0)
  /\ Call("create", o, o, 0, 0, <<>>, TRUE)

Refused(o) == UNCHANGED <<objects, heap>> /\ Call("keep", o, o, 0, 0, <<>>, TRUE)

With(o, bytes, at) ==
  SubSeq(Content(o), 1, Place(o, at)) \o bytes
    \o SubSeq(Content(o), Place(o, at) + 1, objects[o].length)

(* Insert of bytes; Append is Insert at the end.                               *)
InsertBytes(o) ==
  /\ Usable(o)
  /\ \/ IsHollow(o) /\ Refused(o)
     \/ /\ ~IsHollow(o)
        /\ \E bytes \in Given, at \in Parts(o) :
             /\ objects[o].length + Len(bytes) <= MaxLength
             /\ Store(o, With(o, bytes, at), objects[o].length + Len(bytes))
             /\ Call("insert", o, o, at, 0, bytes, TRUE)

(* Insert of another object, or of the object itself: its bytes are looked up  *)
(* before it is detached, and move or go when nobody else uses its vector.     *)
InsertData(o, s) ==
  /\ Usable(o) /\ Usable(s) /\ ~IsHollow(s)
  /\ \/ IsHollow(o) /\ Refused(o)
     \/ /\ ~IsHollow(o)
        /\ objects[o].length + objects[s].length <= MaxLength
        /\ \E at \in Parts(o) :
             /\ Store(o, With(o, Content(s), at), objects[o].length + objects[s].length)
             /\ Call("add", o, s, at, 0, <<>>,
                     s # o \/ objects[o].ref \/ Users(objects[o].vec) # {o})

(* The bytes from the offset up to the number of bytes go.                     *)
Erase(o) ==
  /\ Usable(o)
  /\ \/ IsHollow(o) /\ Refused(o)
     \/ /\ ~IsHollow(o)
        /\ \E n \in 0..objects[o].length : \E at \in 0..n :
             /\ at + n < objects[o].length
             /\ Store(o, SubSeq(Content(o), 1, at)
                           \o SubSeq(Content(o), n + 1, objects[o].length),
                      objects[o].length - n)
             /\ Call("erase", o, o, at, n, <<>>, at = 0)

(* Mutant: the vector is written as it is, whoever shares it.                  *)
WriteShared(o) ==
  /\ Usable(o) /\ ~IsHollow(o) /\ ~objects[o].ref
  /\ \E i \in 1..objects[o].length, bytes \in Given :
       LET v == objects[o].vec
       IN /\ Len(bytes) = 1
          /\ Put(objects, v, [heap[v] EXCEPT ![objects[o].offset + i] = bytes[1]])
          /\ Call("write", o, o, i, 0, bytes, TRUE)

(* A byte stored through GetWritableData.                                      *)
WriteByte(o) ==
  /\ Usable(o) /\ ~IsHollow(o)
  /\ \E i \in 1..objects[o].length, bytes \in Given :
       /\ Len(bytes) = 1
       /\ Store(o, [Content(o) EXCEPT ![i] = bytes[1]], objects[o].length)
       /\ Call("write", o, o, i, 0, bytes, TRUE)

DataNext ==
  \E o \in Objects :
    \/ CreateCopy(o) \/ CreateReference(o) \/ Reserve(o) \/ SetLength(o) \/ Clear(o)
    \/ InsertBytes(o) \/ Erase(o) \/ WriteByte(o)
    \/ \E s \in Objects : \/ CopyConstruct(o, s) \/ MoveConstruct(o, s) \/ Assign(o, s)
                          \/ Subdata(o, s) \/ InsertData(o, s)

DataSpec == DataInit /\ [][DataNext]_dataVars

-----------------------------------------------------------------------------
(* A part never reaches beyond its vector: GetData and GetLength together name *)
(* bytes that exist, whatever was done to the objects the vector is shared     *)
(* with.                                                                       *)
InBounds ==
  \A o \in Objects \ lost :
    LET d == objects[o]
    IN d.vec # NoVector /\ ~d.ref => d.offset + d.length <= Len(heap[d.vec])

(* The value of every object, as far as it has one.                            *)
shown == [o \in Objects |-> IF o \in lost THEN <<"lost">> ELSE Content(o)]

Values == INSTANCE DataValues WITH values <- shown

(* A call changes the value of the object it is made on, to what the arguments *)
(* say, and of no other: neither a part nor an assigned copy sees the bytes    *)
(* that are inserted, erased or written in the object it shares a vector with. *)
ValueSemantics == Values!ValuesSpec
=============================================================================
