----------------------------- MODULE DataValues -----------------------------
(* What ov::Data (common/src/core/data.h) promises its users: every object has *)
(* a value of its own, a sequence of bytes, and a call gives its target a      *)
(* value that depends on the values of its arguments alone. That objects share *)
(* vectors, and when they stop sharing them, cannot be seen.                   *)
(*                                                                             *)
(* "call" is the last call: the operation, the object it is made on, the       *)
(* object and the bytes it is given, the place and the number of bytes, and    *)
(* whether the class serves it: of the others only the target's value is lost. *)
EXTENDS Integers, Sequences

CONSTANTS Objects, NoCall

VARIABLES values, call

Lost == <<"lost">>

(* A place counted from the back when it is negative.                          *)
Place(v, at) == IF at < 0 THEN Len(v) + at ELSE at

Inserted(v, bytes, at) ==
  SubSeq(v, 1, Place(v, at)) \o bytes \o SubSeq(v, Place(v, at) + 1, Len(v))

Resized(v, n) == [i \in 1..n |-> IF i <= Len(v) THEN v[i] ELSE 0]

ValuesInit == values = [o \in Objects |-> <<>>] /\ call = NoCall

(* A served call gives the object it is made on a value; moving empties the    *)
(* source, too, and no other call changes two values.                          *)
ValuesNext ==
  LET c == call'
      own == values[c.on]
      given == values[c.from]
      Becomes(value) == values' = [values EXCEPT ![c.on] = value]
  IN /\ c # NoCall
     /\ \/ ~c.served /\ Becomes(Lost)
        \/ /\ c.served
           /\ \/ c.op = "create"  /\ Becomes(c.bytes)
              \/ c.op = "is"      /\ Becomes(given)
              \/ c.op = "move"    /\ values' = [values EXCEPT ![c.on] = given, ![c.from] = <<>>]
              \/ c.op = "subdata" /\ Becomes(SubSeq(given, Place(given, c.at) + 1,
                                                   Place(given, c.at) + c.n))
              \/ c.op = "keep"    /\ Becomes(own)
              \/ c.op = "resize"  /\ Becomes(Resized(own, c.n))
              \/ c.op = "insert"  /\ Becomes(Inserted(own, c.bytes, c.at))
              \/ c.op = "add"     /\ Becomes(Inserted(own, given, c.at))
              \/ c.op = "erase"   /\ Becomes(SubSeq(own, c.n + 1, Len(own)))
              \/ c.op = "write"   /\ Becomes([own EXCEPT ![c.at] = c.bytes[1]])

ValuesSpec == ValuesInit /\ [][ValuesNext]_<<values, call>>
=============================================================================
