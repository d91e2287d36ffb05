---------------------------- MODULE SnyDataBuffer ----------------------------
(* sny::SnyDataBuffer (common/src/core/snydatabuffer.cc): handles on counted   *)
(* blocks of memory. Copies and parts share the block they come from and write *)
(* into it; only append moves a handle to a block of its own. A block is freed *)
(* when its last handle lets go of it, and global_ref_count_ counts the blocks *)
(* there are. A handle that is assigned to itself, or made a part of itself,   *)
(* lets go first and ends up empty; one that is assigned its own bytes lets go *)
(* of them before they are copied.                                             *)
EXTENDS Integers, Sequences, FiniteSets, SequencesExt

CONSTANTS
  Handles, Blocks, NoBlock,
  Loads,           \* bytes that are put into a handle
  MaxBlockSize,    \* bound on the size of a block
  MaxHandleCalls   \* bound on the calls

ASSUME DataBufferAssumption ==
  /\ IsFiniteSet(Handles) /\ IsFiniteSet(Blocks) /\ NoBlock \notin Blocks
  /\ Loads \subseteq Seq(0..255)
  /\ MaxBlockSize \in Nat

VARIABLES handles, blocks, global_ref_count_, handleCalls

dataBufferVars == <<handles, blocks, global_ref_count_, handleCalls>>

Released == [block |-> NoBlock, offset |-> -1, length |-> 0]
Unused == [bytes |-> <<>>, refs |-> 0]

UnusedBlocks == {b \in Blocks : blocks[b].refs = 0}

BufferSize(h) ==
  LET d == handles[h]
  IN CASE d.block = NoBlock -> 0
       [] d.block # NoBlock /\ d.offset >= 0 -> d.length
       [] OTHER -> Len(blocks[d.block].bytes)

(* The bytes from data() on, as many as size() says.                           *)
BufferBytes(h) ==
  LET d == handles[h]
  IN CASE d.block = NoBlock -> <<>>
       [] d.block # NoBlock /\ d.offset >= 0 ->
            SubSeq(blocks[d.block].bytes, d.offset + 1, d.offset + d.length)
       [] OTHER -> blocks[d.block].bytes

(* subData checks no bounds.  What reads or writes the bytes of a handle is     *)
(* called only for a handle that names bytes of its block: a precondition of   *)
(* the callers.                                                                *)
InBlock(h) ==
  LET d == handles[h]
  IN d.block # NoBlock /\ d.offset >= 0 => d.offset + d.length <= Len(blocks[d.block].bytes)

DataBufferInit ==
  /\ handles = [h \in Handles |-> Released]
  /\ blocks = [b \in Blocks |-> Unused]
  /\ global_ref_count_ = 0
  /\ handleCalls = 0

HandleStep == handleCalls < MaxHandleCalls /\ handleCalls' = handleCalls + 1

(* Mutant: what is let go of is not counted down.                              *)
AfterReleaseUncounted(h) ==
  [at |-> [handles EXCEPT ![h] = Released], in |-> blocks, count |-> global_ref_count_]

(* releaseData; the last handle's release frees the block.                     *)
AfterRelease(h) ==
  LET b == handles[h].block
      last == b # NoBlock /\ blocks[b].refs = 1
  IN [at |-> [handles EXCEPT ![h] = Released],
      in |-> IF b = NoBlock THEN blocks
             ELSE IF last THEN [blocks EXCEPT ![b] = Unused]
             ELSE [blocks EXCEPT ![b].refs = @ - 1],
      count |-> global_ref_count_ - IF last THEN 1 ELSE 0]

(* Mutant: the new handle takes no reference.                                  *)
BecomesUncounted(after, h, d) ==
  /\ handles' = [after.at EXCEPT ![h] = d]
  /\ blocks' = after.in
  /\ global_ref_count_' = after.count

Becomes(after, h, d) ==
  /\ handles' = [after.at EXCEPT ![h] = d]
  /\ blocks' = IF d.block = NoBlock THEN after.in
               ELSE [after.in EXCEPT ![d.block].refs = @ + 1]
  /\ global_ref_count_' = after.count

(* allocData for a handle that has let go.                                     *)
Allocate(after, h, bytes) ==
  /\ UnusedBlocks # {}
  /\ LET b == CHOOSE b \in UnusedBlocks : TRUE
     IN /\ handles' = [after.at EXCEPT ![h] = [Released EXCEPT !.block = b]]
        /\ blocks' = [after.in EXCEPT ![b] = [bytes |-> bytes, refs |-> 1]]
        /\ global_ref_count_' = after.count + 1

(* Memory that nothing has been written to, whatever is in it.                 *)
Zeroes(n) == [i \in 1..n |-> 0]

(* The constructors, assign, resize.                                           *)
AssignBytes(h) ==
  /\ HandleStep
  /\ \/ \E bytes \in Loads : Allocate(AfterRelease(h), h, bytes)
     \/ \E n \in 0..MaxBlockSize : Allocate(AfterRelease(h), h, Zeroes(n))

(* assign from the bytes of a handle.  If nothing else is on their block, they *)
(* are freed when they are copied, and may have been overwritten by then.      *)
AssignFrom(h, s) ==
  /\ HandleStep /\ InBlock(s)
  /\ LET after == AfterRelease(h)
         freed == handles[s].block # NoBlock /\ after.in[handles[s].block].refs = 0
     IN \/ Allocate(after, h, BufferBytes(s))
        \/ freed /\ Allocate(after, h, [i \in 1..BufferSize(s) |-> 9])

(* The destructor and clear.                                                   *)
ClearBuffer(h) == HandleStep /\ Becomes(AfterRelease(h), h, Released)

(* operator= and the copy constructor.                                         *)
AssignBuffer(h, s) ==
  /\ HandleStep
  /\ LET after == AfterRelease(h) IN Becomes(after, h, after.at[s])

(* subData and its constructor: the place is counted in the block, not in the  *)
(* part the other handle has of it, and compared with nothing.                 *)
SubDataOf(h, s) ==
  /\ HandleStep
  /\ LET after == AfterRelease(h)
         b == after.at[s].block
     IN \E offset \in -1..MaxBlockSize, n \in 0..MaxBlockSize :
          Becomes(after, h, IF b = NoBlock THEN Released
                            ELSE [block |-> b, offset |-> offset, length |-> n])

(* append: the new block is filled before the old one is let go of, so that a  *)
(* handle may be appended to itself.                                           *)
AppendTo(h) ==
  /\ HandleStep /\ InBlock(h)
  /\ \E bytes \in Loads \cup {BufferBytes(s) : s \in {s \in Handles : InBlock(s)}} :
       /\ Len(BufferBytes(h)) + Len(bytes) <= MaxBlockSize
       /\ Allocate(AfterRelease(h), h, BufferBytes(h) \o bytes)

CloneTo(h, s) ==
  HandleStep /\ InBlock(s) /\ Allocate(AfterRelease(h), h, BufferBytes(s))

(* fill, and what is written through data(): the block of all its handles.     *)
Fill(h) ==
  /\ HandleStep /\ InBlock(h)
  /\ handles[h].block # NoBlock
  /\ LET from == IF handles[h].offset >= 0 THEN handles[h].offset ELSE 0
     IN blocks' = [blocks EXCEPT ![handles[h].block].bytes =
                     [i \in DOMAIN @ |-> IF i \in from + 1..from + BufferSize(h) THEN 9 ELSE @[i]]]
  /\ UNCHANGED <<handles, global_ref_count_>>

DataBufferNext ==
  \E h \in Handles :
    \/ AssignBytes(h) \/ ClearBuffer(h) \/ AppendTo(h) \/ Fill(h)
    \/ \E s \in Handles :
         AssignBuffer(h, s) \/ SubDataOf(h, s) \/ CloneTo(h, s) \/ AssignFrom(h, s)

DataBufferSpec == DataBufferInit /\ [][DataBufferNext]_dataBufferVars

-----------------------------------------------------------------------------
(* Every block is counted by exactly the handles on it, and the number of      *)
(* blocks by global_ref_count_: through copies, parts of parts, appends,       *)
(* assignments to itself and from its own bytes no block is leaked.            *)
BlocksAreCounted ==
  /\ \A b \in Blocks : blocks[b].refs = Cardinality({h \in Handles : handles[h].block = b})
  /\ global_ref_count_ = Cardinality({b \in Blocks : blocks[b].refs > 0})

(* Whatever is done to one handle (cleared, assigned, made a part, appended    *)
(* to), the others keep the bytes they show, also those that shared its block: *)
(* no block is freed or used again while a handle is on it.                    *)
OthersKeepTheirBytes ==
  [][\A h \in Handles :
       handles' # handles /\ handles'[h] = handles[h] /\ InBlock(h)
         => InBlock(h)' /\ BufferBytes(h)' = BufferBytes(h)]_dataBufferVars
=============================================================================
