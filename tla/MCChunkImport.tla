---------------------------- MODULE MCChunkImport ----------------------------
(* ChunkImport with small streams for TLC.                                     *)
EXTENDS ChunkImport

Media(length) == [type |-> "media", length |-> length, value |-> 0]
SetChunkSize(value) == [type |-> "set_chunk_size", length |-> 2, value |-> value]

(* Basic headers of one, two and three bytes; RtmpMuxUtil and clients use the  *)
(* three-byte one from 320 on, the two-byte one from 64 on.                    *)
SmallIds == {<<3, 1>>, <<70, 2>>}
LargeIds == {<<400, 3>>}
OneId == {<<3, 1>>}

(* A message of two chunks (one once the size is raised) and one that is too   *)
(* long; the chunk size raised, or set to zero.                                *)
AllKinds == {Media(3), Media(4), SetChunkSize(3), SetChunkSize(0)}
MediaKinds == {Media(1), Media(5)}
=============================================================================
