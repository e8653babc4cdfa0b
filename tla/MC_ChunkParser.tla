--------------------------- MODULE MC_ChunkParser ---------------------------
(* Small instances of ChunkParser for TLC: binary bytes, so a length      *)
(* prefix reads 0 .. 3, and a few bytes per direction.                    *)
EXTENDS ChunkParser
=============================================================================
