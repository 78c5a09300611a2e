----------------------------- MODULE MCPtrChain -----------------------------
(***************************************************************************)
(* Small blobs for PtrChain: words of two units, of which half can be read *)
(* when a distance is damaged, behind a header of one; up to three of them *)
(* in a chain, and blobs one unit too long for one.                        *)
(***************************************************************************)
EXTENDS PtrChain, TLC

MCBufferSize == 8
MCHeaderOffset == 1
MCWordSize == 2
MCHalfRange == 8
MCSizeRange == 8
MCBase == 42

(* Distances of less than a word, of one, and of more, or the end; offsets *)
(* in the blob and behind it.                                              *)
MCWord(offset, distance) == offset + distance * MCHalfRange
MCDamagedWords == {MCWord(1, 0), MCWord(7, 0), MCWord(1, 1), MCWord(7, 2), MCWord(1, 3)}
=============================================================================
