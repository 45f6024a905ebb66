---------------------------- MODULE MCCmdServer -----------------------------
(***************************************************************************)
(* Instances of CmdServer for TLC.  Segments have 4 bytes and begin 2      *)
(* bytes apart, so they overlap; the buffer holds 2 items, so that writes  *)
(* come in several chunks and words can be split between two of them; a    *)
(* 16-bit number has 8 values, so that an item can be too large for one.   *)
(* For blocks across segments these begin 1 byte apart, so that a byte in  *)
(* the wrong one is seen, and the buffer holds 3 items.                    *)
(***************************************************************************)
EXTENDS CmdServer

\* One request of each kind and size class, each within a segment; and reads
\* whose counts do not fit an int: one that becomes negative, one that is cut,
\* and one that the index of the loop does not reach.
LegalRequests ==
  { WriteBytes(5, <<1, 0, 1>>), WriteBytes(2, << >>),
    WriteWords(0, <<2, 0, 0, 2>>),
    ReadBytes(1, 3), ReadWords(4, 2),
    FillBytes(4, 3, 2), FillWords(0, 2, <<0, 1>>) }

NarrowedReads ==
  { ReadBytes(0, IntMax + 1), ReadBytes(4, WordMod + 1), ReadWords(1, IntMax + 2) }

StableRequests == LegalRequests \cup NarrowedReads

\* Counts that a uint32_t holds and an int or a size_t does not.
LargeRead == { ReadBytes(0, IntMax + 1) }
LargeFill == { FillBytes(0, WordMod, 1) }

\* Blocks that run out of their segment, by few bytes and by many, one of them
\* also beyond the last far pointer, and a fill.
CrossingRequests ==
  { WriteBytes(2, <<1, 2, 3, 4, 5, 6>>), WriteWords(9, <<1, 2, 3, 4>>),
    WriteBytes(14, <<1, 2, 3>>), FillWords(6, 2, <<6, 7>>) }

\* Payloads that read like commands when a session begins in mid-payload.
FewRequests == { WriteBytes(0, <<2, 3, 0>>), ReadWords(0, 1), FillBytes(1, 1, 5) }

\* The same with a block that runs out of its segment.
FaultRequests == { WriteBytes(0, <<2, 3, 0>>), ReadWords(0, 1), WriteBytes(3, <<1, 5, 6>>) }

ASSUME
  \/ Request \in {LargeRead, LargeFill, CrossingRequests, FaultRequests} \/ AllServable
  \/ Request = StableRequests /\ \A r \in Request : Servable(r) <=> r \notin NarrowedReads
=============================================================================
