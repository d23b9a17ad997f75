---------------------------- MODULE MCVirtualTar ----------------------------
(***************************************************************************)
(* A block of 2 bytes and buffers of 2 blocks.  Files whose end is and is  *)
(* not on the border of a block and of a buffer, an empty one, and headers *)
(* of one and of two blocks (a long path).                                 *)
(***************************************************************************)
EXTENDS VirtualTar

Entry(h, s) == [header |-> h, size |-> s]

MCEntries ==
    {Entry(2, 0), Entry(2, 5), Entry(4, 8), Entry(2, 13),
     Entry(0, 0), Entry(0, 7), Entry(0, 6), Entry(0, 12)}

=============================================================================
