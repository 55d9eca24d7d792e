---------------------------- MODULE MCPageMapper ----------------------------
(* Tables of two entries, sixteen pages in all.  Callers map pages 5 and 12,  *)
(* which share nothing but the PML4, with PRESENT and without, and            *)
(* identity-map 4096 bytes from the second byte of page 4 on, which touch     *)
(* page 5 too (frame 4 of the pool and the device frame 5), and no bytes at   *)
(* all.  Page 5 may be mapped already, so a range can fail on its last page.  *)
(* The four frames beside the PML4 suffice for one path and a data frame, so  *)
(* a call can run out of memory at every level.                               *)
EXTENDS PageMapper

(* What a frame held before it became a table: of its two entries the second  *)
(* leads back to the PML4.                                                    *)
MCContents ==
  [f \in Frames |-> [i \in 0 .. Width - 1 |->
                       IF i = 1 THEN Entry(Root, FALSE) ELSE Absent]]
MCRanges  == {<<4 * PAGE_SIZE + 1, PAGE_SIZE>>, <<5 * PAGE_SIZE, 0>>}
MCFlags   == [present : BOOLEAN, user : {FALSE}]
MCUser    == [present : {TRUE}, user : BOOLEAN]
=============================================================================
