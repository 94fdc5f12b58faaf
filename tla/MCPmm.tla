------------------------------- MODULE MCPmm -------------------------------
(* Small machines for Pmm: frames 0 .. 2 are DMA, 3 .. 8 are DMA32.        *)
EXTENDS Pmm

\* Memory below and above the limit of DMA32.  In the first map a stack of
\* 4K frames of DMA32 is full before there is any memory above the limit; in
\* the second one there is never any.
MCMaps == { << <<1, 4>>, <<6, 7>>, <<9, 22>> >>, << <<1, 8>> >> }

\* The last entry ends where a 1G page would.
MCAlignedMaps == { << <<1, 8>>, <<9, 17>> >> }
=============================================================================
