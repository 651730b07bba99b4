---------------------------- MODULE MCKernelHeap ----------------------------
(* Pages of 48 bytes in the place of 4 MB; the code's own header sizes. *)
EXTENDS KernelHeap

\* What the theorems of HeapProofs and KernelHeapProofs assume holds here.
ASSUME TheoremsApply ==
    NoWrap /\ Fitting /\ HalfWord /\ 0 \notin Sizes /\ LowMemory /\ AlignedSized

MCWord == 1073741824
\* 12 and 13 bytes with alignment and pointer; 5 is no power of two.
MCAligned == {<<8, 1>>, <<4, 6>>, <<5, 4>>}
=============================================================================
