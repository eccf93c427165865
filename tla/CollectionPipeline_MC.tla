------------------------- MODULE CollectionPipeline_MC -------------------------
(* TLC instances of CollectionPipeline: two jobs, two workers and one       *)
(* ingester, with a disk buffer that holds a single batch, so that the cap  *)
(* is reached.                                                              *)
EXTENDS CollectionPipeline
=============================================================================
