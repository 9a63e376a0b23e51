--------------------------------- MODULE Nulls ---------------------------------
(* What a column or a session holds where nothing has been stored or read. *)
CONSTANT None
=============================================================================
