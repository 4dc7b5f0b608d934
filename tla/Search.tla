------------------------------- MODULE Search --------------------------------
(***************************************************************************)
(* What the searches of src/search have in common: books, by their ISBN,   *)
(* and the marker of what is not there.                                    *)
(***************************************************************************)
CONSTANTS Isbns, None
=============================================================================
