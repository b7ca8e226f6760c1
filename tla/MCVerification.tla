--------------------------- MODULE MCVerification ---------------------------
(***************************************************************************)
(* Tarballs of a few members: with a directory, a binary, an escaping path *)
(* and files that are too large by one byte for themselves or for the sum. *)
(***************************************************************************)
EXTENDS Verification

MCMembers == {"a", "c", "pair", "image", "up", "dir", "huge", "big"}
MCKind == [m \in MCMembers |->
  CASE m = "image" -> "binary" [] m = "up" -> "escape" [] m = "dir" -> "dir"
    [] OTHER -> "text"]
MCSize == [m \in MCMembers |->
  CASE m = "dir" -> 0 [] m = "pair" -> 2 [] m = "big" -> 3 [] m = "huge" -> 4
    [] OTHER -> 1]

\* In turn: it runs to its end and nothing in it is usable; "big" ends it, which is
\* one byte too much; it ends at the count, with the sum exactly at its cap.
MCTars == {<<"dir", "up", "image", "huge">>, <<"c", "big", "a">>, <<"a", "pair", "c">>}

\* A hung container costs a thread one sandbox_timeout_s and never the thread, with
\* the other threads at work, calls that fail and removals that fail.  The threads
\* differ in nothing but their names, so that one of them is enough.
VerdictReached == AttemptEnds(CHOOSE w \in Workers : TRUE)
=============================================================================
