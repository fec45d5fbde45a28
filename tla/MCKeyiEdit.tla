----------------------------- MODULE MCKeyiEdit -----------------------------
(***************************************************************************)
(* KeyiEdit with an original of two blocks.                                *)
(***************************************************************************)
EXTENDS KeyiEdit

\* A longer, a shorter, an empty and a half different text.
MCOriginal == <<"o", "p">>
MCEdits == {<<"a", "b", "c">>, <<"o">>, <<>>, <<"o", "x">>}
=============================================================================
