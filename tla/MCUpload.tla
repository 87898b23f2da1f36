------------------------------ MODULE MCUpload ------------------------------
(* Texts whose paragraphs fit together, fill a chunk, exceed one, follow a    *)
(* short chunk or a long one.                                                 *)
EXTENDS Upload

SomeTexts == {<<>>, <<1, 1, 3, 1>>, <<2, 6, 2>>, <<1, 3, 1, 4>>}
=============================================================================
