------------------------ MODULE MCTemplateReconcile ------------------------
(* Two rendered paths, alike to the update, and one answers file.              *)
EXTENDS TemplateReconcile

CONSTANTS p, q

TwoPaths == {p, q}
Alike == Permutations(TwoPaths)

=============================================================================
