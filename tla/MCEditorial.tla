----------------------------- MODULE MCEditorial -----------------------------
(***************************************************************************)
(* Saves of two articles over two addresses: uploads, captions, removals,  *)
(* publications and withdrawals, and forms that are refused.               *)
(***************************************************************************)
EXTENDS Editorial, TLC

CONSTANTS a, b, c, post1, post2, here, there

SaveSymmetry == Permutations({a, b, c})
PostSymmetry == Permutations({post1, post2})
Symmetry == SaveSymmetry \cup PostSymmetry

Form(slug, state, image, alts, remove) ==
    [slug |-> slug, state |-> state, image |-> image, alts |-> alts, remove |-> remove]

\* Among them, saves that only publish, only withdraw, and only edit a draft.
SomeForms ==
    {Form(here, "published", "image", "both", FALSE),
     Form(here, "draft", "none", "none", FALSE),
     Form(here, "published", "none", "none", FALSE),
     Form(here, "draft", "none", "both", FALSE),
     Form(here, "published", "none", "both", FALSE),
     Form(there, "published", "image", "both", FALSE),
     Form(there, "published", "none", "none", TRUE),
     Form(None, "draft", "broken", "one", FALSE)}

=============================================================================
