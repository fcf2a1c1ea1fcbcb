------------------------------ MODULE MCWebsite ------------------------------
(***************************************************************************)
(* Values of the constants of Website for model checking.                  *)
(***************************************************************************)
EXTENDS Website

\* Two words, an empty one between them; none; one.
MCWords == << <<2, 0, 1>>, <<>>, <<1>> >>

\* The terminal of Workflow, its typed lines cut to one or two characters.
WorkflowLines == <<2, 0, 0, 0, 0, 1, 0, 1, 0, 0, 1, 0, 0>>

\* A wide container, a narrow one, one that is not displayed, and the wide one
\* with nodes that have moved apart.
MCLayouts == <<<<0, 0, 20, 12, 2>>, <<4, 1, 14, 14, 2>>, <<0, 0, 0, 0, 0>>,
               <<0, 0, 20, 12, 4>>>>

MCSizes == {<<0, 3>>, <<3, 4>>, <<5, 2>>}

MCRanges == {0, 3} \X {10, 40}
=============================================================================
