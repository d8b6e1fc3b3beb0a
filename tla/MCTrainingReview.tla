--------------------------- MODULE MCTrainingReview ---------------------------
(***************************************************************************)
(* The review for training by itself, over two replies: one that is right, *)
(* and one that opens with a filler.                                       *)
(***************************************************************************)
EXTENDS TrainingReview

Plain == [language |-> "banglish", source |-> "imported", user |-> "latin", script |-> "latin", foreign |-> FALSE, mixed |-> "none",
          stranded |-> "none", fillers |-> {}, bare |-> FALSE, calque |-> FALSE, overused |-> FALSE, dodges |-> FALSE, factual |-> FALSE,
          risky |-> FALSE]
SampleReplies == {Plain, [Plain EXCEPT !.fillers = {"opening"}]}
=============================================================================
