---------------------------- MODULE MCScreenshots ----------------------------
EXTENDS Screenshots, TLC

CONSTANTS s1, s2

Symmetry == Permutations(Runs)

(* Uploaded in different seconds, and in the same one. *)
OneSecondApart == s1 :> 1 @@ s2 :> 2
SameSecond == s1 :> 1 @@ s2 :> 1

(* The first screenshot with and without ocr_text, the second with; all with. *)
FirstMayBeBlank == s1 :> {"blank", "typed"} @@ s2 :> {"typed"}
AllTyped == s1 :> {"typed"} @@ s2 :> {"typed"}

-----------------------------------------------------------------------------
(* "backfill: generate the embeddings of the existing screenshots", all of  *)
(* them, when several were uploaded in the same second.                     *)
EveryShotIsBackfilled == BackfillCovers
=============================================================================
