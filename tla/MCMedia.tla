------------------------------- MODULE MCMedia -------------------------------
(* The three requests of MCMediaAnalysis; two analyses of an attachment    *)
(* with two images; a PDF of three pages.                                  *)
EXTENDS Media, MCMediaAnalysis
=============================================================================
