---------------------------- MODULE MCSourceLoad ----------------------------
(* A small instance of SourceLoad: the directory and one results dataset.  *)
EXTENDS SourceLoad

CONSTANTS directory, ivac

MCReadOrder == <<directory, ivac>>
=============================================================================
