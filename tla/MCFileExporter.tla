--------------------------- MODULE MCFileExporter ---------------------------
(***************************************************************************)
(* Instances of FileExporter for TLC: no backups, or two; lines of two and *)
(* five bytes against a threshold of four, so that two short lines share a *)
(* file and a long one is over the threshold by itself; and enough batches *)
(* to fill and overflow every generation.                                  *)
(***************************************************************************)
EXTENDS FileExporter
=============================================================================
