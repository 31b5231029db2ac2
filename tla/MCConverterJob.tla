--------------------------- MODULE MCConverterJob ---------------------------
(* ConverterJob with two generations, either of which may regenerate the   *)
(* other's script, and a reuse of either's or of one from another file.    *)
EXTENDS ConverterJob

=============================================================================
