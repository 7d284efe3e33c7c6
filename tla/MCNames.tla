------------------------------ MODULE MCNames -------------------------------
(* Names of up to four characters. *)
EXTENDS Names

FewChars == {"a", " ", ".", "\\"}
=============================================================================
