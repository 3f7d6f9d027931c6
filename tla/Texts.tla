-------------------------------- MODULE Texts --------------------------------
(* A piece of a text by what it can be read as: a number, or a word.           *)
Word(w) == [form |-> "word", word |-> w]
Number(n) == [form |-> "number", n |-> n]
=============================================================================
