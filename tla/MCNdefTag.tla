----------------------------- MODULE MCNdefTag --------------------------------
(* The strings of main.c, and lengths that bring the ends of the first and of *)
(* the second record to every place of a page, its last byte included.        *)
EXTENDS NdefTag

MCPayloads == {<<19, 13, 51>>} \cup {<<a, b, c>> : a \in 0 .. 16, b \in {0, 6}, c \in {0, 40}}
===============================================================================
