------------------------------- MODULE MCHttp ------------------------------
(* Replies of up to three lines, an empty one and a body; every pair of a  *)
(* line, a line too long and an end of a line that is none among them.     *)
EXTENDS Http

Ok == 200  Gone == 104  Two == 302  Three == 303  Five == 305  Text == 1

MCStatusLine == [b \in {Ok, Gone} |-> IF b = Ok THEN 200 ELSE 404]
MCLengthLine == [b \in {Two, Three, Five} |-> b - 300]

MCErrors == {-1}

End == <<Cr, Lf>>

Lines == {<<b>> \o End : b \in {Ok, Gone, Two, Three, Five}}
Odd == {<<Text, Two>> \o End, <<Lf>>, <<Cr>>}

Heads ==
  {a \o b : a, b \in Lines \union Odd \union {<< >>}}
    \union {a \o b \o c : a, b, c \in {<<Ok>> \o End, <<Gone>> \o End, <<Two>> \o End}}

\* What comes behind the empty line is the body.
MCReplies == {h \o End \o <<Text, Ok, Text>> : h \in Heads} \union {<< >>, End, <<Ok>> \o End \o <<Two>> \o End}
============================================================================
