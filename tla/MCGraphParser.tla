--------------------------- MODULE MCGraphParser ---------------------------
EXTENDS GraphParser

Tokens == {"a", "b", "->", "[", "]", " "}

\* Every text of one line with at most five tokens.
OneLine == {<<l>> : l \in UNION {[1 .. n -> Tokens] : n \in 0 .. 5}}

\* Every text of two or three of these lines: first and repeated mentions, with
\* and without payloads, a payload that is another node's name, parallel edges
\* and loops, blanks everywhere, and one error of each kind.
Lines == {<<" ">>,
          <<"a">>,
          <<"b", " ", "[", "a", "]">>,
          <<" ", "a", "[", " ", "b", " ", "a", "]">>,
          <<"a", " ", "->", " ", "b">>,
          <<"b", "->", "a", " ", "[", "a", "b", "]">>,
          <<"b", "->", "b">>,
          <<"a", "b", "->", "b">>,
          <<"a", " ", "[">>,
          <<"a", "[", "b", "]", "->", "b">>}

MCSources == {<<>>} \cup OneLine \cup Lines \X Lines \cup Lines \X Lines \X Lines
=============================================================================
