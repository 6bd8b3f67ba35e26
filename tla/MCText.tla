------------------------------ MODULE MCText ------------------------------
(* TextController with a few requests: no body, one that looks like the    *)
(* end of a line, one with spaces, a line of three words.                  *)
EXTENDS TextController

MCRequests == {[head |-> <<"0">>, body |-> <<>>],
               [head |-> <<"3", " ">>, body |-> <<"x", "CR", "LF">>],
               [head |-> <<"2", " ", "x", " ", "x">>, body |-> <<" ", "x">>]}

MCPaths == {<<"x", "1">>}

(* Behind the chunk: its terminator, or what was read before.              *)
MCStale == {<<>>, <<" ", "x", " ", "x">>}
=============================================================================
