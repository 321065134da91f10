---------------------------- MODULE MCCgiStream ----------------------------
(* Small instances of CgiStream: outputs with both terminators, an empty   *)
(* header or body, no terminator, a terminator across the header limit, a  *)
(* long header line, and outputs over the output limit.                    *)
EXTENDS CgiStream

B(k) == [i \in 1..k |-> "b"]

MCScripts ==
    { <<>>, <<"n", "n">>, B(2), B(8),
      <<"b", "n", "n">> \o B(5),
      <<"n", "n">> \o B(6),
      <<"b", "r", "n", "r", "n", "b", "n", "n">>,
      <<"r", "n", "r", "b", "n", "n", "b">>,
      <<"b", "b", "b", "b", "n", "n", "b">>,
      <<"n", "b", "b", "b", "n", "n", "b">>,
      <<"b", "n", "n">> \o B(7) }
=============================================================================
