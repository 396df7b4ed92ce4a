----------------------------- MODULE MCPyStreams ------------------------------
(* Small instances of PyStreams for TLC: two interleaved tool calls, one without an index, *)
(* text with reasoning, and an empty answer.                                                *)
EXTENDS PyStreams

Answer(content, reasoning, fragments, counts, indexed) ==
  [text |-> [p \in Texts |-> IF p = "content" THEN content ELSE reasoning],
   calls |-> fragments, figures |-> counts, indexed |-> indexed]

SomeAnswers ==
  { Answer(2, 2, <<>>, Figures, TRUE), Answer(1, 0, <<2, 2>>, {"timings"}, TRUE),
    Answer(0, 1, <<3>>, {"usage"}, FALSE), Answer(0, 0, <<>>, {}, TRUE) }
===============================================================================
