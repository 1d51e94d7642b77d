--------------------------- MODULE MCHTTPTransport ---------------------------
(* Small answers for HTTPTransport.                                          *)
EXTENDS HTTPTransport

Ans(st, frame, chunks, close) ==
  [status |-> st, frame |-> frame, chunks |-> chunks, close |-> close, ext |-> FALSE]

\* Bodies of three bytes in the three framings, an empty body, an error page
\* with a body of one byte, and a redirect.
MCAnswers ==
  {Ans("ok", "length", <<3>>, FALSE),
   Ans("ok", "length", <<>>, FALSE),
   Ans("ok", "chunked", <<2, 1>>, FALSE),
   Ans("ok", "chunked", <<2>>, TRUE),
   [Ans("ok", "chunked", <<1>>, FALSE) EXCEPT !.ext = TRUE],
   Ans("ok", "none", <<2>>, FALSE),
   Ans("error", "length", <<1>>, FALSE),
   Ans("moved", "length", <<>>, FALSE)}

\* One answer in two chunks.
MCChunked == {Ans("ok", "chunked", <<2, 1>>, FALSE)}
===============================================================================
