---------------------------- MODULE MCHttpSink ----------------------------
(* The sink with batches of one to three, one undecodable message, and      *)
(* every setting of the flags with up to two retries.                      *)
EXTENDS HttpSink

MCFlags == [retries : 0..2, drop : BOOLEAN]

\* A sink that drops after two attempts.
MCDropFlags == [retries : {2}, drop : {TRUE}]

=============================================================================
