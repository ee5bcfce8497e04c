----------------------------- MODULE MCEmbedder -----------------------------
(* Embedder for TLC: lists of up to three texts, one of them repeated, and *)
(* one that the request schema rejects; the second checkpoint is wider.    *)
EXTENDS Embedder

MCInputs == {<<"a", "b", "a">>, <<"b", "c">>, <<"a", "a">>, <<"b", "a", "long">>}

MCDim == <<768, 1024>>
=============================================================================
