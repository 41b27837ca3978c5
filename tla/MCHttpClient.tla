----------------------------- MODULE MCHttpClient -----------------------------
(* Three CurlHttps and two clients: curl is initialized again after a cleanup, *)
(* and both clients may share a CurlHttp or not.                               *)
EXTENDS HttpClient, TLC

CONSTANTS h1, h2, h3, c1, c2

ThreeHttps == {h1, h2, h3}
TwoClients == {c1, c2}

\* Nothing is named and only safety is checked.
Interchangeable == Permutations(ThreeHttps) \cup Permutations(TwoClients)
===============================================================================
