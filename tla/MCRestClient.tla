---------------------------- MODULE MCRestClient ----------------------------
EXTENDS RestClient

(* Deadlines: at once, inside the first sleeps, beyond all of them.        *)
MCDeadlines == {1, 4, 7, 12}
MCTops == {1, 2}
=============================================================================
