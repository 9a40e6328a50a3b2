----------------------------- MODULE MCSession -----------------------------
(* Instances of Session for TLC: which ends may send the first KEEPALIVE.  *)
EXTENDS Session

AtMostOne == {{}, {"out"}, {"in"}}
=============================================================================
