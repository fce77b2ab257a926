----------------------------- MODULE MCMcaptcha -----------------------------
(***************************************************************************)
(* Two workers, a captcha and an account; a uint32_t is two bits wide.      *)
(***************************************************************************)
EXTENDS Mcaptcha

CONSTANTS w1, w2, cap, usr, fac, old, new, hold, hnew

MCAccepts == {<<old, hold>>, <<new, hnew>>}
Solves(n, analytics, async) == [key |-> cap, nonce |-> n, analytics |-> analytics, async |-> async]
MCRequests ==
  {Solves(2, TRUE, TRUE), Solves(5, TRUE, FALSE), Solves(5, FALSE, FALSE),
   [user |-> usr, password |-> old, async |-> FALSE], [user |-> usr, password |-> old, async |-> TRUE]}
=============================================================================
