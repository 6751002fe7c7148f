--------------------------- MODULE MCLoginLimiter ---------------------------
(* Small instances of LoginLimiter.  The limits are lower than the defaults,  *)
(* so that a few logins reach them.                                          *)
EXTENDS LoginLimiter, TLC

CONSTANTS ann, bob, lan, wan, w1, w2, r1, r2, r3

MCBlank == [account |-> ann, network |-> lan, worker |-> w1, right |-> TRUE, kept |-> {},
            sent |-> 0, counted |-> FALSE, lost |-> FALSE, cleared |-> FALSE]

\* Two accounts share an address.
MCForms ==
  {[MCBlank EXCEPT !.right = FALSE],
   [MCBlank EXCEPT !.network = wan, !.worker = w2],
   [MCBlank EXCEPT !.account = bob, !.network = wan, !.right = FALSE]}

MCSymmetry == Permutations(Requests)
=============================================================================
