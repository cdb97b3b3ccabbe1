---------------------------- MODULE MCClientPool ----------------------------
(***************************************************************************)
(* ClientPool for TLC: the answers that the client tells apart.  Three are *)
(* not in AllGood, because the client pools their connection although it   *)
(* should not: BadLocation shows one, the README names the others.         *)
(***************************************************************************)
EXTENDS ClientPool, TLC

MCResp(redirect, body, ka, decodable, interim) ==
  [redirect |-> redirect, body |-> body, ka |-> ka, decodable |-> decodable,
   interim |-> interim]

Plain == MCResp("none", "none", TRUE, TRUE, FALSE)
WithBody == MCResp("none", "large", TRUE, TRUE, FALSE)
LastOne == MCResp("none", "none", FALSE, TRUE, FALSE)
Moved == MCResp("good", "small", TRUE, TRUE, FALSE)
MovedLarge == MCResp("good", "large", TRUE, TRUE, FALSE)
MovedLast == MCResp("good", "none", FALSE, TRUE, FALSE)
MovedNowhere == MCResp("bad", "none", TRUE, TRUE, FALSE)
MovedNowhereBody == MCResp("bad", "large", TRUE, TRUE, FALSE)
Encoded == MCResp("none", "large", TRUE, FALSE, FALSE)

AllGood == {Plain, WithBody, LastOne, Moved, MovedLarge, MovedLast, MovedNowhere,
            Encoded}
OnlyRedirects == {Moved, MovedLarge, MovedLast}
BadLocation == {Plain, MovedNowhereBody}

PoolSymmetry == Permutations(Tasks) \cup Permutations(Conns)
=============================================================================
