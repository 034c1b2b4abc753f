------------------------ MODULE MCObservationPolicy ------------------------
(* Instances of ObservationPolicy for TLC: small sets of envelopes chosen so *)
(* that any two of them collide in transcript, nullifier, assertion, device  *)
(* counter or pseudonym.                                                     *)
EXTENDS ObservationPolicy, TLC

Observation(t, k, a, ticks, n, p, fault) ==
    [transcript |-> t, key |-> k, assertion |-> a, device |-> "d1", ticks |-> ticks, time |-> 0,
     root |-> "r1", nullifier |-> n, pseudonym |-> p, fault |-> fault]

\* An observation, its retry under a new assertion, another transcript for its
\* nullifier, another key's observation with overlapping device counters, that
\* key's observation under the first one's pseudonym, and a bad proof.
Colliding ==
    {Observation("t1", "k1", 1, <<1, 2, 3>>, "n1", "p1", None),
     Observation("t1", "k1", 2, <<1, 2, 3>>, "n1", "p1", None),
     Observation("t2", "k1", 2, <<4, 5, 6>>, "n1", "p1", None),
     Observation("t3", "k2", 2, <<3, 4, 5>>, "n2", "p2", None),
     Observation("t4", "k2", 1, <<0, 1, 2>>, "n3", "p1", None),
     Observation("t4", "k2", 2, <<0, 1, 2>>, "n3", "p1", "proof")}

\* Claims of both keys for the pseudonym they observe under.
Withdrawals ==
    {[pseudonym |-> "p1", key |-> "k1", assertion |-> 2, nonce |-> 0],
     [pseudonym |-> "p1", key |-> "k2", assertion |-> 2, nonce |-> 0]}

Connections == Permutations(Slots)
=============================================================================
