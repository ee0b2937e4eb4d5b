------------------------------ MODULE MCEngine ------------------------------
(***************************************************************************)
(* Instances of Engine for TLC.  The whole is ten points instead of a      *)
(* hundred.                                                                *)
(***************************************************************************)
EXTENDS Engine

CONSTANTS a, b, c, d, w1, w2

Mints   == {a, b, c, d}
Wallets == {w1, w2}

Of(pa, pb, pc, pd) == [m \in Mints |-> CASE m = a -> pa [] m = b -> pb [] m = c -> pc [] m = d -> pd]

ByCap    == Of(1, 2, 3, 4)
ByTicker == Of(3, 1, 2, 4)

\* Three equal picks beside a larger one, and three uneven ones.
Baskets == {Of(2, 2, 2, 4), Of(0, 5, 2, 3)}

Lists == {Mints, {a, b, c}, {b, d}, {}}

\* The top three, one stock, three stocks of which some may be gone, in either order
\* of the noise.
DefaultBaskets == {
  [pct |-> Of(0, 0, 0, 0), noise |-> ByTicker, size |-> 3],
  [pct |-> Of(0, 0, 10, 0), noise |-> ByTicker, size |-> 2],
  [pct |-> Of(4, 1, 1, 4), noise |-> Of(4, 3, 2, 1), size |-> 2]}

Pair(x, y) == [w \in Wallets |-> IF w = w1 THEN x ELSE y]

\* Of a supply of seven: the holders sell to each other, and one of them, or both,
\* end below the threshold for the cycle.
Trades == {Pair(5, 2), Pair(1, 5), Pair(7, 0)}

Money == {6, 60}
Fill5 == {5}
Fails == {{}, {b}, {a, b, c}}
Nobody == {}
=============================================================================
