---------------------------- MODULE HonestVenue ----------------------------
(***************************************************************************)
(* The planning arithmetic against the venue it is made for: an honest one,*)
(* which sells at a linear price until it has delivered what it has, and   *)
(* keeps any input beyond that.  It meets an order, and reprices.          *)
(***************************************************************************)
EXTENDS SplitPlanner

CONSTANTS
    Sizes,          \* of orders, in the input token
    Prices,         \* units of the output for one of the input
    Capacities,     \* what the venue has of the output
    Denominators    \* of prices that are fractions

ASSUME HonestInputs ==
    /\ Sizes \cup Prices \cup Denominators \subseteq Nat \ {0}
    /\ Capacities \subseteq Nat

VARIABLES order, price, capacity

honestVars == <<order, price, capacity>>

HonestInit == order \in Sizes /\ price \in Prices /\ capacity \in Capacities

Reprice == price' \in Prices /\ UNCHANGED <<order, capacity>>

HonestSpec == HonestInit /\ [][Reprice]_honestVars

\* The quotes of the venue.
Curve ==
    [size \in Nat |-> IF size * price <= capacity THEN size * price ELSE capacity]

\* _probeVenue: what it makes of these quotes is a size that the venue fills in
\* full, or the whole order, of which the venue then keeps no more than the
\* tolerance for nothing.
ProbesFitCapacity ==
    LET probe == Probe(Curve, order)
    IN  Usable(probe) =>
           /\ probe.fill <= order /\ probe.out = Curve[probe.fill]
           /\ probe.fill < order => probe.out = probe.fill * price
           /\ probe.fill = order /\ Curve[order \div 2] > 0 =>
                 probe.out * BPS >=
                    (order - 1) * price * (BPS - SATURATION_TOLERANCE_BPS)

\* proRataMin: a venue whose price is a fraction delivers at least the floor of any
\* leg carved from its quote, so that no leg fails on rounding.
FloorsAreMet ==
    \A den \in Denominators, leg \in 1 .. order :
       ProRataMin((price * order) \div den, order, leg) <= (price * leg) \div den
=============================================================================
