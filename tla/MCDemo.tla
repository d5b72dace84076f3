------------------------------- MODULE MCDemo -------------------------------
(* Instances of the demo engine: a symbol that scans see in every way, bars *)
(* that break out or do not.                                                *)
EXTENDS DemoEngine

Snap(price, change, float, rvol, catalyst) ==
    [price |-> price, change |-> change, float |-> float, rvol |-> rvol, catalyst |-> catalyst]
MCSnapshots == { Snap(1000, 150, 4000, 60, "VERIFIED"), Snap(1000, 150, 4000, 60, "SKIP"),
                 Snap(1000, 150, Absent, 60, "no_verifier") }

Bar(o, h, l, c) == [o |-> o, h |-> h, l |-> l, c |-> c]
Surge == << Bar(900, 940, 900, 940), Bar(940, 970, 940, 970), Bar(970, 1010, 970, 1010) >>
Dip == << Bar(1010, 1010, 990, 990), Bar(990, 992, 980, 980) >>
MCBars == { Surge \o Dip \o <<Bar(980, 1000, 980, 1000)>>, Surge \o Dip }
=============================================================================
