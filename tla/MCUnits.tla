------------------------------- MODULE MCUnits -------------------------------
\* Units on one rotation, for TLC: unit 1 at boot, unit 2 after it; the mint
\* may renew unit 1, keep an undated keyset of it, and list a unit that is no
\* pop at all, or for a while one that cashu refuses, dated like unit 1 renewed.
EXTENDS Units

MCBootRows == {[unit |-> 1, expiry |-> 2]}
MCRotation == {[unit |-> 1, expiry |-> Undated], [unit |-> 1, expiry |-> 3],
               [unit |-> 3, expiry |-> 3], [unit |-> 2, expiry |-> MaxTime],
               [unit |-> 9, expiry |-> MaxTime]}
==============================================================================
