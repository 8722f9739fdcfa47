------------------------------ MODULE MCSignal ------------------------------
(* Two base signals. pick depends on a and, when a is 2, on b; total depends *)
(* on a and, when a is not 0, on pick: a diamond whose sides come and go.    *)
(* view watches total, and the effect log reads pick.                        *)
EXTENDS Signal

CONSTANTS g1, g2, a, b, pick, total, log, view

MCBases == {a, b}

MCDerived == {pick, total}

MCWatchedBy(w) == total

\* total was made before pick, or is still to be made.
MCStarts == {[first |-> 0, made |-> <<total, view, pick, log>>],
             [first |-> 0, made |-> <<pick, log>>]}

\* total, its watcher and pick, without the effect.
MCStartsBare == {[first |-> 0, made |-> <<total, view, pick>>],
                 [first |-> 0, made |-> <<pick, total, view>>]}

MCValues(s) == IF s = a THEN 0..2 ELSE 0..1

MCSource(n, vals) ==
    CASE n \in {pick, total} /\ vals = <<>> -> a
      [] n = pick /\ Len(vals) = 1 /\ vals[1] = 2 -> b
      [] n = total /\ Len(vals) = 1 /\ vals[1] # 0 -> pick
      [] n = log /\ Len(vals) < 2 -> pick
      [] OTHER -> None

MCResult(n, vals) ==
    CASE n = pick -> IF vals[1] = 2 THEN vals[2] ELSE vals[1]
      [] n = total -> IF vals[1] = 0 THEN 0 ELSE vals[1] + vals[2]
      [] OTHER -> None
=============================================================================
