----------------------------- MODULE MCLoopRuns -----------------------------
(* Three workflows, wired in the ways that nest loops and calls.  The       *)
(* largest tree, a call in every item, runs in parallel on two threads.     *)
EXTENDS LoopRuns, TLC

CONSTANTS a, b, c

Loop(w, n) == [op |-> "loop", to |-> w, rows |-> n]
Inline(w, n) == [op |-> "inline", to |-> w, rows |-> n]
Wired(x, y, z) == (a :> x) @@ (b :> y) @@ (c :> z)
Small == {
    Wired(Loop(b, 3), Leaf, Leaf),
    Wired(Inline(None, 2), Leaf, Leaf),
    Wired(Inline(None, 0), Leaf, Leaf),
    Wired(Inline(a, 2), Leaf, Leaf),
    Wired(Call(b), Loop(c, 2), Leaf),
    Wired(Loop(b, 2), Loop(c, 2), Leaf),
    Wired(Loop(b, 1), Call(c), Inline(None, 2)),
    Wired(Call(b), Call(c), Call(a)) }
MCSetups ==
    [program : Small, limit : {1, 2}, failFast : BOOLEAN, threads : {1, 2}] \union
    [program : {Wired(Inline(b, 2), Leaf, Leaf)}, limit : {2}, failFast : BOOLEAN, threads : {2}]
=============================================================================
