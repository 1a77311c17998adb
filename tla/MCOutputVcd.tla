----------------------------- MODULE MCOutputVcd -----------------------------
(* OutputVcd for a module with two nets that share a wire and a constant,  *)
(* and an instance, and a few states of the wires.                         *)
EXTENDS OutputVcd

MCNetnames == [m \in {"Top", "Sub"} |-> IF m = "Top" THEN <<<<2, 3>>, <<0, 2>>, <<4>>>> ELSE <<<<2>>>>]
MCCells == [m \in {"Top", "Sub"} |->
              IF m = "Top" THEN <<[instance |-> 5, module |-> "Sub"], [instance |-> 6, module |-> "Sub"]>>
              ELSE <<>>]

State(w2, w3, w4, s5, s6) ==
    (<<<<>>, 0>> :> with_value(control, 0) @@ <<<<>>, 2>> :> w2 @@ <<<<>>, 3>> :> w3
        @@ <<<<>>, 4>> :> w4 @@ <<<<5>>, 2>> :> s5 @@ <<<<6>>, 2>> :> s6)

One == with_value(control, 1)
Fresh == with_value(random(1, 0), 1)
Mixed == [share(0) EXCEPT !.sensitivity = {0, 1}]
MCModuleStates ==
    {State(control, One, share(1), Fresh, nil), State(One, nil, Fresh, share(0), Mixed),
     State(with_value(share(0), 0), share(1), control, One, control),
     State(nil, Mixed, with_value(nil, 0), control, Fresh)}
=============================================================================
