----------------------------- MODULE MCEvalOrder -----------------------------
(* Designs for model checking EvalOrder.                                   *)
EXTENDS EvalOrder, MCNetBuild

(* A gadget with an output in its first stage and an input in the second,  *)
(* and its two inputs given by the same module.                            *)
FirstStage == [OneStage EXCEPT !.ports[2].latency = 1, !.ports[3] = Share("input", 4, 0, 0)]

(* A gadget whose inputs are all in its first stage, the last one given by *)
(* its own output in the second.                                           *)
Combined == [OneStage EXCEPT !.ports[3] = At(Port("input", <<4>>, "control"), 0)]

(* A gadget that instantiates a gadget.                                    *)
Nest(cell) == [TwoStages EXCEPT !.cells = <<cell, Cell("BUF", <<2, 7>>)>>]

MCEvalDesigns ==
    {Design(leaf, Middle(<<a, b, 4, 6, 7>>, x), Top(3)) :
        leaf \in Leaves \cup {Combined}, a \in {2, 5, 6}, b \in {3, 7}, x \in {3, 6}}
    \cup {Design(Reordered, Middle(<<6, a, 5, 4, 7>>, x), Top(fed)) :
            a \in {2, 5, 7}, x \in {2, 6}, fed \in {3, 7}}
    \cup {Design(Combined, Middle(<<2, 3, 7, 6, 7>>, x), Top(3)) : x \in {3, 6}}
    \cup {Design(FirstStage, Middle(<<2, b, 4, 6, 7>>, x), Top(3)) : b \in {3, 6}, x \in {3, 6}}
    \cup {[modules |-> ("Inner" :> TwoStages @@
                        Design(Nest(Cell("Inner", <<2, 3, 4, 5, 6>>)),
                               Middle(<<2, 3, 4, 6, 7>>, 6), Top(3)).modules),
           top |-> "Top"]}

MCAllDesigns == MCDesigns \cup MCEvalDesigns
=============================================================================
