----------------------------- MODULE MCNetBuild -----------------------------
(***************************************************************************)
(* Designs to build, for model checking: every wiring of an instance and a *)
(* gate, clocks, malformed netlists and annotations.                       *)
(***************************************************************************)
EXTENDS NetBuild

Port(dir, bits, type) ==
    [dir |-> dir, bits |-> bits, type |-> type, share |-> Missing, latency |-> Missing,
     lat |-> Missing, active |-> None]
In(w) == Port("input", <<w>>, None)
Out(w) == Port("output", <<w>>, None)
Clk(w) == Port("input", <<w>>, "clock")
Share(dir, w, id, lat) == [Port(dir, <<w>>, "share") EXCEPT !.share = id, !.latency = lat]
At(port, lat) == [port EXCEPT !.latency = lat]
On(port, signal) == [port EXCEPT !.active = signal]

Cell(type, wires) == [type |-> type, con |-> [i \in DOMAIN wires |-> <<wires[i]>>]]

NoAttrs == [arch |-> None, shares |-> Missing, prop |-> None, strat |-> None, active |-> None]
TopAttrs == [arch |-> "loopy", shares |-> 2, prop |-> "PINI", strat |-> "composite_top",
             active |-> "go"]
GadgetAttrs == [arch |-> "pipeline", shares |-> 2, prop |-> "PINI", strat |-> "assumed",
                active |-> None]

Mod(portseq, n, cells, attrs) == [ports |-> portseq, n |-> n, cells |-> cells, attrs |-> attrs]

-----------------------------------------------------------------------------
(* Modules with inputs 2, 3, clock 4 and two outputs.                      *)
Crossed == Mod(<<In(2), In(3), In(4), Out(5), Out(6)>>, 7,
               <<Cell("NOT", <<3, 5>>), Cell("BUF", <<2, 6>>)>>, NoAttrs)
Registered == Mod(<<In(2), In(3), In(4), Out(5), Out(6)>>, 7,
                  <<Cell("DFF", <<4, 2, 5>>), Cell("AND", <<5, 3, 6>>)>>, NoAttrs)
Through == Mod(<<In(2), In(3), In(4), Out(3), Out(2)>>, 5, <<>>, NoAttrs)
Constant == Mod(<<In(2), In(3), In(4), Out(1), Out(5)>>, 6, <<Cell("MUX", <<2, 0, 3, 5>>)>>, NoAttrs)
TwoStages == Mod(<<Share("input", 2, 0, 0), Share("input", 3, 1, 1), Clk(4),
                   Share("output", 5, 0, 1), Share("output", 6, 1, 1)>>, 8,
                 <<Cell("DFF", <<4, 2, 5>>), Cell("DFF", <<4, 2, 7>>), Cell("XOR", <<3, 7, 6>>)>>,
                 GadgetAttrs)
OneStage == Mod(<<Share("input", 2, 0, 0), Share("input", 3, 1, 0), In(4),
                  Share("output", 5, 0, 0), Share("output", 6, 1, 1)>>, 7,
                <<Cell("NOT", <<2, 5>>), Cell("BUF", <<3, 6>>)>>, GadgetAttrs)

(* Two outputs on the same wire.                                           *)
SameWire == Mod(<<Share("input", 2, 0, 0), Share("input", 3, 1, 1),
                  At(Port("input", <<4>>, "control"), 1),
                  Share("output", 5, 0, 0), Share("output", 5, 1, 1)>>, 6,
                <<Cell("NOT", <<2, 5>>)>>, GadgetAttrs)

Leaves == {Crossed, Registered, Through, Constant, TwoStages, SameWire,
           [OneStage EXCEPT !.ports[3] = At(Port("input", <<4>>, "control"), 1)]}

(* An instance of a leaf and a gate, wired in any way.                     *)
Middle(con, x) ==
    Mod(<<In(2), In(3), In(4), Out(5), Out(6)>>, 8,
        <<Cell("Leaf", con), Cell("XOR", <<x, 7, 5>>)>>, NoAttrs)

(* A leaf with an output before its inputs.                                *)
Reordered == Mod(<<Out(5), In(2), In(3), In(4), Out(6)>>, 7,
                 <<Cell("OR", <<2, 2, 5>>), Cell("DFF", <<4, 5, 6>>)>>, NoAttrs)

(* Two of them, one after the other, back (fed) or not to the first, and a *)
(* register.                                                               *)
TopPorts == <<On(Port("input", <<2, 3>>, "sharings_dense"), "go"), Clk(4),
              On(Port("output", <<7, 8>>, "sharings_strided"), "1")>>
Top(fed) ==
    Mod(TopPorts, 10, <<Cell("Middle", <<2, fed, 4, 5, 6>>), Cell("Middle", <<5, 6, 4, 7, 8>>),
                        Cell("DFF", <<4, 8, 9>>)>>, TopAttrs)

Design(leaf, middle, top) ==
    [modules |-> ("Leaf" :> leaf @@ "Middle" :> middle @@ "Top" :> top), top |-> "Top"]

Wirings ==
    {Design(leaf, Middle(<<a, b, 4, 6, 7>>, x), Top(fed)) :
        leaf \in Leaves, a \in {2, 5, 6}, b \in {3, 7}, x \in {3, 6}, fed \in {3, 7}}
    \cup {Design(Crossed, Middle(<<2, b, 4, 6, 7>>, 5), Top(3)) : b \in {3, 7}}
    \cup {Design(Reordered, Middle(<<6, a, 5, 4, 7>>, x), Top(fed)) :
            a \in {2, 5, 7}, x \in {2, 6}, fed \in {3, 7}}

-----------------------------------------------------------------------------
(* Registers at three depths, on one clock or on several.                  *)
ClockedMiddle(c, leafclk) ==
    Mod(<<In(2), In(3), In(4), Out(5), Out(6)>>, 8,
        <<Cell("Leaf", <<2, 3, leafclk, 5, 6>>), Cell("DFF", <<c, 2, 7>>)>>, NoAttrs)
GatedMiddle ==
    Mod(<<In(2), In(3), In(4), Out(5), Out(6)>>, 8,
        <<Cell("Leaf", <<2, 3, 7, 5, 6>>), Cell("AND", <<3, 4, 7>>)>>, NoAttrs)
ClockedTop(c1, c2) ==
    Mod(TopPorts, 10, <<Cell("Middle", <<2, 3, c1, 5, 6>>), Cell("Middle", <<5, 6, c2, 7, 8>>),
                        Cell("DFF", <<4, 8, 9>>)>>, TopAttrs)
Clocks ==
    {Design(leaf, m, ClockedTop(c1, c2)) :
        leaf \in {Registered, Crossed, TwoStages, [TwoStages EXCEPT !.ports[3].type = "control"]},
        m \in {ClockedMiddle(c, l) : c \in {4, 2}, l \in {4, 3, 1, Unsupported}} \cup {GatedMiddle},
        c1 \in {4, 2}, c2 \in {4, Unsupported}}

(* Registers on a wire that nothing drives.                                *)
Floating == Mod(<<In(2), In(3), In(4), Out(5), Out(6)>>, 8,
                <<Cell("DFF", <<7, 2, 5>>), Cell("AND", <<5, 3, 6>>)>>, NoAttrs)
NoClockPort == {Design(Floating, Middle(<<2, 3, 4, 6, 7>>, x), Top(3)) : x \in {3, 6}}

-----------------------------------------------------------------------------
(* Malformed netlists.                                                     *)
Small == Design(Crossed, Middle(<<2, 3, 4, 6, 7>>, 6), Top(3))
Malformed ==
    {[Small EXCEPT !.modules["Leaf"].cells[1] = Cell("NOT", <<2, w>>)] : w \in {0, 3, 5, 6}}
    \cup {[Small EXCEPT !.modules["Leaf"].cells[1] = Cell("NOT", <<Unsupported, 5>>),
                        !.modules["Middle"].cells[2] = c] :
            c \in {Cell("XOR", <<6, 7, 5>>), Cell("Unknown", <<6, 7, 5>>),
                   Cell("Middle", <<6, 7, 6, 7, 5>>),
                   [type |-> "Top", con |-> <<<<6, 7>>, <<6>>, <<7, 5>>>>]}}
    \cup {[Small EXCEPT !.modules["Middle"].ports[p].bits = <<w>>] : p \in {1, 4}, w \in {Unsupported, 6}}
    \cup {[Small EXCEPT !.modules["Leaf"].ports[2].dir = "inout"], [Small EXCEPT !.top = "Missing"]}
    \cup {[modules |-> Small.modules @@ ("AND" :> Crossed), top |-> t] : t \in {"Top", "AND"}}

-----------------------------------------------------------------------------
(* Annotations of a gadget and of the top-level module.                    *)
Wide(dir, first, type, lat) == At(Port(dir, [i \in 1..6 |-> first + i - 1], type), lat)
Annotated ==
    Mod(<<Wide("input", 2, "sharings_dense", 0), Wide("input", 8, "sharings_strided", 1),
          At(Port("input", <<14, 15>>, "random"), 1), At(Port("input", <<16>>, "control"), 0),
          At(Port("input", <<17>>, "random"), 0), Share("input", 18, 1, 0),
          Wide("output", 2, "sharing", 0)>>, 19, <<>>, [GadgetAttrs EXCEPT !.prop = "affine"])

AnnotatedTop ==
    [Annotated EXCEPT
        !.attrs = TopAttrs,
        !.ports = [p \in DOMAIN @ |->
            IF p \in {1, 2} THEN On(@[p], <<"a", "b">>[p])
            ELSE IF p = 3 THEN [@[p] EXCEPT !.lat = 2] ELSE IF p = 4 THEN @[p] ELSE On(@[p], "0")]]

PortChanges(ports_) ==
    {[ports_ EXCEPT ![p].type = t] : p \in {2, 3, 4, 7}, t \in PortTypes \cup {None}}
    \cup {[ports_ EXCEPT ![p].latency = Missing] : p \in {1, 4}}
    \cup {[ports_ EXCEPT ![3].lat = l, ![3].active = a] : l \in {0, Missing}, a \in {"b", "1", None}}
    \cup {[ports_ EXCEPT ![2].bits = SubSeq(@, 1, 5)]}
AttrChanges(attrs) ==
    {attrs, NoAttrs, [attrs EXCEPT !.arch = "pipeline"], [attrs EXCEPT !.arch = "loopy"],
     [attrs EXCEPT !.arch = None], [attrs EXCEPT !.arch = "Loopy"], [attrs EXCEPT !.shares = 3], [attrs EXCEPT !.shares = Missing],
     [attrs EXCEPT !.prop = "OPINI"], [attrs EXCEPT !.prop = "SNI"], [attrs EXCEPT !.strat = "isolate"], [attrs EXCEPT !.strat = "composite_top"],
     [attrs EXCEPT !.strat = "assumed"], [attrs EXCEPT !.active = None]}

Annotations ==
    {[modules |-> ("Gadget" :> g @@ "Top" :> t), top |-> "Top"] :
        <<g, t>> \in {Annotated} \X ({[AnnotatedTop EXCEPT !.ports = p] : p \in PortChanges(AnnotatedTop.ports)}
                              \cup {[AnnotatedTop EXCEPT !.attrs = a] : a \in AttrChanges(TopAttrs)})
              \cup ({[Annotated EXCEPT !.ports = p] : p \in PortChanges(Annotated.ports)}
                    \cup {[Annotated EXCEPT !.attrs = a] : a \in AttrChanges(Annotated.attrs)})
                   \X {AnnotatedTop}}

MCDesigns == Wirings \cup Clocks \cup NoClockPort \cup Malformed \cup Annotations
=============================================================================
