--------------------------- MODULE MCStreamChain ---------------------------
(***************************************************************************)
(* Two small streams for TLC:                                              *)
(*   Line: one flow, sink k1 <- processing node p <- source s;             *)
(*   Fork: two flows over the relay rel, to the sinks k1 and k2.           *)
(* In the Fork, Together is the flow list when both flows came in one work *)
(* config, Apart when f2 was added by a second one.                        *)
(***************************************************************************)
EXTENDS StreamChain, TLC

CONSTANTS k1, k2, p, rel, s, f1, f2

LineNodes == {k1, p, s}
LineFlows == {f1}
LineKind == (k1 :> "sink") @@ (p :> "proc") @@ (s :> "source")
LineUp == (k1 :> p) @@ (p :> s) @@ (s :> s)
LineDown == f1 :> ((k1 :> k1) @@ (p :> k1) @@ (s :> p))
LineSink == f1 :> k1
LineListed == f1 :> <<f1>>
LineKnown == f1 :> {f1}

ForkNodes == {k1, k2, rel, s}
ForkFlows == {f1, f2}
ForkKind == (k1 :> "sink") @@ (k2 :> "sink") @@ (rel :> "relay") @@ (s :> "source")
ForkUp == (k1 :> rel) @@ (k2 :> rel) @@ (rel :> s) @@ (s :> s)
ForkDown == (f1 :> ((k1 :> k1) @@ (k2 :> k2) @@ (rel :> k1) @@ (s :> rel)))
                @@ (f2 :> ((k1 :> k1) @@ (k2 :> k2) @@ (rel :> k2) @@ (s :> rel)))
ForkSink == (f1 :> k1) @@ (f2 :> k2)
TogetherListed == [f \in ForkFlows |-> <<f1, f2>>]
TogetherKnown == [f \in ForkFlows |-> ForkFlows]
InTurnKnown == (f1 :> {f1}) @@ (f2 :> ForkFlows)
ApartListed == (f1 :> <<f1>>) @@ (f2 :> <<f1, f2>>)
ApartKnown == (f1 :> {f1}) @@ (f2 :> ForkFlows)

NoNodes == {}
MidNode == {p}
NoStops == [f \in Flows |-> 0]
StopFirst == [f \in Flows |-> IF f = f1 THEN 1 ELSE 0]
=============================================================================
