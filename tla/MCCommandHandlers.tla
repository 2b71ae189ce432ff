------------------------- MODULE MCCommandHandlers -------------------------
(* Two gates, two voltages, sample counts 1 and 2 at start, plans of up to *)
(* two primitives, two measure commands and one setting command.           *)
EXTENDS CommandHandlers, TLC

CONSTANTS g1, g2

\* A read, a gate set and read back, two setters, and a sample count of zero.
MCRequests ==
    {[set |-> << >>,                     get |-> {g1, Samples}],
     [set |-> g1 :> 1,                   get |-> {g1}],
     [set |-> (g2 :> 0 @@ Samples :> 2), get |-> {}],
     [set |-> Samples :> 0,              get |-> {}]}

=============================================================================
