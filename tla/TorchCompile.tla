---------------------------- MODULE TorchCompile ----------------------------
(***************************************************************************)
(* The two halves of torch_compile_backend: a traced program is lowered    *)
(* call by call (AtenCalls), and cut into regions that run on MAX's        *)
(* streams (GraphStreams).  Neither half reads the state of the other: a   *)
(* behaviour either lowers one call or schedules one program.              *)
(***************************************************************************)
EXTENDS GraphStreams, AtenCalls

CompileInit ==
  \/ Init /\ call = NoCall /\ out = None
  \/ Init /\ ~training /\ out = None /\ \E S \in Layouts : call \in S
  \/ Init /\ ~training /\ out = None /\ call \in Gradients
  \/ Init /\ ~training /\ out = None /\ call \in Orders

Schedule == call = NoCall /\ Next /\ UNCHANGED <<call, out>>
LowerCall == Lower /\ UNCHANGED vars

CompileSpec == CompileInit /\ [][Schedule \/ LowerCall]_<<vars, call, out>>
=============================================================================
