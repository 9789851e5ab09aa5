------------------------------ MODULE MCSelector ------------------------------
(***************************************************************************)
(* TLC instances of Selector: every mixture of kinds that select           *)
(* statements have, one channel in two cases, and the refused arrays.      *)
(***************************************************************************)
EXTENDS Selector

CONSTANTS g1, g2, a, b

MCCaseArrays ==
  {<<RecvOp(a), RecvOp(b)>>,
   <<SendOp(a), RecvOp(a), DefaultOp>>,
   <<RecvOp(a), DefaultOp, SendOp(b)>>,
   <<SendOp(a), TimeoutOp(1), SendOp(b)>>,
   <<TimeoutOp(2), RecvOp(b), TimeoutOp(1)>>,
   <<TimeoutOp(0)>>,
   <<>>, <<DefaultOp, DefaultOp>>, <<RecvOp(a), RecvOp(b), SendOp(a), DefaultOp>>}

=============================================================================
