----------------------------- MODULE MCNodeDedup -----------------------------
(* A node of one user and two of another's, all with the same host name; the *)
(* last one advertises.                                                     *)
EXTENDS NodeDedup

MCUser  == <<"u1", "u2", "u2">>
MCHost  == <<"pc", "pc", "pc">>
MCAddr  == <<"a1", "a2", "a3">>
MCOrder == <<<<"u1", "pc">>, <<"u2", "pc">>>>
=============================================================================
