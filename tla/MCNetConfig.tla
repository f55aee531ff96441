---------------------------- MODULE MCNetConfig ----------------------------
(***************************************************************************)
(* A variable of two values, and one before it that keeps its value: it is *)
(* saved and applied all the same, and so keeps the handlers' steps apart. *)
(***************************************************************************)
EXTENDS NetConfig

MCOrder == <<"ip", "port">>
MCValues == [ip |-> {"static"}, port |-> {"old", "new"}]
=============================================================================
