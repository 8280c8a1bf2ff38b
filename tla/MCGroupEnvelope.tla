-------------------------- MODULE MCGroupEnvelope ---------------------------
(***************************************************************************)
(* Two servers that start with one master key; alice is in both of them,   *)
(* bob in one.                                                             *)
(***************************************************************************)
EXTENDS GroupEnvelope, TLC

CONSTANTS home, guild, lobby, talk, alice, bob, old, new, hi

Start(server) == [server |-> server, epoch |-> 0, mvk |-> old]
Rings == (alice :> {Start(home), Start(guild)}) @@ (bob :> {Start(home)})

TwoBodies == {<<>>, <<hi>>}
=============================================================================
