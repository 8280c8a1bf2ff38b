--------------------------- MODULE MCRequestAuth ----------------------------
(***************************************************************************)
(* Instances of RequestAuth: i64 scaled down to -41 .. 40.  One host has   *)
(* the gateway's id and the validator's key, another has no id.            *)
(***************************************************************************)
EXTENDS RequestAuth, TLC

CONSTANTS gateway, validator, none, full, cut

Submit == [method |-> "POST", path |-> "/v1/submit"]
Stream == [method |-> "GET", path |-> "/komms/events/stream"]

BothEndpoints == {Submit, Stream}
Known == (Submit :> {gateway, validator}) @@ (Stream :> {gateway})

FourHosts == {"gateway", "validator", "misconfigured", "unnamed"}
Names == [gateway |-> gateway, validator |-> validator,
          misconfigured |-> gateway, unnamed |-> none]
KeyOwners == [gateway |-> gateway, validator |-> validator,
              misconfigured |-> validator, unnamed |-> gateway]

TwoBodies == {full, cut}
OnlyGateway == {gateway}
Extremes == {-(I64Max + 1), I64Max}
=============================================================================
