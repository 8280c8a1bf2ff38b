----------------------------- MODULE MCCliPost ------------------------------
(***************************************************************************)
(* Instances of CliPost.                                                   *)
(***************************************************************************)
EXTENDS CliPost

Id(c) == Bytes(32, 0, FALSE, c)
CidText == Text(8, TRUE, "bagaaaa")

MCExtensionKeys == {}
MCKeys == {Id("k1"), Id("k2")}

\* A well-formed value or two for each option, and a malformed one.
MCOptionValues ==
  [ sid |-> {Id("s")}, cid |-> {Id("c")}, did |-> {Id("d")}, mid |-> {Id("m")},
    pid |-> {Id("p"), Malformed},
    ref_hex |-> {Bytes(33, 2, FALSE, "h"), Bytes(5, 3, TRUE, "x")},
    cid_str |-> {CidText, Text(0, TRUE, "")},
    content_hash |-> {Id("h"), Malformed},
    member_address |-> {Text(60, TRUE, "addr1"), Text(60, TRUE, "addr2"), Malformed},
    ts |-> {Uint(1), Uint(2)},
    n |-> {Uint(0)} ]

AllCommands == DOMAIN PostCmd
EditCommand == {"message_edit"}
NoCommands == {}
RoleCommands == {"role_assign", "role_revoke"}
=============================================================================
