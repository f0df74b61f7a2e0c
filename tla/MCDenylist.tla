------------------------------ MODULE MCDenylist ------------------------------
(***************************************************************************)
(* Small instances of Denylist: rules on a domain and on one of its        *)
(* subdomains; hosts at, above, below and beside them.                     *)
(***************************************************************************)
EXTENDS Denylist

evil == <<"evil", "test">>
up_evil == <<"up", "evil", "test">>
other == <<"other", "test">>

Lower(labels) == [labels |-> labels, form |-> "lower"]

NestedRules == {Lower(evil), Lower(up_evil)}

OneRule == {Lower(evil)}

\* The destination of a CONNECT as squid logs it.
PortRules == {[labels |-> evil, form |-> "port"]}

AskedHosts ==
    {evil, up_evil, other, <<"a", "up", "evil", "test">>, <<"test">>,
     <<"evil", "test", "other", "test">>}

=============================================================================
