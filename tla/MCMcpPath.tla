----------------------------- MODULE MCMcpPath -----------------------------
(* An instance of McpPath for TLC: two pods, a container in each.           *)
EXTENDS McpPath

Says(kid, signer, exp, orgs) ==
    [bearer |-> TRUE, rs256 |-> TRUE, kid |-> kid, signer |-> signer, exp |-> exp, issuer |-> TRUE,
     org |-> NoOrg, orgs |-> orgs, aud |-> {"app"}]

\* A token that dies, one of the key to come, one that nobody signed, and none.
TokenClaims ==
    [t \in Tokens |->
        CASE t = "dies" -> Says("k1", "k1", 0, <<"a", "b">>)
          [] t = "next" -> Says("k2", "k2", Never, <<"b", "a", "b">>)
          [] t = "forged" -> Says("k1", NoKey, 9, <<"b">>)
          [] t = "basic" -> [Says("k1", NoKey, Never, <<>>) EXCEPT !.bearer = FALSE]]

Rings == {<<"k1">>, <<"k1", "k2">>, <<"k2">>}

OnePerPod == [c \in Containers |-> IF c = "c_eu" THEN "eu" ELSE "ca"]

Sends(token, host, path, messages) ==
    [path |-> path, query |-> NoOrg, bearer |-> token # NoToken,
     orgs |-> IF token = NoToken THEN <<>> ELSE Claims[token].orgs,
     messages |-> messages, readable |-> TRUE, token |-> token, host |-> host]

DeadClients ==
    {Sends("dies", "app", NoOrg, <<"a", NoOrg>>), Sends("dies", "plugin", NoOrg, <<"b", "a">>)}

NewClients == {Sends("next", "app", NoOrg, <<"b">>)}

Forgers == {Sends("forged", "app", NoOrg, <<"b">>)}

Visitors ==
    {Sends("basic", "app", NoOrg, <<>>), Sends(NoToken, "plugin", NoOrg, <<>>), Sends(NoToken, "app", NoOrg, <<>>),
     Sends(NoToken, "app", "a", <<>>),
     [Sends(NoToken, "app", NoOrg, <<>>) EXCEPT !.query = "b"]}

Guests == {Sends(NoToken, "plugin", NoOrg, <<>>), Sends(NoToken, "plugin", "a", <<>>)}

Meanwhile(asks, without, n) == [asks |-> asks, without |-> without, events |-> n]

\* The guests see the secret changed everywhere, one pod being new.
AllClienteles ==
    {Meanwhile(asks, {}, 1) : asks \in {DeadClients, NewClients, Forgers, Visitors}}
        \cup {Meanwhile(Guests, {"ca"}, 3)}

Clients == UNION {DeadClients, NewClients, Forgers, Visitors, Guests}
=============================================================================
